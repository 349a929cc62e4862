# Verification of udpfec (GoodTP)

udpfec is a C++ library, GoodTP, that carries an application's frames over UDP
and hides loss with retransmission (ARQ), parity packets (FEC) and a reorder
buffer; with it come a socks5 UDP proxy and a demo program that use the library.
This directory holds TLA+ models of their core logic, the TLC configurations that
check them and the TLAPS proofs about them. `PROJECT.json` lists every run, the
mutants that show that each property can fail, the source lines behind each
definition, the hazards the properties aim at and the theorems.

Run a model with `tlc -config X.cfg M`, check proofs with `tlapm M.tla`.

## 1. Inventory

Paths are relative to `src/src/` unless they start with another directory.
The build modelled is the one of `CMakeLists.txt` and
`utils/goodtp_macrodefine.h`: `APPLICATION_TYPE 2`, `ENABLE_ARQ 1`,
`ENABLE_FEC 1`, `SUPPORT_RELIABLE_TRAN 0`, `ENABLE_ARQ_BOOST_FLAG 0`,
`ENABLE_BOOST_AI_FLAG 1`.

| Component | State | Operations | Correct when |
|---|---|---|---|
| C interface `interface/goodtp_interface.cpp` | none of its own | `GtpFrameSend`, `GtpPacketReceive`, `PeriodGtpTimer`, `DelGtpLinker`, buffers, queries | each call runs the handlers of the right session in the right order |
| Instance table `mgr/goodtp_mgr.cpp` 268-745 | slots, counter | `InsLoadGtpModule`, `CreateGtpInstance`, `DeleteGtpInstance`, `RmLoadGtpModule` | a handler reaches its own instance or none |
| Session table `mgr/goodtp_mgr.cpp` 1231-1733 | session map and pool, keys deleted by the application, cached time | `GetSession`, `BuildNewSession`, `DelSpsSessionByKey`, `CheckResourceActiveStatus` | one session per stream, none used after it is freed, idle ones closed |
| Session `session/goodtp_session.cpp` | `pack_sn_`, `last_sn_`, `send_session_stat_`, `recv_session_stat_`, three windows, ARQ list, FEC codec, reorder buffer | `FramePrepHandler`, `FramePostHandler`, `PackPrepHandler`, `PackPostHandler`, `ResetSession`, `TimerHandler`, `SecondTimerHandler`, `LinkQualityCallback`, `WinSnBitmapCallback` | both ends agree when a stream (re)starts; the application gets each frame at most once and in order |
| Reorder buffer, in the session (1429-1593, 2683-2697) | ring of 16 slots, `reorder_next_sn_`, `reorder_gap_since_us_` | `ReorderEnqueue`, `ReorderFlush`, `ReorderClear`, gap timeout | in order, nothing under a wrong number, nothing waits for ever |
| Receiving window `slidwin/slidwin.cpp` | bitmap ring, borders, newest number | `SnEntryWin`, `CheckIsRepeatPacketSn`, `ResetWin`, `MoveWin`, `CalcRcvLoss` | a repeat is known, a new number is not refused, an ACK confirms only what arrived |
| Sending window and link quality, `slidwin/`, `LinkQualityCallback` | loss estimates and their ages, worst loss of the last seconds, switches | `CalcSndLoss`, `SetFeedBackLoss`, `SetRttUs`, `SnTsEntryWin`, `LinkQualityCallback` | settings come to fit the link and do not flap |
| ARQ `arq/goodtp_arq.cpp` | list of unconfirmed packets, limits | `PacketEntryList`, `CheckRtoRetran`, `ProcAck`, `ProcNack`, `ClearArqList`, `PopAllPack` | a missing frame is retransmitted up to its limit, a confirmed one no more |
| FEC2 `fec2/` | code matrices of both directions, packet cache | `Encode`, `Decode`, `CacheDataPack`, `ChangeFecMode`, `ClearResource`, `PopAllPack` | a restored frame is one that was sent |
| Pools `mempool/`, `tranmempool.h` | bitmaps, flags, reference counts | allocate, free, add a reference | no buffer in two hands, none lost |
| Estimators `session/goodtp_factorcalulation.cpp`, parts of `slidwin/` | moving averages | pps, jitter, congestion rank | floating-point; their results only choose settings |
| Proxy `socks5udpf/src/` | sessions by client and by socket, queues, users | relay both ways, with GoodTP or not, timeouts, reading the users' file | sockets and sessions agree, only users in the list have one |
| Demo `lib-demo-doc/demotest/src/` | testers with thread, instance and state machine | commands, signals, test protocol | no thread outlives its tester, testers come to run |
| `win/`, `socks5udpf/src/{slide_win,loss_stat,dly_cache}.cpp` | | not compiled, or not used by anyone | |
| `udp_echo/` | | test programs | their comments state what the library should do |

How they interact. `GtpFrameSend` finds or builds the session, numbers a frame
(`FramePrepHandler`), sends it through the application's callback, and enters it
into FEC, send window and ARQ list (`FramePostHandler`). `GtpPacketReceive` finds
or builds the session, runs `PackPrepHandler` (handshake, jump check, duplicate
filter), `PackPostHandler` (ACK window, FEC, which may restore further packets;
ACK and NACK to the ARQ list and the sending window) and `ReorderEnqueue`. The
timer drives retransmission, loss calculation (which makes ACKs and NACKs), the
gap timeout and the expiry of sessions. A session is used by one thread at a time;
the concurrency is that of two ends and a network, of timers against arrivals, of
loops against the data they change, and of the application, which calls the
library from inside its callbacks. Buffers are shared by reference counts between
the application and four parts of the library. The proxy runs its worker beside a
thread that reads the users' file; the demo one thread per tester.

What is hard: packets lost, repeated, delayed and reordered; a frame existing as
first copy, retransmission under a new number, boost copy and FEC-restored copy;
reports about old copies; restarts of either end; 32-bit wrap-around; rings
reused without being cleared; allocation failures; call-backs that re-enter the
library; threads deleted from outside. `PROJECT.json` lists these as `hazards`.

## 2. Plan

In the order of importance, what the application sees first. Done: reorder buffer,
receive path and its abstract promise, receiving windows, handshake, ARQ list, FEC2,
pools, session table, link quality, proxy, instances and demo; proofs about the reorder
buffer, the receive path and its refinement of the abstract channel, the windows, the
handshake, the ARQ list, FEC2, the pools, the session table, link quality, the proxy and
the demo.
Left:

1. `Fec2` under `ReceivePath` in place of "any packet sent may be restored".
2. The re-entrant call into the half-done step of the reorder buffer.

## 3. Modules

| Module | Models | Run |
|---|---|---|
| `ReorderBuffer`, `MCReorderBuffer` | `ReorderEnqueue`, `ReorderFlush`, `ReorderClear`, gap timeout | `reorder` |
| `ReorderBuffer_proof` | theorems on it | |
| `OrderedChannel` | abstract: frames in order, none twice, some lost | through `receive` |
| `ReceivePath`, `ReceivePath_proof` | sender's numbering, network, jump check, filter, FEC, reorder buffer | `receive` |
| `SlidWin` | one receiving window | through `windows` |
| `ReceiveWindows`, `ReceiveWindows_proof` | `filter_win_` and `data_win_r_` with jump check, pause, FEC, loss calculation | `windows` |
| `SessionSync` | the `init_flag_` handshake between two ends and a network | `session` |
| `Arq`, `Arq_proof` | `arq_list_`, timer and report loops, boost copies, settings, reporting peer | `arq` |
| `Fec2`, `Fec2_proof` | encoder, decoder, network | `fec2` |
| `PacketMemory`, `MCPacketMemory`, `PacketMemory_proof` | both pools and everyone who holds a buffer | `memory`, `memory_held` |
| `SessionTable`, `MCSessionTable` | session map, keys, callbacks, expiry | `sessions` |
| `Session_proof` | theorems on `SessionSync`, `SessionTable` and `LinkQuality` | |
| `LinkQuality` | reports of the sending window, `LinkQualityCallback` of a sender | `quality` |
| `UdpProxy`, `MCUdpProxy` | worker of the proxy and thread of the users' file | `proxy` |
| `Instances` | table of instances, as operators | through `testers` |
| `Testers` | client process of the demo | `testers` |
| `Programs_proof` | theorems on `UdpProxy`, `Testers` and `Instances` | |

### ReorderBuffer
`rb` holds the `reorder_*` members. `reorder_gap_since_us_` is the flag `gap`;
that enough time has passed is left open, so `GapTimeout` may happen whenever the
timer is armed. Slots keep a frame or a placeholder but, as in the code, not its
number. `SortKey` is the hint `first_sn`, with `UINT32_MAX` as "no hint".
`Enqueue` is the whole of `ReorderEnqueue` for a frame (late, in order, within
the ring, large gap with sorted flush, failing allocation), `EnqueuePlaceholder`
for a duplicate. `ReceiveData`, `ReceiveDataOom`, `ReceiveDuplicate`,
`GapTimeout`, `ReorderClear` are the calls. `out` is what one call did with the
numbers it passed.

### ReceivePath and OrderedChannel
`sent` is the wire: everything sent may arrive any number of times and in any
order. `ReceiveData` is one `GtpPacketReceive`: jump check (with `ResetSession`),
filter, FEC cache and restored packets, buffer. The filter is a set, because the
numbers in use fit into one window; the window itself is `SlidWin`. Its first left
border is the constant `FirstBorder`, because `BuildNewSession` chooses among 0, 10
and the first number. `FEC` may restore any packet sent and not received. The loops
inside one call, over the frames handed over (`Handed`) and over the packets restored
(`RestoreAll`), are recursive functions. `turn` keeps what the application got because
`next` moved, so without the frames handed over at once because memory was short. The
refinement mapping sends a frame to its distance from the first number, the output of
the channel to `turn` and its `epoch` to the resets.

### SlidWin and ReceiveWindows
A window is `[lpos, lsn, bits, maxSn, maxPos, outr]`. Position arithmetic is the
code's, its `0xFFFFFFFF` for 2^32 included. The second half of the bitmap starts
with arbitrary bits because no code initialises it. What rates and clocks decide
(reserve behind the window, how far `CalcRcvLoss` looks) is nondeterministic.
`ReceiveWindows` runs two windows as a session does.

### SessionSync
`snd` and `rcv` are the two halves of the handshake, `data` and `acks` the network
with packet ages, `SyncTick` the clock. Sessions may be lost and rebuilt on either
side (`RecreateSender`, `LoseReceiver`). One direction; the other is independent.

### Arq
`list` is the list from head to tail; a node is `[sn, first, cnt, age, boost,
twin, thr, again]`. The loops of `CheckRtoRetran`, `ProcArqIn64BitSys` (and its
32-bit twin), `ProcNotLossNack` and `ProcHasLossNack` are taken node by node
(`RtoStep`, `ReportStep`), because they move nodes to the tail of the list they
walk; `walk` is the loop's cursor. The report handlers differ only in how they
judge a node: `AckVerdict`, `NotLossVerdict`, `HasLossVerdict`. The peer receives
any of the packets, scans its window (`Scan`) and makes reports (`Report`); a
report may be lost, late, overtaken, or processed repeatedly. `LinkQuality` may
change every setting at any time between loops.

### Fec2
`enc` and `dec` are `encode_` and `decode_` of `GtpFec2`, `net` a network that
keeps the order but for packets that are overtaken. The contents of a packet are
the set of numbers XORed into it, so that "a packet that was sent" is a singleton,
and the `pack_sn_` of an XOR is the XOR of the numbers. The four directions of the
code (`HorizontalEncode`, `VerticalEncode`, `UphillEncode`, `DownhillEncode` and
likewise for restoring) are one operator with the direction as a parameter;
`Members` says which positions a line has. A call is one step: `SendCoded` encodes
and queues the DATA packet and its parity, `ReceiveData` caches, searches, restores
and clears, as `CacheDataPack` does. Where `TryRecoveryPackByDataPack` calls itself for
a packet it has restored, the model keeps a list of tries still to do, worked off from
the front, with what a restored packet asks for put in front: the order of the code's
calls. A try that restores uses up a parity and adds at most three, so `4 + 3 *` the
number of parities are enough to come to its end. Numbers have `SnBits` bits, because
the XOR of numbers is taken bit by bit. The sender keeps its session.

### PacketMemory
`mem` is one record: `pool` (per class of buffers the reference counts, flags,
bitmap, counters and last freed position), `node` (the pool of ARQ nodes), and who
holds what: `app` (references of the application), `arq` (nodes with their
buffers), `at` (a slot of the FEC cache, the parity of a matrix, the line being
encoded, a slot of the reorder buffer). Each call of the library is an action that
goes through the same allocations and frees as the code, with every early return;
where sizes, rates or numbers decide, the outcomes are the members of a set. A handler
is a chain of moves of one reference (taken from a pool, put into a place, shared,
given back), its loops are recursive functions over the slots or nodes walked. The
application is the one of the proxy and of the demo: it frees every packet once, after
the call it passed it to (`Free`), as `bitlinker.h:450-452` tells it. The library frees ACK,
NACK and FEC packets as well (`Consume`), so that pools and holders may disagree, and the
model keeps them apart: a buffer may be in the pool and in somebody's hands. A pool below
one word (the proxy's pools of 32, `fec.cpp:62-63`) has a bitmap of no words; the code works
on the word behind `malloc(0)`, which starts with any bits (`Uncleared`).

### SessionTable
`map` is `session_map_` with, for each session, its key, age and health; `pool` the
memory handed out. `stack` holds the library functions that are in the middle of a
callback; each keeps its pointer to a session, and `Freed` marks it as dangling
when the session is freed. The timer's walk (`PeriodGtpTimer`, `WalkVisit`,
`WalkCloses`, `WalkEnds`) is taken session by session. A session is named by the
slot of its memory, so that reuse of memory is seen. The application may call
anything from a callback but does not free a session that a function below it is
working with; that it may free one that is being closed is the interesting case.

### LinkQuality
`win` is the reporting half of the sending window, `ses` the session's view. What is
measured is any member of `Losses`; `Told` is a call of `LinkQualityCallback`. The
handlers (`Send`, `Ack`, `Nack`, `RttTestAnswer`, `QualityTick`) run through the windows'
functions in the code's order, each of which may report. `ses.now` is the u32 clock of
microseconds, a counter modulo `Wrap`, and `ses.till` the time of the return of the
algorithms in it, compared as numbers like in `goodtp_session.cpp:127`.

### UdpProxy
`w` is the worker of `pair_session_mgr.cpp`: sessions by client, by socket, queues,
the copy of the users' list, the sockets the kernel has open. A handler is an
operator from a worker to the set of workers it may leave, since sends, `epoll_ctl`
and `socket` may fail. `RecvFecPdu` and `FecWheel` are GoodTP as the proxy uses it:
it hands over, keeps back for later or drops. `w.pkg` and `w.key` are the members
`fec_data_pkg_` and `fec_stream_key_`, which every datagram and every callback overwrites
(`Mark`) and the handlers read. `CreateSocket` has the failures of `socket`, of what follows
it and of the entry into the relations. `users` is the list the other thread
has published with its stamp, `sync` that thread (`SyncStart`, `SyncRound`,
`SyncEvent`).

### Instances and Testers
`Instances` holds the table of instances as operators; the search for a free
position is a recursive function of the two ends, like the code's. `Testers` composes it
with the demo: `obj`
the testers with the state of their threads, `cli` the command under way and the
testers it waits for, `sig` the handler of a signal and the thread it runs on, `net` the
frames between each tester and the server. A signal comes at any time: while a command
waits, on its own thread, on the main thread or on the one of a tester. When `RemoveTran`
has deleted what `CmdDeleteTester` waits for, the command reads and deletes it once more;
C++ leaves open what happens then, and the model ends the process (`CmdDeleteBreaks`).

## 4. Runs

Eleven runs pass; `memory_held` refutes what a comment of the code says (`findings` in
`PROJECT.json`). What else TLC refutes is at the end of this section.

- `reorder` – every order of first copies, retransmissions two numbers later,
  duplicates, timeouts, clears and failing allocations on a ring of 3 with 12
  numbers. Numbers wrap, so any distance occurs. Every frame is in the slot of its
  key, the timer is armed while something is buffered, steps deliver in order, what
  is buffered leaves.
- `receive` – 4 packets, up to 2 restored per call, 2 resets, ring of 2. The
  handlers implement `OrderedChannel`; no frame twice; accepted frames are
  accounted for.
- `windows` – 6 packets out of 13 numbers with bursts below the jump threshold, on a
  window of 8 and a ring of 16, so that the window moves and the ring is reused:
  repeats are known, late packets are tolerated, ACKs confirm what arrived. The
  threshold is the largest that fits into the window, and nothing is lost across a pause.
- `session` – restarts of both ends, 2 packets and 1 feedback under way, each of them
  repeatable. The handshake never resets a stable session; resets are a sync period
  apart; after the last restart both reach `kRunning` for good.
- `arq` – two frames of a realtime stream with boost copies, any number of reports one at
  a time, limits of 0 and 1 retransmissions changed between loops, failing allocations,
  the algorithms switched off and on; `MIN_CALC_LOSS_SN_NUM` and the initial `rto_sn_num_`
  as in the code (3). The list stays in sending order; confirmed frames are gone; bounded
  number of copies; the list drains. Reliable streams have no run: the C interface sets
  `stream_type_` to 0 today (`goodtp_interface.cpp:168`, 487), so `TranFailedPostHandler`
  never gets to `arq.cpp:1131-1158` (`RetryLater`). The theorems on `Arq` include them.
- `fec2` – 9 packets from number 26 of 32 on, a ring of 8, the three code books that
  `APPLICATION_TYPE 2` selects, 3 faults of any kind (loss, overtaking, unencoded
  packet, failed allocation, change of book, reset, `ClearResource`). Every block
  size is completed and left, matrices and slots are reused, and the numbers wrap.
  The ring is a quarter of the code's, still two blocks of the largest book.
- `memory` – a class of two buffers and one of one, one node, words of one bit, so that
  the search leaves a word and classes run out; the application holds up to two
  references. One slot of each kind is enough, because holders never interact but
  through the pools. Bitmaps, flags and counters agree, no buffer is lost, none is
  refused while there is one, although packets are freed twice. Pools below a word, as
  the proxy has, are left to the theorems, which include them.
- `memory_held` – as `memory`, for what does not hold: a parity the decoder keeps goes
  back to the pool (`HeldInUse`, `tranmempool.h:155`).
- `sessions` – two five-tuples with the same computed number, streams with and
  without key on both, a pool of two sessions, callbacks nested two deep, time to
  live of 2.
- `proxy` – two clients, two sockets, one password that is in the file or not, UDP
  and ICMP, a stream key for each client, queues of one, failing `epoll_ctl`, a timeout of 1
  (the age of a session only decides whether it has expired).
- `quality` – losses of 0, 45 and 100 %, which lie on different sides of all
  thresholds (65 % off, 40 % on again, 23/25 % book), a second of two ticks, a period of
  two ticks on a clock that wraps after three, so that deadlines fall on both sides of
  the wrap. The code's lap has thousands of periods; what matters is only whether one
  lies across the wrap.
- `testers` – two testers of the kinds "measure" and "file" for a table of one instance, so
  that it is full, one bit of tester ids, both failures of `Running`, a signal at any time,
  two frames in flight, so that an answer can come late.

Some definitions in the modules state what a comment or a document suggests and the code
does not keep. They are properties of no run (`ConfirmedArrived` of one where it holds); TLC
finds the behaviour with the constants of the module's run and the changes named here.

- `ResetOnlyOnJump` (`ReceivePath`, `goodtp_session.cpp:2077`), with `FirstSn` 15,
  the last number before the wrap, and `FirstBorder` 8: two swapped packets reset the session.
- `FreshPasses` (`ReceiveWindows`, `slidwin.cpp:3436`), with `SnJump` 4, one above the
  room of the window: a burst below it makes the filter refuse all that follows.
- `ConfirmedArrived` (`ReceiveWindows`, `slidwin.cpp:3460`), with `PauseLoss` TRUE: the ACK
  window resynchronises after a pause and confirms a rounded number.
- `ReleasedWhenDone` (`Arq`, `DESIGN.md:284`), with `Retrans` {1}, `MaxFrames` 3, `MinCalc` 2
  and `RtoSns` 3, one above it: a report without losses releases a missing frame. Also with
  `Retrans` {3}, `Rto` 2 and `RtoSns` 1: the exhausted boost node takes the other one along.
- `BlockedUntilSent` (`SessionTable`, `goodtp_mgr.h:251-252`): a packet received for a deleted
  key builds a session.

Bounds. Rings and windows are the smallest that keep the relations of the code:
ring and 2^32 multiples of each other, window twice a number of blocks, reserve
below half a window, packet life below sync period. Every `Max...` constant is a
bound in a guard. `CHECK_DEADLOCK FALSE` is used where the system really may stop:
the peer and the application of `Arq` and `Fec2` stop at their bounds, an application
of `PacketMemory` may have nothing to do, proxy and demo can be shut down, and
`LinkQuality` may come to steps that change nothing.

Fairness. `reorder`: the timer fires when armed (`TimerHandler` is called
periodically). `session`: the application keeps sending, feedback is made
periodically, and a packet sent again and again arrives some time (strong
fairness of the receiving actions). `arq`: clock, timer and quality
reports come again and again between other calls (strong fairness, because a loop
under way disables them), and loops run to their end; none of reports or network.
`sessions`: callbacks return (strong, per depth, since another call may be nested
in between), the application keeps calling the timer, a walk goes on, the clock
runs. `quality`: the application keeps sending, the clock runs, and a report that is due
in the last tick before the clock wraps is made in that tick some time (strong), if it is
due there again and again, which `Settles` has as its hypothesis: the timer of the second
is not in step with 2^32 microseconds. Without it each report might find the time of the
return ahead, in this lap or the next. `testers`: the
tester's loop sends when it is due, and in neither direction the network loses everything
for ever (strong fairness of some delivery).

## 5. Proofs

Each theorem holds for all values of the constants that satisfy the `ASSUME`s of the
module it is about. TLC has checked every inductive invariant on the instance of the
run before it was proved.

`ReorderBuffer_proof`, for every ring size and width of numbers with
2^32-like `SnMod` an even multiple (at least 4 times) of the ring size, and every
set of packets:
`TypeCorrect`, `HeadAlwaysEmpty`, `PlacementCorrect`, `TimerAlwaysArmed`,
`DeliveryInOrder`. None of the invariants is inductive alone: that the head slot
is empty after a flush needs that flushing stops at the first free slot, that
frames are in their slots needs that none is a ring or more ahead, the order of a
large-gap flush needs both. `Inv` joins them (`Good`) with "a timer that is armed
belongs to an initialised buffer". The proof first shows what slots and distances
modulo `SnMod` do (`SlotOfPlus`, `SlotsDiffer`, `DistShift`), then what each helper
returns (`FlushGood`, `LargeGapOk`, `StoreOk`, ...), then one step per call. A second
set of lemmas says what a call does with the frames, for the modules that use the
buffer (`Moves`: what comes out was in the ring or is the new frame, nothing else
disappears from the ring, how far `next` goes, which slots get filled).

`ReceivePath_proof`: `DeliveredOnce` for every stream, and `NothingElseDrops`,
`Refinement` for one whose numbers do not wrap (`NotWrapped`). The last two are false
without that: a retransmission of frame 0xFFFFFFFF has no hint left and is sorted under
its new number (section 7). `PathInv` has four parts:

- `SentOk`: numbers on the wire are consecutive, a retransmission names a frame sent
  before;
- `Once`: the buffer is good, no frame is in two slots, and delivered, buffered and not
  yet offered frames are disjoint parts of the filter. This is what makes `AtMostOnce`
  inductive;
- `Line`, with `NotWrapped` only: everything lies on the line of the numbers sent. The
  buffer's `next` is not beyond the last number sent, every frame in the ring is ahead
  of it (`Standing`), every frame delivered in turn behind it and in order (`TurnOk`),
  and each accepted frame is delivered, buffered, given up or before the start
  (`Accounted`, which needs `Walked`: every number that `next` has passed was dealt with);
- `LastOk`: `last_sn_` is a number sent, or the one before the first.

A handler is several calls of the buffer, so the invariant has a parameter `pend`: the
frames the filter has registered and the buffer has not been offered yet. Each call
keeps it with a smaller `pend` (`ApplyAll`, `EnqueueAll`, `PlaceholderAll`), and
`HandleDataAll` chains the calls. What the loops inside a call return is shown
by looking at the least step at which it would fail (`LeastNatural`), for which
`HandingExists` and `RestoringExists` first show that the recursions have a solution.

`ReceiveWindows_proof`: `RepeatsAreCaught`, `LateIsTolerated`, `OnlyArrivedConfirmed`,
all under the hypothesis `Fits`: numbers stay away from the wrap, nothing is lost across
a pause, and `ai_learn_sn_delta_` and a matrix of FEC fit into half a window less the
reserve. The code guarantees the last only while `ai_learn_sn_delta_` is at most 1536:
beyond that, and across a pause, windows have to resynchronise, and `ConfirmedArrived`
is false there (section 4). `WindowInv` says that bit by bit between the borders a window
agrees with the numbers that arrived (`Holds`), that `max_sn_` and `max_sn_pos_` belong
together, are never left behind by the left border and never further from it than half
a window and the reserve (`WinShape`), that both windows have the same newest number,
and that `last_sn_` is not beyond it, which is what makes the jump check bound the
distance of the next packet. The proof goes from the ring (`AtDiffer`, `RingSpanAt`)
over moves (`ShiftOk`: what is cleared lies beyond the right border and never reaches
round to the left one; `ScanFacts`, `EntryStep`: how far a move goes) to entries
(`EntryOk`) and the handlers.

`Session_proof` on the handshake, for all bounds, packet life below sync period:
`SyncTypeCorrect`, `SessionIsStable`, `ResetsAreSpaced`. The strengthening relates
clocks: a running receiver entered that state not before the last reset
(`rcv.sync <= hist.age`), and in the sender's first life every marked packet still
under way is at least as old as the receiver's running state, so that it is gone
before the sync period is over.

`Arq_proof`, for any number of frames, reports, limits and settings:

- `SendOrder`. `ListInv` adds to the order that every listed node carries a number given
  out before to its frame, that its count of retransmissions is below the number of
  copies sent of the frame, that its limit is not below the least one, and that a loop's
  cursor lies in the list that is being changed under it: a node that is sent again goes
  to the tail under the newest number.
- `ConfirmedSentNoMore`, as long as `VecHasRoom`: `first_sn_vec` (640 entries) has room
  while a report is worked on. `ConfInv`: a confirmed frame is listed only while the
  report that confirmed it is being worked on, and then it is in that vector.
- `BoundedCopies`. A node has sends left by its kind, limit and count (`Left`), a list the
  sum of them; `CopyInv`: the copies sent of a frame and what the list may still send of it
  stay together within the bound. The sum is the cardinality of a set of pairs of a node
  and a unit (`Units`, `Budget`), so that an action on one node is an argument about
  disjoint sets and not an induction over the list. `ArqAssumption` asks that some limit
  is positive, as in both tables `max_retran_std`; with a limit of 0 alone TLC finds a
  frame copied once more than the bound.

`PacketMemory_proof`, for any number and size of classes, words, nodes and slots of the
FEC cache, pools below one word included: `NeverLostHolds`, `BooksAgreeHolds`,
`NoFalseShortageHolds`. A handler passes
through states in which a reference is counted that nobody holds yet, or holds no more,
so the invariant has that buffer in hand as a parameter: `Good(m, h)` says that flags,
bitmaps, counts and counters of the pools and of the nodes agree with each other and that
the count of a buffer is at most what is held of it while `h` is in hand, and
`Good(mem, Empty)` is what holds between calls. It is "at most" and not "equal" because
some packets are freed twice (`memory_held`); that is still enough for no buffer to be
lost. What is held of a buffer is what the application has of it and the cardinalities of
the sets of nodes and places that hold it. Each move (`Taken`,
`RefAddOne`, `Put`, `Keep`, `Give`, `FreeTranBuf`, a node listed or popped) turns one
`Good` into the next; a loop keeps it by looking at the least step that would not; a
handler is a chain of moves. That a search finds a buffer whenever one is free
(`NoFalseShortage`) needs that bits and flags agree within the words of the bitmap and
that the last freed position lies in a word that is searched.

`Session_proof` on the table: `NothingDangles`, `PoolMatchesMap` from
`TableInv` (`TableInvariance`): functions in the middle of a callback hold sessions of
the map (`Live`, `Holding`), what lies below the timer's walk is being closed
(`UnderTimer`) and by one function only (`CloseAlone`), keys differ. `StreamsKeptApart`
assumes `TokensUnused`: no frame is sent with a token, as all callers in the repository
pass 0 (section 7); it needs that the key of a session is the one its users' packets
lead to (`UsersKeyed`).

`Programs_proof` on the proxy: `NoSocketLeaks`, `RevokedUsersGone`, `NothingWaitsUnarmed`,
`DownlinkHasKey`, for any numbers of clients, sockets, users and keys. `Good` is one
invariant of the worker, because the four hold each other up: a session without a socket
must not be found by housekeeping, a socket is owned by one session both ways (`Owned`),
and what is kept of a user is permitted (`Permitted`) at every step of a handler, not only
between handlers. That a session's key is its own client's (`KeyedAt`) needs that the
worker's members speak of a datagram of this client whenever a handler reads them
(`Marked`), which every way into `handle_game_client_data` has to restore, because in
between they may speak of anybody.

`Session_proof` on the link: `WorstLossRemembered`, for all losses, thresholds and periods.
`QualityInv`: the maximum of the running second covers what was told in it (`Covered`).

`Fec2_proof`: `ParityHonestHolds`, for every ring, width of numbers and set of code books,
and `RestoredWasSentHolds`, for the books 2, 4 and 5 (`PlainBooks`). Neither has a bound on
what is sent, lost, delayed, reset or fails to get memory.

- `EncInv`: every parity in the matrix of the encoder (`EncOk`) and on the wire (`NetOk`)
  is a member of `Packs`: its bytes are the packets its bitmap names, in a block that
  starts at a multiple of its length. To keep this when a packet enters a line, its bit
  must be new, or the packet would cancel itself out. So `EncOk` adds that all bits in
  the matrix belong to positions before the number expected next; a jump of the numbers
  or a change of the book empties the matrix first.
- `DecOk`: each slot of the ring is empty or holds one packet that belongs into it
  (`CacheOk`), each parity of a matrix in use is an honest one of the block of the matrix
  (`MatsOk`, `HoldOk`), and what was restored is one packet each (`OneEach`). A parity
  need *not* be of the matrix's book: a change of the book keeps the others. A bitmap is
  then read with a wrong number of columns, and the XOR leaves packets of the second
  half of a row of four over. It is the comparison of the number with the slot, in
  `RestoreDataBy*Dir`, that catches this: the packets left over change the two lowest
  bits of the number (`FalseXor`), so it does not belong into the slot (`XorOfLine`).
- Each helper of the decoder keeps `DecOk` (`PopFacts`, `DropFacts`, ...); the list
  of tries and the loop of `ClearResource` do by their least step that would not.

`PlainBooks` are the books `LinkQualityCallback` chooses from in the repository's build
(`APPLICATION_TYPE` 2, `slidwin_self.h:9`). The other application types use book 1 as
well, where lines of other books overlap in more ways than in the first row of four;
nothing is claimed for these.

`Programs_proof` on the demo: `EveryInstanceOwned`, `FreePlaceFound`, for any number of
testers and places. `TestersInv`: a tester that says it has exited has no thread any more
(`ObjOk`), so that commands and signal handler, which wait for this, delete nothing in
use; one that is not live, or whose thread is only starting, has no handler; objects and
table name each other (`Linked`); the counter is the number of places in use (`TabOk`);
and the list names testers that exist, each once, while a command's testers are in it
unless the handler of a signal has deleted them (`Listed`). A search ends
before the last place of the search that calls it, so it is well-founded
(`IdleExists`); it returns a free place or none (`IdleFound`) and, from the first place
on, none only when all are taken (`IdleComplete`): the second half starts again from the
beginning, which costs time and misses nothing.

Only model-checked, and why:

- liveness: `BufferedLeaves`, `Synced`, `ListDrains`, `IdleClosed`, both `Settles`;
- `NoIdleParity` of `Fec2`: its invariant has to say of every line what a list of tries
  still owes it, and that the bound on the tries is never reached.

## 6. Not modelled

Floating-point estimation (pps, jitter, congestion rank, RTT test pace, the
statistics of `comstruct.h`), whose results are open choices in the models; the
receiver's branch of `LinkQualityCallback`, which only reports; convolution mode of
FEC; the wrap of numbers in `Arq` and `ReceiveWindows`; printing and query calls; the
layout of headers in the proxy and its utilities (`libcli.c`, `socket_helper.cpp`,
the address index); in the demo the server's own threads, recorded files, statistics
and show commands; `win/` and the proxy's statistics classes, which nobody uses; the
programs in `udp_echo/`.

## 7. Observations

Met while modelling; the models describe what the code does, and where a property
would fail because of one of these, the assumption that keeps it away is named here.

Receiving:

- Two packets swapped across the wrap of `pack_sn_` look like a jump of 2^32 and reset
  the session (`goodtp_session.cpp:2064`; `ResetOnlyOnJump`). `receive` starts at 0.
- Behind the wrap, `SnEntryWin` writes the bit of a number one position before the one
  `CheckIsRepeatPacketSn` reads (`slidwin.cpp:585` and 2986, against the promise at 3436).
  `windows` stays away from the wrap.
- `ai_learn_sn_delta_` starts at 2000 (`goodtp_macrodefine.h:169`) and becomes 1.5 times the
  packet rate, at least 100 and without upper bound (`goodtp_session.cpp:2846`). When it
  exceeds the free room of the window (at least 4096 - 2048 - 512 = 1536 numbers), a loss
  burst in between makes the filter refuse all new packets as repeats ("current is out of
  the left border", `slidwin.cpp:2960`; `FreshPasses`). `windows` and the theorems
  on it have the threshold below the room.
- A sender that restarts within `MIN_SYNC_PERIOD_US` has its first packets refused as
  repeats, while `udp_echo/reconnect_test.cpp:399` says "triggers ResetSession on B".
- The first packet that arrives is where the reorder buffer starts; frames overtaken by
  it are accepted, acknowledged and dropped (`goodtp_session.cpp:1488`).
- Resynchronisation after a run of numbers beyond the right border (`Resync`) sets bit 0,
  the bit of the rounded border (`slidwin.cpp:669-674`), not the one of the number, and so
  confirms a packet that may be lost (`ConfirmedArrived`). What keeps it away in `windows`
  and in the theorems is `Fits`: the threshold plus the reserve within half a window, and
  `PauseLoss` FALSE.
- The retransmission of frame 0xFFFFFFFF is sorted under its new number
  (`goodtp_session.cpp:1477`).
- After a reset by a late marked packet, a packet accepted before is accepted again.

Sending:

- A boost copy that has used up its limit and is reported lost takes every other
  node of its frame along (`goodtp_arq.cpp:526`, 571), so that a frame is given up before
  `max_retran_times_` retransmissions (`src/DESIGN.md:284`; `ReleasedWhenDone`).
- `CalcRcvLoss` that finds a hole at the left border no older than `rto_sn_num_`
  reports `rto_sn_` = left border without losses (`slidwin.cpp:2411`), which releases
  the missing packet at the sender (`ReleasedWhenDone`). It does not happen with
  `rto_sn_num_` up to `MIN_CALC_LOSS_SN_NUM`; the code learns larger ones (`slidwin.cpp:1230`,
  2485, 2788). `Arq` keeps it a constant, `RtoSns`. `Scan` goes number by number; the
  shortcuts of the code for whole words (2293-2372), which find the same, are left out.
- The reliable half of the ARQ is out of reach of the present C interface: `stream_type_` is
  set to 0 (`goodtp_interface.cpp:168`, 487), so `goodtp_arq.cpp:1131-1158` (`RetryLater`) does
  not run. `BoundedCopies`, `SendOrder` and `ConfirmedSentNoMore` are proved with it; that the
  list drains is checked without it.
- When one report confirms more frames than `first_sn_vec` holds (`MAX_RSV_WIN_SIZE`), other
  nodes of the remaining frames stay listed and are sent again.
- `BlockSnEntryWin` never shifts its mask: bit 0 of a word that is not full decides for
  all 64 numbers (`slidwin.cpp:345-442`).
- The first report of `CalcSndLoss` does not set `report_loss_` (`slidwin.cpp:2127`), and
  `slidwin.cpp:1389` compares a direction with a loss.
- That two reports of loss are needed to call the network bad (`goodtp_session.h:221`)
  has little effect, because `max_send_loss_per_s_` keeps the first loss for a second.
- `rmv_close_alg_ts_us_` is a u32 of microseconds (`goodtp_session.cpp:127`). When the period
  lies across the wrap, once in 71.6 minutes, the algorithms come back at the first good
  report instead of after the period; when no report falls between the time of the return
  and the wrap, they come back a lap later. So there is no property that they stay off
  for a whole period.

FEC2:

- Parity of a restarted sender is combined with packets of its old session that are still
  cached (`goodtp_fec2.cpp:2517`); `Fec2` keeps the sender's session.
- `max_cached_sn_` survives `PopAllPack`; a late packet from before the wrap takes it
  back; `NewBlock` is true for every packet of the last block before the wrap.

Memory:

- `fec::recv_fec_pdu` of the proxy (`fec.cpp:185`) and the demo (`tran.cpp:2483`, 2952) free every
  packet they passed to `GtpPacketReceive`, also those `PackPostHandler` has freed
  (`goodtp_session.cpp:2370`, 2382, 2396), so that a cached parity is handed out again while
  the decoder holds it (run `memory_held`). `PacketMemory` has this application; the sample
  of `udp_echo/PROJECT_UNDERSTANDING.md:347`, which frees only on failure and leaks DATA, is
  not modelled.
- The bitmap of a pool below 64 buffers, as the proxy has (`fec.cpp:62-63`), has no words
  (`tranmempool.h:1307`); the code reads and writes behind `malloc(0)`. The model takes the
  word to be the pool's own, with any contents, as it is in the heaps in use. A position
  behind the end of the pool that is found there is refused (1367), after its bit was set.
- Buffers beyond the last full word of a pool's bitmap are never handed out, and
  `MallocTranBuf` behind an old buffer without room does not end (`tranmempool.h:768`;
  no caller).
- Failure exits of `CreateGtpInstance` subtract from the caller's configuration what was
  not added (`goodtp_mgr.cpp:513`).

Sessions:

- `GtpFrameSend` with a token files DATA under a key made of the token, while parity and
  control packets of the same stream go by the five-tuple: one stream would have two
  sessions. No caller in the repository passes a token.
- An application that calls `DelGtpLinker` or the timer from a callback of a session in
  use frees it under the function that called back.
- `goodtp_mgr.h:251` says the receive path builds no session for a key the application
  deleted; `GetSession` takes the key off the list and builds one (`goodtp_mgr.cpp:1401`;
  `BlockedUntilSent`). Nothing else takes keys off, so that the set grows with the
  streams that do not come back.
- A session that becomes active during its last callback is deleted all the same.
- `GetLinkerQuality` passes the peer's port as the own one (`goodtp_interface.cpp:868`);
  `close_session_cb_` is set to NULL (`goodtp_mgr.cpp:1250`).

Proxy:

- Two changes of the users' file handled in one round of epoll carry the same stamp, and
  the worker may miss the second; a change whose read fails is lost, since its time has
  been noted already (`sync_auth_info.cpp:172-212`). `NoRevokedSession` speaks of the
  worker's list.
- `del_fec_session` deletes by stream key, so that after a client's address has changed the
  timeout of its old session deletes the GoodTP session of the new one.
- A datagram is sent at once although others are queued, and overtakes them.

Demo:

- Commands ignore the result of `Running`; a tester without thread makes its deletion
  wait for ever. So does a signal handled on a tester's own thread (`boot.cpp:213`).
- A signal handled on another thread while `CmdDeleteTester` waits makes `RemoveTran` delete
  the same testers: both go on to use and delete them (`tran.cpp:3391-3399`, 4217), and
  nothing locks the list. `InstancesOwned` speaks of what holds until a command meets a
  tester that is gone. A second signal during the first is not modelled.
- Tester ids are given back only when all are deleted; behind the last bit all get the same.
- Deleting one tester closes the record file of all (`~TranEpoll`); the types of the start
  and end of a file are overwritten (`tran.cpp:2114`).
- `FindGtpMemIdlePos` goes on from the beginning, not behind the middle (`goodtp_mgr.cpp:330`).
