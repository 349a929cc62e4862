---------------------------- MODULE ReceivePath ----------------------------
(***************************************************************************)
(* A stream of DATA packets from the sender's numbering to the receiving   *)
(* application: GtpPacketReceive (src/src/interface/goodtp_interface.cpp   *)
(* 714-772), which runs PackPrepHandler (sequence-jump check and duplicate *)
(* filter), PackPostHandler (FEC, which may restore lost packets through   *)
(* Fec2RestoreFrameReceive) and ReorderEnqueue, in this order.             *)
(*                                                                         *)
(* Sender.  Every packet gets the next pack_sn_; an ARQ retransmission     *)
(* gets a fresh one and names the first in first_sn.                       *)
(* Network.  Whatever was sent arrives any number of times, in any order,  *)
(* or never.                                                               *)
(* Filter window.  The set of first_sn registered since the last reset; a  *)
(* number below the left border counts as registered.  The window itself   *)
(* is module SlidWin: here the numbers in use stay within its size.        *)
(* FEC.  Any packet that was sent and not received may be restored when a  *)
(* DATA or a FEC packet arrives.                                           *)
(***************************************************************************)
EXTENDS Integers, Sequences

CONSTANTS BufSize, SnMod, None,
          FirstSn,      \* pack_sn_ of the first packet of the stream
          FirstBorder,  \* left border of the filter window: BuildNewSession
                        \* takes 0, 10 or the first number that arrived
          MaxPackets,   \* bound: packets sent, retransmissions included
          MaxRestore,   \* bound: packets FEC restores in one call
          MaxResets,    \* bound: calls of ResetSession
          SnJump,       \* ai_learn_sn_delta_
          TurnOverStep, \* MAX_RCV_PACK_SN_UPDATE_STEP
          Block,        \* ResetSession rounds the left border down to a block
          AllowOom      \* BOOLEAN: may MallocTranBuf fail

SN == 0 .. SnMod - 1
ASSUME RingAssumption ==
    /\ BufSize \in Nat \ {0} /\ SnMod \in Nat
    /\ \E k \in 2 .. SnMod : SnMod = 2 * k * BufSize
    /\ None \notin [sn : SN, first : SN] /\ None \notin SN
ASSUME StreamAssumption ==
    /\ Block \in Nat \ {0} /\ FirstBorder \in SN
    /\ FirstSn \in SN /\ MaxPackets \in Nat /\ 2 * MaxPackets < SnMod
    /\ MaxRestore \in Nat /\ MaxResets \in Nat /\ AllowOom \in BOOLEAN
    /\ SnJump \in Nat /\ TurnOverStep \in Nat

VARIABLES sent,      \* sequence of [sn, first]: the packets put on the wire
          last,      \* last_sn_
          filter,    \* first_sn registered in filter_win_
          border,    \* its left border
          cached,    \* pack_sn_ of the DATA packets FEC has cached
          rb,        \* the reorder buffer
          app,       \* history: first_sn of the frames the application got
          turn,      \* history: those it got when next moved, without the
                     \* ones handed over at once for want of memory
          lost,      \* history: sequence numbers the buffer gave up waiting for
          start,     \* history: the sequence number the buffer started from
          resets     \* history: number of ResetSession calls

vars == <<sent, last, filter, border, cached, rb, app, turn, lost, start, resets>>
rcvVars == <<last, filter, border, cached, rb, app, turn, lost, start, resets>>

RB == INSTANCE ReorderBuffer WITH Packets <- [sn : SN, first : SN], out <- <<>>

-----------------------------------------------------------------------------
NewSn == RB!Plus(FirstSn, Len(sent))
Index(sn) == RB!Dist(sn, FirstSn)
Firsts == {sent[i].first : i \in 1 .. Len(sent)}
OnWire == {sent[i] : i \in 1 .. Len(sent)}

\* GtpFrameSend numbers a new frame.
SendFrame ==
    /\ Len(sent) < MaxPackets
    /\ sent' = Append(sent, [sn |-> NewSn, first |-> NewSn])
    /\ UNCHANGED rcvVars

\* PackRetransmit: the same frame under a new pack_sn_.
Retransmit(f) ==
    /\ Len(sent) < MaxPackets
    /\ sent' = Append(sent, [sn |-> NewSn, first |-> f])
    /\ UNCHANGED rcvVars

-----------------------------------------------------------------------------
\* CheckIntTurnOver: 0xFFFFFFFF - head + tail, in u32 arithmetic.
TurnOver(head, tail) == TurnOverStep >= (SnMod - 1 - head + tail) % SnMod

\* The test of PackPrepHandler for a broken or mixed-up stream.
Jumped(l, sn) ==
    IF l <= sn THEN sn - l >= SnJump
               ELSE ~TurnOver(l, sn) /\ l - sn >= SnJump

\* The first_sn of the frames in the result of a reorder buffer call.
Given(o) == {o[i].first : i \in {j \in DOMAIN o : o[j] # None}}

\* receive_frame_cb_ is called for one frame after the other.
Handing(a, o) ==
    LET h[n \in 0 .. Len(o)] ==
          IF n = 0 THEN a
          ELSE IF o[n] = None THEN h[n - 1] ELSE Append(h[n - 1], o[n].first)
    IN  h
Handed(a, o) == Handing(a, o)[Len(o)]

\* Sequence numbers given up between two states of the reorder buffer: next
\* moved over them and neither a frame nor a placeholder stood there, nor are
\* they among those in here, which a duplicate has just filled.
GivenUp(r, r1, here) ==
    {s \in {RB!Plus(r.next, d) : d \in 0 .. RB!Dist(r1.next, r.next) - 1} :
        /\ s \notin here
        /\ ~(/\ RB!Dist(s, r.next) < BufSize
             /\ RB!Occupied(r.slot[RB!SlotOf(s)]))}

\* The receiver's state as one value; a handler is a function on it.
Rcv == [filter |-> filter, border |-> border, cached |-> cached, rb |-> rb,
        app |-> app, turn |-> turn, lost |-> lost, start |-> start, resets |-> resets]
Become(s) ==
    /\ filter' = s.filter /\ border' = s.border /\ cached' = s.cached
    /\ rb' = s.rb /\ app' = s.app /\ turn' = s.turn /\ lost' = s.lost
    /\ start' = s.start /\ resets' = s.resets

\* The result of a reorder buffer call for pack_sn_ sn, with the histories.
\* A call that hands over a frame for want of memory leaves next alone.
Apply(s, sn, res, here) ==
    LET r == RB!Inited(s.rb, sn)
    IN  [s EXCEPT !.rb = res.rb,
                  !.start = IF s.rb.inited THEN @ ELSE sn,
                  !.app = Handed(@, res.out),
                  !.turn = IF res.rb.next = r.next THEN @ ELSE Handed(@, res.out),
                  !.lost = @ \cup GivenUp(r, res.rb, Given(res.out) \cup here)]

\* RepeatPacketFilter
Repeated(s, f) == f \in s.filter \/ RB!Passed(f, s.border)

\* Mutant of Restored: the filter is not asked.
RestoredUnfiltered(s, r, oom) ==
    Apply([s EXCEPT !.cached = @ \cup {r.sn}, !.filter = @ \cup {r.first}], r.sn,
          RB!Enqueue(s.rb, r, oom), {})

\* Fec2RestoreFrameReceive: a restored packet passes the duplicate filter
\* and goes to the reorder buffer before the packet that triggered it.
Restored(s, r, oom) ==
    LET c == [s EXCEPT !.cached = @ \cup {r.sn}] IN
    IF Repeated(s, r.first) THEN c
    ELSE Apply([c EXCEPT !.filter = @ \cup {r.first}], r.sn,
               RB!Enqueue(s.rb, r, oom), {})
Restoring(s, rs, oom) ==
    LET g[n \in 0 .. Len(rs)] ==
          IF n = 0 THEN s ELSE Restored(g[n - 1], rs[n], oom)
    IN  g
RestoreAll(s, rs, oom) == Restoring(s, rs, oom)[Len(rs)]

\* What FEC may restore: sent packets it has not cached.
Restorable(s) ==
    UNION {{rs \in [1 .. n -> {p \in OnWire : p.sn \notin s.cached}] :
              \A i, j \in 1 .. n : rs[i] = rs[j] => i = j} : n \in 0 .. MaxRestore}

\* ResetSession
ResetRcv(s, sn) == [s EXCEPT !.filter = {}, !.border = sn - (sn % Block),
                         !.cached = {}, !.rb = RB!Cleared,
                         !.app = <<>>, !.turn = <<>>, !.lost = {}, !.resets = @ + 1]

\* A DATA packet, fresh or duplicate, with the packets rs it lets FEC restore.
\* A packet that comes more than MAX_KEEPALIVE_TIME_LEN_US after the one
\* before (idle) is not checked for a jump and does not move last_sn_.
HandleData(s, p, rs, oom) ==
    LET dup == Repeated(s, p.first)
        post == RestoreAll([s EXCEPT !.filter = IF dup THEN @ ELSE @ \cup {p.first},
                                     !.cached = @ \cup {p.sn}], rs, oom)
    IN  IF dup THEN Apply(post, p.sn, RB!EnqueuePlaceholder(post.rb, p.sn), {p.sn})
        ELSE Apply(post, p.sn, RB!Enqueue(post.rb, p, oom), {})

ReceiveData(p, idle, oom) ==
    LET reset == ~idle /\ Jumped(last, p.sn)
        pre == IF reset THEN ResetRcv(Rcv, p.sn) ELSE Rcv
    IN  /\ reset => resets < MaxResets
        /\ last' = IF idle THEN last ELSE p.sn
        /\ \E rs \in Restorable([pre EXCEPT !.cached = @ \cup {p.sn}]) :
              Become(HandleData(pre, p, rs, oom))
        /\ UNCHANGED sent

\* A FEC packet arrives and lets FEC restore rs.
ReceiveFec(oom) ==
    /\ \E rs \in Restorable(Rcv) \ {<<>>} : Become(RestoreAll(Rcv, rs, oom))
    /\ UNCHANGED <<sent, last>>

\* The tail of TimerHandler.
GapTimeout ==
    /\ rb.gap
    /\ Become(Apply(Rcv, rb.next, RB!SkipGap(rb), {}))
    /\ UNCHANGED <<sent, last>>

\* A session starts at 0 (pack_sn_(0), last_sn_(0)).  Another FirstSn stands
\* for a session that has run for long: everything before it was delivered.
Init ==
    /\ sent = <<>> /\ filter = {} /\ cached = {} /\ border = FirstBorder
    /\ IF FirstSn = 0
         THEN last = 0 /\ rb = RB!Cleared
         ELSE last = FirstSn - 1 /\ rb = RB!Inited(RB!Cleared, FirstSn)
    /\ app = <<>> /\ turn = <<>> /\ lost = {} /\ start = FirstSn /\ resets = 0

Next ==
    \/ SendFrame
    \/ \E f \in Firsts : Retransmit(f)
    \/ \E p \in OnWire, idle \in BOOLEAN, oom \in {FALSE, AllowOom} :
          ReceiveData(p, idle, oom)
    \/ \E oom \in {FALSE, AllowOom} : ReceiveFec(oom)
    \/ GapTimeout

Spec == Init /\ [][Next]_vars

-----------------------------------------------------------------------------
\* The handlers of the receiver together implement the ordered channel: the
\* application gets frames in the order of first transmission, none twice,
\* whatever mixture of first copies, retransmissions under new numbers,
\* network duplicates and FEC-restored copies arrives.  (Frames handed over at
\* once for want of memory are set aside.)
Channel == INSTANCE OrderedChannel WITH
    sent <- {Index(f) : f \in Firsts},
    app <- [i \in DOMAIN turn |-> Index(turn[i])],
    epoch <- resets
OrderedDelivery == Channel!Spec

\* Even when frames are delivered out of order for want of memory, no frame
\* is given to the application twice: FEC-restored copies, retransmissions and
\* network duplicates of a frame are all caught by one filter on first_sn.
AtMostOnce == \A i, j \in DOMAIN app : app[i] = app[j] => i = j

Delivered == {app[i] : i \in DOMAIN app}
Buffered == {rb.slot[i].frame.first : i \in {j \in RB!Slots : rb.slot[j].frame # None}}

\* A frame the filter has accepted (and that the ACK therefore confirms to the
\* peer, which will not send it again) is delivered, or buffered, or the buffer
\* had given up its number, or its number is below the one the buffer started
\* from after the session began or was reset.  Nothing else drops a frame.
AcceptedAccounted ==
    \A f \in filter : \/ f \in Delivered \cup Buffered \cup lost
                      \/ RB!Passed(f, start)

\* "quintuple may be mixed or session may be break" (goodtp_session.cpp:2077):
\* a reset, which discards the windows and the buffered frames, happens only
\* when the stream really jumped by SnJump or more, forwards or backwards.  At
\* the wrap of pack_sn_ this is not so: CheckIntTurnOver is asked only when
\* last_sn_ is above pack_sn_, so that a packet from before the wrap that
\* comes behind one from after it is 2^32 - 1 away.
ResetOnlyOnJump ==
    [][resets' # resets => /\ RB!Dist(last', last) >= SnJump
                           /\ RB!Dist(last, last') >= SnJump]_vars
=============================================================================
