--------------------------- MODULE ReorderBuffer ---------------------------
(***************************************************************************)
(* The per-session reorder buffer of the receiver, src/src/session/        *)
(* goodtp_session.cpp:1429-1593 and the tail of TimerHandler (2683-2697).  *)
(*                                                                         *)
(* A ring of BufSize slots (REORDER_BUF_SIZE) holds frames that arrived    *)
(* ahead of next (reorder_next_sn_), the sequence number the application   *)
(* waits for.  Sequence numbers are u32: SnMod stands for 2^32 and every   *)
(* sum and difference is taken modulo SnMod.  Slots do not record the      *)
(* sequence number of their frame; the slot index is sn % BufSize.         *)
(*                                                                         *)
(* A packet is abstracted to [sn, first]: pack_sn_ and the sequence number *)
(* of the first transmission of the same frame (first = sn unless the      *)
(* packet is an ARQ retransmission, which is given a fresh pack_sn_).      *)
(* reorder_gap_since_us_ is abstracted to gap (# 0): the elapsed time of   *)
(* the timer is a nondeterministic choice of when GapTimeout happens.      *)
(***************************************************************************)
EXTENDS Integers, Sequences

CONSTANTS BufSize,    \* REORDER_BUF_SIZE (16)
          SnMod,      \* 2^32
          Packets,    \* the DATA packets the peer may send
          None        \* NULL: no frame in a slot

SN == 0 .. SnMod - 1
Slots == 0 .. BufSize - 1

ASSUME SizesAssumption ==
    /\ BufSize \in Nat \ {0}
    /\ SnMod \in Nat
    /\ \E k \in 2 .. SnMod : SnMod = 2 * k * BufSize
ASSUME PacketsAssumption ==
    /\ Packets \subseteq [sn : SN, first : SN]
    /\ None \notin Packets

VARIABLES rb,   \* [inited, next, slot, gap]: the reorder_* members of GtpSession
          out   \* what the last step did with next, next+1, ...: the frame
                \* given to receive_frame_cb_, or None for a placeholder

vars == <<rb, out>>

-----------------------------------------------------------------------------
EmptySlot == [frame |-> None, ph |-> FALSE]
Cleared == [inited |-> FALSE, next |-> 0,
            slot |-> [i \in Slots |-> EmptySlot], gap |-> FALSE]

Occupied(s) == s.frame # None \/ s.ph

Plus(sn, j) == (sn + j) % SnMod
Dist(sn, base) == (sn - base) % SnMod
SlotOf(sn) == sn % BufSize
\* (i32)(sn - reorder_next_sn_) < 0
Passed(sn, base) == 2 * Dist(sn, base) >= SnMod

\* UINT32_MAX is "no hint"; it is also a sequence number.
NoHint == SnMod - 1

\* Mutant of SortKey: first_sn_hint is ignored.
SortKeyPackSn(p) == p.sn

SortKey(p) == IF p.first # NoHint THEN p.first ELSE p.sn

-----------------------------------------------------------------------------

\* ReorderFlush: the slots from next on, up to the first empty one, are
\* delivered or skipped; the gap timer runs on iff something is left.
RunLength(r) ==
    CHOOSE k \in 0 .. BufSize :
        /\ \A j \in 0 .. k-1 : Occupied(r.slot[SlotOf(Plus(r.next, j))])
        /\ k < BufSize => ~Occupied(r.slot[SlotOf(Plus(r.next, k))])

FlushOut(r) ==
    [j \in 1 .. RunLength(r) |-> r.slot[SlotOf(Plus(r.next, j-1))].frame]

\* Mutant of Flush: the gap timer is not restarted for what is left.
FlushDisarmed(r) ==
    LET k == RunLength(r)
        taken == {SlotOf(Plus(r.next, j)) : j \in 0 .. k-1}
    IN  [r EXCEPT !.next = Plus(@, k), !.gap = FALSE,
                  !.slot = [i \in Slots |-> IF i \in taken THEN EmptySlot ELSE @[i]]]

Flush(r) ==
    LET k == RunLength(r)
        taken == {SlotOf(Plus(r.next, j)) : j \in 0 .. k-1}
        left == [i \in Slots |-> IF i \in taken THEN EmptySlot ELSE r.slot[i]]
    IN  [r EXCEPT !.next = Plus(@, k), !.slot = left,
                  !.gap = \E i \in Slots : Occupied(left[i])]

\* reorder_next_sn_++; reorder_gap_since_us_ = 0; ReorderFlush()
Advance(r) == [r EXCEPT !.next = Plus(@, 1), !.gap = FALSE]

\* The first call fixes the sequence number the application waits for; it is
\* the pack_sn_ of the packet, before it is re-keyed.
Inited(r, sn) == IF r.inited THEN r ELSE [r EXCEPT !.inited = TRUE, !.next = sn]

-----------------------------------------------------------------------------
\* The branches of ReorderEnqueue for a frame, r the state after Inited.
InOrder(r, p) == [rb  |-> Flush(Advance(r)),
                  out |-> <<p>> \o FlushOut(Advance(r))]

\* Mutant of LargeGap: the ring is emptied from slot 0 on.
LargeGapSlotOrder(r, p) ==
    [rb  |-> [r EXCEPT !.next = Plus(SortKey(p), 1),
                       !.slot = [i \in Slots |-> EmptySlot],
                       !.gap = FALSE],
     out |-> [j \in 1 .. BufSize |-> r.slot[j-1].frame] \o <<p>>]

\* The gap is too large for the ring: everything buffered is delivered in
\* order and the buffer jumps behind the frame.
LargeGap(r, p) ==
    [rb  |-> [r EXCEPT !.next = Plus(SortKey(p), 1),
                       !.slot = [i \in Slots |-> EmptySlot],
                       !.gap = FALSE],
     out |-> [j \in 1 .. BufSize |-> r.slot[SlotOf(Plus(r.next, j-1))].frame]
             \o <<p>>]

\* The frame is copied into its slot; a frame already there is freed.  When
\* no memory is left for the copy the frame is delivered at once.
Store(r, p) ==
    [rb  |-> [r EXCEPT !.slot[SlotOf(SortKey(p))].frame = p, !.gap = TRUE],
     out |-> <<>>]
StoreOom(r, p) ==
    [rb  |-> [r EXCEPT !.slot[SlotOf(SortKey(p))].frame = None],
     out |-> <<p>>]

Enqueue(r0, p, oom) ==
    LET r == Inited(r0, p.sn)
        d == Dist(SortKey(p), r.next)
    IN  IF Passed(SortKey(p), r.next) THEN [rb |-> r, out |-> <<>>]
        ELSE IF d = 0 THEN InOrder(r, p)
        ELSE IF d >= BufSize THEN LargeGap(r, p)
        ELSE IF oom THEN StoreOom(r, p) ELSE Store(r, p)

\* Mutant of EnqueuePlaceholder: a placeholder replaces a buffered frame.
EnqueuePlaceholderOver(r0, sn) ==
    LET r == Inited(r0, sn)
        d == Dist(sn, r.next)
    IN  IF Passed(sn, r.next) THEN [rb |-> r, out |-> <<>>]
        ELSE IF d = 0
             THEN [rb |-> Flush(Advance(r)), out |-> <<None>> \o FlushOut(Advance(r))]
        ELSE IF d < BufSize
             THEN [rb |-> [r EXCEPT !.slot[SlotOf(sn)] = [frame |-> None, ph |-> TRUE],
                                    !.gap = TRUE],
                   out |-> <<>>]
        ELSE [rb |-> r, out |-> <<>>]

\* ReorderEnqueue(sn, NULL): the pack_sn_ of a duplicate DATA packet carries
\* nothing to deliver, the buffer only has to step over it.
EnqueuePlaceholder(r0, sn) ==
    LET r == Inited(r0, sn)
        d == Dist(sn, r.next)
    IN  IF Passed(sn, r.next) THEN [rb |-> r, out |-> <<>>]
        ELSE IF d = 0
             THEN [rb |-> Flush(Advance(r)), out |-> <<None>> \o FlushOut(Advance(r))]
        ELSE IF d < BufSize /\ r.slot[SlotOf(sn)].frame = None
             THEN [rb |-> [r EXCEPT !.slot[SlotOf(sn)].ph = TRUE, !.gap = TRUE],
                   out |-> <<>>]
        ELSE [rb |-> r, out |-> <<>>]

\* Mutants of SkipGap: next moves by two, or not at all.
SkipGapTwice(r) == [rb  |-> Flush(Advance(Advance(r))),
                    out |-> <<None>> \o FlushOut(Advance(Advance(r)))]
SkipGapStuck(r) == [rb |-> Flush(r), out |-> FlushOut(r)]

\* TimerHandler: the sequence number waited for is given up.
SkipGap(r) == [rb |-> Flush(Advance(r)), out |-> <<None>> \o FlushOut(Advance(r))]

-----------------------------------------------------------------------------
Become(res) == rb' = res.rb /\ out' = res.out

ReceiveData(p) == Become(Enqueue(rb, p, FALSE))
ReceiveDataOom(p) == Become(Enqueue(rb, p, TRUE))
ReceiveDuplicate(p) == Become(EnqueuePlaceholder(rb, p.sn))
GapTimeout == rb.gap /\ Become(SkipGap(rb))
\* ResetSession -> ReorderClear: the frames still buffered are freed.
ReorderClear == rb' = Cleared /\ out' = <<>>

Init == rb = Cleared /\ out = <<>>

Next ==
    \/ \E p \in Packets : ReceiveData(p) \/ ReceiveDataOom(p) \/ ReceiveDuplicate(p)
    \/ GapTimeout
    \/ ReorderClear

Spec == Init /\ [][Next]_vars

\* PeriodGtpTimer is called periodically by the application, and the gap
\* timer is restarted only by a step that moves next forward.
FairSpec == Spec /\ WF_vars(GapTimeout)

-----------------------------------------------------------------------------
SlotType == [frame : Packets \cup {None}, ph : BOOLEAN]
RbType == [inited : BOOLEAN, next : SN, slot : [Slots -> SlotType], gap : BOOLEAN]

\* The state of the buffer and of the last delivery is well typed.
TypeOK == rb \in RbType /\ out \in Seq(Packets \cup {None})

HeadEmptyIn(r) == ~Occupied(r.slot[SlotOf(r.next)])
PlacedIn(r) ==
    \A i \in Slots : r.slot[i].frame # None =>
        LET key == SortKey(r.slot[i].frame) IN
        i = SlotOf(key) /\ Dist(key, r.next) \in 1 .. BufSize - 1
ArmedIn(r) == (\E i \in Slots : Occupied(r.slot[i])) => r.gap

\* Between two calls nothing sits in the slot of the sequence number that is
\* waited for: ReorderFlush has run to the end wherever next has moved, so a
\* gap timeout never strands a frame behind next.
HeadEmpty == HeadEmptyIn(rb)

\* The ring keeps no sequence number beside a frame; still every buffered
\* frame is in the slot of its own sort key and less than a ring ahead of
\* next, so that the frame found at next is always the frame keyed next.
SlotPlacement == PlacedIn(rb)

\* Whatever waits in the buffer, a frame or a placeholder, waits with the gap
\* timer running (a second gap left by a flush included): nothing depends on
\* the arrival of another packet.
TimerArmed == ArmedIn(rb)

\* What a step that moves next hands to the application as its j-th result is
\* the frame keyed next + j - 1, or, last, the frame that made the buffer jump
\* over a large gap: the callbacks come in the order of the sort keys and none
\* is left behind next.  (Only a frame delivered for want of memory leaves
\* next alone, and only a reset takes it back.)
InOrderStep ==
    rb.inited /\ rb'.inited /\ rb'.next # rb.next =>
        \A j \in 1 .. Len(out') : out'[j] # None =>
            LET key == SortKey(out'[j]) IN
            \/ key = Plus(rb.next, j-1)
            \/ /\ j = Len(out')
               /\ Dist(key, rb.next) >= j-1
               /\ rb'.next = Plus(key, 1)
StepsInOrder == [][InOrderStep]_vars

\* A frame that waits in the buffer is delivered or freed by a reset: it never
\* waits for ever for a sequence number that the peer does not send again.
BufferedLeaves ==
    \A i \in Slots : Occupied(rb.slot[i]) ~> ~Occupied(rb.slot[i])
=============================================================================
