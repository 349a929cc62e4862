-------------------------------- MODULE Arq --------------------------------
(***************************************************************************)
(* The list of unconfirmed packets of a sender, src/src/arq/goodtp_arq.cpp, *)
(* with PackRetransmit (src/src/session/goodtp_session.cpp:1222-1336) and  *)
(* the parts of LinkQualityCallback (60-735) that steer it.                *)
(*                                                                         *)
(* arq_list_ is a sequence of nodes.  A node holds one packet: sn          *)
(* (pack_sn_) of its last copy, first (first_pack_sn_) of its first copy,  *)
(* cnt (retran_counter_) and age, the ticks since last_send_ts_us_.  A     *)
(* second node, the boost node, may stand for the same frame; it is sent   *)
(* again after a shorter time.                                             *)
(*                                                                         *)
(* The loops that walk the list are modelled node by node: walk is the     *)
(* loop under way and walk.i the node it looks at (0 for NULL).  A session *)
(* is used by one thread, so no other handler runs until the loop has      *)
(* ended.  A node sent again goes to the tail and may be met once more by  *)
(* the same loop.  ProcArqIn64BitSys and ProcArqIn32BitSys read the bitmap *)
(* of an ACK in words of different sizes and treat nodes alike.            *)
(*                                                                         *)
(* Peer.  It receives any of the packets sent and reports, at any time     *)
(* after the first MIN_CALC_LOSS_SN_NUM packets, what data_win_r_ shows;   *)
(* reports may be lost, delayed, repeated and overtaken.  (That the window *)
(* shows what arrived is the subject of ReceiveWindows.)  rto_sn_num_,     *)
(* which the peer learns from rate, RTT and disorder, keeps a value; the   *)
(* shortcuts of its scan for whole words of the bitmap and the early end   *)
(* of the scan at a word (slidwin.cpp:2293-2372) are left out.             *)
(***************************************************************************)
EXTENDS Integers, Sequences, SequencesExt, FiniteSets, FiniteSetsExt

CONSTANTS MaxFrames,  \* bound: frames the application sends
          MaxReports, \* bound: reports under way at a time
          Retrans,    \* values of max_retran_times_
          Boosts,     \* values of max_boost_times_ while boost_switch_ is on
          DefBoost,   \* DEFAULT_BOOST_TIMES
          BoostCap,   \* MAX_BOOST_TIMES_PER_ONCE
          Rto,        \* rto_timeout_us_
          BoostDue,   \* boost_period_us_ once the RTT is known
          SlidWin,    \* SLID_WIN_SIZE
          NackMax,    \* MAX_FEEDBACK_NACK_SN_NUM
          MinCalc,    \* MIN_CALC_LOSS_SN_NUM
          RtoSns,     \* rto_sn_num_: DEFAULT_DISORDER_NUM, learnt up to 5
          FirstMax,   \* MAX_RSV_WIN_SIZE
          SnMod,      \* 2^32
          AlgStates,  \* values of alg_top_switch_
          Reliable,   \* BOOLEAN: stream_type_ is kReliableStream
          AllowOom    \* BOOLEAN: may an allocation fail

ASSUME ArqAssumption ==
    /\ MaxFrames \in Nat \ {0} /\ MaxReports \in Nat \ {0}
    /\ IsFiniteSet(Retrans) /\ Retrans \subseteq Nat /\ Retrans # {} /\ Retrans # {0}
    /\ IsFiniteSet(Boosts) /\ Boosts # {} /\ Boosts \subseteq Nat
    /\ DefBoost \in Nat \ {0} /\ BoostCap \in Nat /\ BoostDue \in Nat \ {0}
    /\ Rto \in Nat /\ BoostDue <= Rto
    /\ MinCalc \in Nat /\ RtoSns \in Nat
    /\ SlidWin \in Nat /\ NackMax \in Nat /\ FirstMax \in Nat /\ SnMod \in Nat
    /\ TRUE \in AlgStates /\ AlgStates \subseteq BOOLEAN
    /\ Reliable \in BOOLEAN /\ AllowOom \in BOOLEAN

VARIABLES list,   \* arq_list_
          sent,   \* sent[n + 1]: first_pack_sn_ of the packet numbered n
          knobs,  \* [alg, boost, maxBoost, maxRetran, due]: what is adjusted
          walk,   \* [kind, i, fb, firsts]: the loop under way
          got,    \* the numbers in data_win_r_ of the peer
          base,   \* its left border
          fbs,    \* the reports under way; each may arrive any number of times
          hist    \* history: [free, conf, rcvd], see Init

vars == <<list, sent, knobs, walk, got, base, fbs, hist>>

NoReport == [kind |-> "none", head |-> 0, tail |-> 0, rto |-> 0, lost |-> {}]
Idle == [kind |-> "idle", i |-> 0, fb |-> NoReport, firsts |-> <<>>]
Never == Rto + 1

NewSn == Len(sent)              \* pack_sn_ of the session
Frames == {sent[k] : k \in DOMAIN sent}
Listed == {list[k].first : k \in DOMAIN list}

-----------------------------------------------------------------------------
\* CloneBoostNode: a second node for the frame, to be sent with the next timer.
\* Its retransmissions are counted anew and it is never tried once more.
Clone(n) == [n EXCEPT !.cnt = 0, !.age = Rto, !.boost = TRUE,
                        !.twin = TRUE, !.again = TRUE]
\* It is put at the tail if both allocations succeed.
Cloned(l, n, ok) == IF ok THEN Append(l, Clone(n)) ELSE l

Threshold == IF knobs.maxBoost = 0 THEN DefBoost ELSE knobs.maxBoost

\* GtpFrameSend -> FramePostHandler -> PacketEntryList.  Without memory for
\* the node, or with the algorithms off, the frame is sent and forgotten.
SendFrame(ok, okBoost) ==
    LET n == [sn |-> NewSn, first |-> NewSn, cnt |-> 0, age |-> 0,
              boost |-> FALSE, twin |-> FALSE, thr |-> Threshold, again |-> FALSE]
        clone == knobs.boost /\ knobs.maxBoost # 0 /\ okBoost
        entered == knobs.alg /\ ok
    IN  /\ walk = Idle
        /\ Cardinality(Frames) < MaxFrames
        /\ sent' = Append(sent, NewSn)
        /\ list' = IF entered
                   THEN Cloned(Append(list, [n EXCEPT !.twin = clone]), n, clone)
                   ELSE list
        /\ hist' = IF entered THEN hist ELSE [hist EXCEPT !.free = @ \cup {NewSn}]
        /\ UNCHANGED <<knobs, walk, got, base, fbs>>

-----------------------------------------------------------------------------
\* Mutant of Exhausted: < for <=.
ExhaustedStrict(n) == (IF n.boost THEN n.thr ELSE knobs.maxRetran) < n.cnt

\* JudgeExhautResendNum, JudgeIsTranFailed, JudgeCanRtoReSend
Exhausted(n) == (IF n.boost THEN n.thr ELSE knobs.maxRetran) <= n.cnt
TranFailed(n) == Exhausted(n) /\ n.age >= Rto
CanRtoReSend(n) ==
    IF n.boost THEN n.thr > n.cnt /\ n.age >= knobs.due
               ELSE knobs.maxRetran > n.cnt /\ n.age >= Rto

\* Mutant of Resent: the copy keeps its number.
ResentSameSn(n) == [n EXCEPT !.cnt = @ + 1, !.age = 0]

\* PackRetransmit: the frame goes out under the next pack_sn_.
Resent(n) == [n EXCEPT !.sn = NewSn, !.cnt = @ + 1, !.age = 0]

\* The node behind walk.i; NULL when walk.i is the tail, even though a node
\* is pushed behind it in the same step.
NextNode(i, popped) ==
    IF i = Len(list) THEN 0 ELSE IF popped THEN i ELSE i + 1
Popped == RemoveAt(list, walk.i)
Keep == list' = list /\ sent' = sent /\ walk' = [walk EXCEPT !.i = NextNode(@, FALSE)]
SendAgain(n) ==
    /\ list' = Append(Popped, Resent(n))
    /\ sent' = Append(sent, n.first)
    /\ walk' = [walk EXCEPT !.i = NextNode(@, TRUE)]

\* TranFailedPostHandler: on a reliable stream the packet is tried once more.
Again(n, ok) ==
    [n EXCEPT !.sn = NewSn, !.cnt = 1, !.age = 0, !.again = TRUE, !.twin = @ \/ ok,
              !.thr = IF n.twin /\ @ < BoostCap THEN @ + 1 ELSE @]
RetryLater(n, ok) ==
    /\ list' = Append(Cloned(Popped, Again(n, ok), ok), Again(n, ok))
    /\ sent' = Append(sent, n.first)
    /\ walk' = [walk EXCEPT !.i = NextNode(@, TRUE)]
Release == list' = Popped /\ sent' = sent /\ walk' = [walk EXCEPT !.i = NextNode(@, TRUE)]

-----------------------------------------------------------------------------
\* CheckRtoRetran from TimerHandler: the list is walked, or with the
\* algorithms off cleared (ClearArqList).
CheckRtoRetran ==
    /\ walk = Idle /\ list # <<>>
    /\ IF knobs.alg
         THEN /\ walk' = [Idle EXCEPT !.kind = "rto", !.i = 1]
              /\ UNCHANGED <<list, hist>>
         ELSE /\ list' = <<>>
              /\ hist' = [hist EXCEPT !.free = @ \cup Listed]
              /\ UNCHANGED walk
    /\ UNCHANGED <<sent, knobs, got, base, fbs>>

\* One node of that loop, which stops at the first node sent just now.
RtoStep(ok) ==
    /\ walk.kind = "rto" /\ walk.i # 0
    /\ LET n == list[walk.i] IN
       /\ n.age >= 1
       /\ IF TranFailed(n)
          THEN IF ~Reliable \/ n.boost \/ n.again THEN Release ELSE RetryLater(n, ok)
          ELSE IF CanRtoReSend(n) THEN SendAgain(n) ELSE Keep
    /\ UNCHANGED <<knobs, got, base, fbs, hist>>
RtoEnd ==
    /\ walk.kind = "rto"
    /\ walk.i # 0 => list[walk.i].age = 0
    /\ walk' = Idle
    /\ UNCHANGED <<list, sent, knobs, got, base, fbs, hist>>

-----------------------------------------------------------------------------
\* Distance from the head of a report.  A number before the head is far away.
Span(head, sn) == IF head <= sn THEN sn - head ELSE sn + (SnMod - 1 - head)
Within(fb, sn, last) == Span(fb.head, sn) <= Span(fb.head, last)
TooFar(fb, sn) == Span(fb.head, sn) > SlidWin

\* What the three handlers take a node for.  ProcArqIn64BitSys: the bit of its
\* number decides, up to tail_sn; a zero beyond rto_sn is too young to judge.
AckVerdict(fb, sn) ==
    IF ~Within(fb, sn, fb.tail) THEN IF TooFar(fb, sn) THEN "lost" ELSE "stop"
    ELSE IF sn \notin fb.lost THEN "arrived"
    ELSE IF Within(fb, sn, fb.rto) THEN "lost" ELSE "young"
\* ProcNotLossNack: everything up to rto_sn arrived.
NotLossVerdict(fb, sn) ==
    IF Within(fb, sn, fb.rto) THEN "arrived"
    ELSE IF TooFar(fb, sn) THEN "lost" ELSE "stop"
\* ProcHasLossNack: everything up to rto_sn arrived but what is listed.
HasLossVerdict(fb, sn) ==
    IF ~Within(fb, sn, fb.rto) THEN IF TooFar(fb, sn) THEN "lost" ELSE "stop"
    ELSE IF sn \in fb.lost THEN "lost" ELSE "arrived"

\* ProcNack
Verdict(fb, sn) ==
    IF fb.kind = "ack" THEN AckVerdict(fb, sn)
    ELSE IF fb.lost = {} THEN NotLossVerdict(fb, sn) ELSE HasLossVerdict(fb, sn)

\* An ACK or NACK arrives, for the first time or once more.
ProcReport(fb) ==
    /\ walk = Idle /\ list # <<>>
    /\ walk' = [kind |-> "report", i |-> 1, fb |-> fb, firsts |-> <<>>]
    /\ UNCHANGED <<list, sent, knobs, got, base, fbs, hist>>

Remember(n) == IF Len(walk.firsts) < FirstMax THEN Append(walk.firsts, n.first)
                                              ELSE walk.firsts
Drop(n) ==
    /\ list' = Popped
    /\ sent' = sent
    /\ walk' = [walk EXCEPT !.i = NextNode(@, TRUE), !.firsts = Remember(n)]

\* One node of the loop.  A lost packet that has been sent often enough is
\* given up (failed_ack_) in the same way as one that has arrived.
ReportStep ==
    /\ walk.kind = "report" /\ walk.i # 0
    /\ LET n == list[walk.i]
           v == Verdict(walk.fb, n.sn)
       IN  /\ v # "stop"
           /\ \/ v = "arrived" /\ Drop(n)
              \/ v = "lost" /\ Exhausted(n) /\ Drop(n)
              \/ v = "lost" /\ ~Exhausted(n) /\ SendAgain(n)
              \/ v = "young" /\ Keep
           /\ hist' = IF v = "arrived" THEN [hist EXCEPT !.conf = @ \cup {n.first}] ELSE hist
    /\ UNCHANGED <<knobs, got, base, fbs>>

\* Mutant of DelNodeByFirstSn: the other nodes of the frames are kept.
DelNodeByFirstSnNot(l, firsts) == l

\* The nodes of l at the positions in keep, in their order.
Kept(l, keep) ==
    [j \in 1 .. Cardinality(keep) |->
        l[CHOOSE k \in keep : Cardinality({i \in keep : i <= k}) = j]]
\* The other nodes of the frames dropped are dropped at the end.
DelNodeByFirstSn(l, firsts) ==
    Kept(l, {k \in DOMAIN l : \A i \in DOMAIN firsts : l[k].first # firsts[i]})
ReportEnd ==
    /\ walk.kind = "report"
    /\ walk.i # 0 => Verdict(walk.fb, list[walk.i].sn) = "stop"
    /\ list' = DelNodeByFirstSn(list, walk.firsts)
    /\ walk' = Idle
    /\ UNCHANGED <<sent, knobs, got, base, fbs, hist>>

-----------------------------------------------------------------------------
\* LinkQualityCallback for data_win_s_: measured loss and RTT switch the
\* algorithms and boosting on or off and choose the limits.
LinkQuality(alg, boost, maxBoost, maxRetran) ==
    /\ walk = Idle
    /\ knobs' = [alg |-> alg, boost |-> boost, maxRetran |-> maxRetran,
                 maxBoost |-> IF boost THEN maxBoost ELSE 0, due |-> BoostDue]
    /\ UNCHANGED <<list, sent, walk, got, base, fbs, hist>>

Tick ==
    /\ walk = Idle
    /\ list' = [k \in DOMAIN list |->
                  [list[k] EXCEPT !.age = IF @ < Rto THEN @ + 1 ELSE @]]
    /\ UNCHANGED <<sent, knobs, walk, got, base, fbs, hist>>

\* The scan of CalcRcvLoss over the window of the peer, which holds the numbers
\* in now: it stops at the first hole that is no older than rto_sn_num_ numbers
\* (rto_tmout_pos stays before it); the holes before it are lost.
Scan(now) ==
    LET holes == (base .. Max(now)) \ now
        young == {sn \in holes : Max(now) + 1 - sn <= RtoSns}
        stop == IF young = {} THEN Max(now) ELSE Max({base, Min(young) - 1})
    IN  [rto |-> stop, lost |-> {sn \in holes \ young : sn <= stop}]

\* CalcRcvLoss, after the packets in new have come.  Few losses are reported in
\* a NACK, which reaches to the end of the scan, many in an ACK, whose bitmap
\* and rto_sn_ reach to max_sn_.  Then MoveWin may move the left border.
Report(new, moved) ==
    LET now == got \cup new
        max == Max(now)
        scan == Scan(now)
        many == Cardinality(scan.lost) >= NackMax
    IN  /\ walk = Idle
        /\ Cardinality(fbs) < MaxReports
        /\ now # {} /\ (base = 0 => Cardinality(now) >= MinCalc)
        /\ fbs' = fbs \cup {[kind |-> IF many THEN "ack" ELSE "nack",
                             head |-> base, tail |-> max,
                             rto |-> IF many THEN max ELSE scan.rto,
                             lost |-> IF many THEN (base .. max) \ now ELSE scan.lost]}
        /\ base' = IF moved THEN scan.rto ELSE base
        /\ got' = {sn \in now : sn >= base'}
        /\ hist' = [hist EXCEPT !.rcvd = @ \cup {sent[sn + 1] : sn \in new}]
        /\ UNCHANGED <<list, sent, knobs, walk>>

\* A report is lost, or it arrives no more.
LoseReport(fb) ==
    /\ walk = Idle
    /\ fbs' = fbs \ {fb}
    /\ UNCHANGED <<list, sent, knobs, walk, got, base, hist>>

\* boost_period_us_ is not initialised before the first LinkQualityCallback.
Init ==
    /\ list = <<>> /\ sent = <<>> /\ walk = Idle
    /\ \E due \in {BoostDue, Never}, m \in Boosts \ {0} :
          knobs = [alg |-> TRUE, boost |-> TRUE, maxBoost |-> m,
                   maxRetran |-> Max(Retrans), due |-> due]
    /\ got = {} /\ base = 0 /\ fbs = {}
    /\ hist = [free |-> {},    \* frames that were never listed, or cleared
               conf |-> {},    \* frames a report has confirmed
               rcvd |-> {}]    \* frames the peer has received

Next ==
    \/ \E ok, okBoost \in {TRUE, ~AllowOom} : SendFrame(ok, okBoost)
    \/ CheckRtoRetran \/ RtoEnd \/ \E ok \in {TRUE, ~AllowOom} : RtoStep(ok)
    \/ \E fb \in fbs : ProcReport(fb) \/ LoseReport(fb)
    \/ ReportStep \/ ReportEnd
    \/ \E alg \in AlgStates, boost \in BOOLEAN, m \in Boosts, r \in Retrans :
          LinkQuality(alg, boost, m, r)
    \/ Tick
    \/ \E new \in SUBSET ((base .. NewSn - 1) \ got), moved \in BOOLEAN :
          Report(new, moved)

Spec == Init /\ [][Next]_vars

\* Time passes, the timer and the quality reports of the session keep coming
\* between other calls, and a loop runs to its end.
FairSpec ==
    /\ Spec
    /\ SF_vars(Tick) /\ SF_vars(CheckRtoRetran)
    /\ WF_vars(\E ok \in BOOLEAN : RtoStep(ok)) /\ WF_vars(RtoEnd)
    /\ WF_vars(ReportStep) /\ WF_vars(ReportEnd)
    /\ SF_vars(\E alg \in AlgStates, boost \in BOOLEAN, m \in Boosts, r \in Retrans :
                  LinkQuality(alg, boost, m, r))

-----------------------------------------------------------------------------
Copies(f) == Cardinality({k \in DOMAIN sent : sent[k] = f})
Arrived(f) == f \in hist.rcvd

\* The list is in the order in which its packets were last sent, whatever was
\* sent again or boosted in between: that is why the loops over it may stop
\* at the first number behind what a report covers.
InSendOrder == \A j, k \in DOMAIN list : j < k => list[j].sn <= list[k].sn

\* A frame leaves the list only when one of its copies has arrived or when it
\* has been sent again max_retran_times_ times, as src/DESIGN.md:284 says.  It
\* does not hold.  When rto_sn_num_ is above MIN_CALC_LOSS_SN_NUM the scan of
\* the peer stops on its left border, and a NACK without a loss that reaches
\* to the border releases the missing packet there.  And an exhausted boost
\* node takes the node with retransmissions left along (DelNodeByFirstSn).
ReleasedWhenDone ==
    \A f \in Frames \ hist.free :
        f \in Listed \/ Arrived(f) \/ Copies(f) > Min(Retrans)

\* However timer, reports and boosting race for a frame, and whatever the
\* limits are changed to meanwhile, it is sent a bounded number of times.
CopiesBounded ==
    \A f \in Frames :
        Copies(f) <= LET once == Max(Retrans) + Max({DefBoost} \cup Boosts)
                     IN  1 + IF Reliable THEN 2 * once + 1 ELSE once

\* Once a report has confirmed a copy of a frame, no other copy of it, first
\* one, retransmission or boost, is left to be sent.
ConfirmedGone == walk = Idle => hist.conf \cap Listed = {}

\* Every frame is confirmed or given up in the end.
ListDrains == <>[](list = <<>>)
=============================================================================
