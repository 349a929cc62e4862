---------------------------- MODULE LinkQuality ----------------------------
(***************************************************************************)
(* How a sending session follows the quality of its link.  The sending     *)
(* window estimates the loss itself (CalcSndLoss) and hears the receiver's *)
(* estimate in every ACK and NACK (SetFeedBackLoss); it tells the session  *)
(* by LinkQualityCallback when the estimate has changed enough, when the   *)
(* round trip time has changed (SetRttUs) and once a second.  The session  *)
(* turns its algorithms off on a hopeless link and on again later, keeps   *)
(* the worst loss of the last seconds, calls the network good or bad, and  *)
(* sets boosting, the FEC code book and the number of retransmissions.     *)
(*                                                                         *)
(* Losses are in tenths of a percent; time is in ticks of half a second,   *)
(* so that one second is Second ticks.  What the windows measure is any    *)
(* member of Losses.  Timestamps are kept as ages, capped where nothing    *)
(* looks further back.                                                     *)
(***************************************************************************)
EXTENDS Integers, Sequences, FiniteSetsExt

CONSTANTS
  Losses,     \* the losses that can be measured, 0 among them
  Pps,        \* data packets per second of the stream
  Second,     \* ticks of a second
  Span,       \* feedback_loss_span_us_ in ticks, also rto_ts_us_ after an RTT sample
  MinRto,     \* the least rto_ts_us_, in ticks
  Periods,    \* values of rmv_close_alg_period_us_, in ticks
  Wrap,       \* ticks of a lap of a u32 clock (2^32 microseconds)
  MaxThreshold, RmvThreshold  \* losses that turn the algorithms off, keep them off

ASSUME QualityAssumption ==
  /\ 0 \in Losses /\ Losses \subseteq 0..1000
  /\ Second \in Nat \ {0} /\ Span \in 1..Second /\ MinRto \in 0..Span
  /\ \A p \in Periods : p \in Nat /\ p >= Second   \* 1.5 s and more
  /\ Wrap \in Nat /\ \A p \in Periods : p < Wrap
  /\ RmvThreshold \in Nat /\ MaxThreshold \in Nat /\ RmvThreshold <= MaxThreshold

VARIABLES
  win,    \* the reporting half of the sending window
  ses,    \* the session's view of the link
  trail   \* history: the worst loss told in each of the last Second ticks

qualityVars == <<win, ses, trail>>

Youth == Second                 \* 2 * MIN_SESSION_STABLE_TIME_US
ZeroLossExist == Second         \* MIN_ZERO_LOSS_EXIST_US
Percent == 10
Never == Span + 1               \* an age at which nothing is fresh

Cap(n, top) == IF n > top THEN top ELSE n
Down(n) == IF n = 0 THEN 0 ELSE n - 1
Abs(n) == IF n < 0 THEN -n ELSE n

-----------------------------------------------------------------------------
(* The tables of LinkQualityCallback: the column is the first bound above  *)
(* the value, the last column has none.                                    *)

Column(value, bounds) == Cardinality({i \in DOMAIN bounds : bounds[i] <= value}) + 1

BoostTimes(pps, loss) ==
  LET table == <<<<1, 1, 2, 3, 2, 2>>, <<0, 0, 1, 2, 1, 0>>, <<0, 0, 1, 2, 1, 0>>,
                 <<0, 0, 1, 2, 1, 0>>, <<0, 0, 1, 1, 1, 0>>, <<0, 0, 0, 1, 1, 0>>>>
  IN table[Column(pps, <<10, 60, 100, 170, 250>>)]
          [Column(loss - 1, <<15, 120, 230, 380, 540>>)]

\* Book 2 is left for book 4 only below 23%.
LossBook(book, loss) ==
  CASE loss <= 100 -> 5
    [] loss > 100 /\ loss <= 250 -> IF book = 2 /\ loss > 230 THEN 2 ELSE 4
    [] loss > 250 -> 2

QuietBook(pps) == <<5, 5, 4, 4, 4>>[Column(pps, <<10, 50, 100, 150>>)]

-----------------------------------------------------------------------------
(* The session.                                                            *)

\* The algorithms go off at once; they come back when for a whole period no
\* loss above the lower threshold has been told.  The time of the return and the
\* clock it is compared with are u32: near the wrap the algorithms come back at
\* once, or only a lap later.  (Nothing reads that time while they are on: it is
\* kept 0.)
CheckSwitch(s, loss, period) ==
  CASE s.young > 0 -> s
    [] s.young = 0 /\ loss > MaxThreshold ->
         [s EXCEPT !.alg = FALSE, !.period = period, !.till = (s.now + period) % Wrap]
    [] s.young = 0 /\ loss <= MaxThreshold /\ loss > RmvThreshold ->
         IF s.alg THEN s ELSE [s EXCEPT !.till = (s.now + s.period) % Wrap]
    [] s.young = 0 /\ loss <= RmvThreshold ->
         IF s.till > s.now THEN s ELSE [s EXCEPT !.alg = TRUE, !.till = 0]

UpdatedMaxLoss(s, loss) ==
  [s EXCEPT !.max = Max({@, loss}), !.backup = Max({@, loss})]

\* Mutant: the loss of the last second is forgotten with the second.
SecondTimerForgets(s) ==
  [s EXCEPT !.max = IF s.first THEN @ ELSE 0, !.backup = IF s.first THEN @ ELSE 0,
            !.first = FALSE, !.second = Second]

\* The first call only learns the receiving rate, so that the first two
\* seconds count as one.
SecondTimerHandler(s) ==
  [s EXCEPT !.max = IF s.first THEN @ ELSE s.backup,
            !.backup = IF s.first THEN @ ELSE 0,
            !.first = FALSE, !.second = Second]

\* No loss for a second: a bad network is called good once it has been without
\* loss for a while.
NoLoss(s, pps) ==
  CASE s.bad /\ s.since >= ZeroLossExist ->
         [s EXCEPT !.pending = 0, !.bad = FALSE, !.copies = 0, !.boost = FALSE,
                   !.book = QuietBook(pps)]
    [] s.bad /\ s.since < ZeroLossExist -> [s EXCEPT !.pending = 0]
    [] ~s.bad ->
         [s EXCEPT !.pending = 0, !.boost = FALSE, !.copies = IF s.boost THEN 0 ELSE @]

SomeLoss(s, pps) ==
  IF ~s.bad /\ s.pending + 1 < 2
  THEN [s EXCEPT !.pending = @ + 1, !.since = 0]
  ELSE [s EXCEPT !.pending = IF s.bad THEN @ ELSE 0, !.bad = TRUE, !.boost = TRUE,
                 !.since = 0, !.book = LossBook(@, s.max),
                 !.copies = BoostTimes(pps, s.max) + (IF s.bad THEN 0 ELSE 1)]

\* AdjustSWinCurrentLossRate, and with it the row of AdjustRetranTimes.
LinkQualityCallback(s, loss, env) ==
  LET up == UpdatedMaxLoss(CheckSwitch(s, loss, env.period), loss)
      set == IF up.max = 0 THEN NoLoss(up, env.pps) ELSE SomeLoss(up, env.pps)
  IN [set EXCEPT !.cur = loss]

-----------------------------------------------------------------------------
(* The window.  A state st is a record of the window, the session and the  *)
(* losses told in this step.                                               *)

Told(st, loss, env) ==
  [w |-> [st.w EXCEPT !.reported = TRUE, !.idle = 0],
   s |-> LinkQualityCallback(st.s, loss, env), told |-> st.told \cup {loss}]

Report(st, loss, env) ==
  LET t == Told(st, loss, env) IN [t EXCEPT !.w.report = loss]

\* Every report outside CalcSndLoss: the receiver's estimate while it is fresh.
ReportNewest(st, env) ==
  Report(st, IF st.w.age <= st.w.rto THEN st.w.fdbk ELSE st.w.loss, env)

\* Mutant: the report of every second is missing.
PeriodicNone(st, env) == st

Periodic(st, env) == IF st.w.idle >= Second THEN ReportNewest(st, env) ELSE st

\* chg: the sample differs from the last one, in itself or in jitter, enough
\* to be reported.
SetRttUs(st, chg, env) ==
  LET t == [st EXCEPT !.w.rto = Span] IN IF chg THEN ReportNewest(t, env) ELSE t

Crosses(old, new) == (old >= 1000) # (new >= 1000) \/ (old = 0) # (new = 0)

\* rtt: "none" (no timestamp in the message), "same" or "chg".
SetFeedBackLoss(st, loss, rtt, env) ==
  LET heard == [st EXCEPT !.w.fdbk = loss, !.w.age = 0]
      timed == IF rtt = "none" THEN heard ELSE SetRttUs(heard, rtt = "chg", env)
  IN IF /\ rtt # "chg"
        /\ \/ ~timed.w.reported
           \/ Crosses(timed.w.report, loss)
           \/ Abs(timed.w.report - loss) >= Percent
     THEN Report(timed, loss, env) ELSE timed

\* The sender's own estimate loss has just been measured.  The first report is
\* not remembered in report_loss_; 100% is believed the third time; a
\* fresh estimate of the receiver is preferred unless the two are 80% apart.
CalcSndLoss(st, loss, env) ==
  LET w == [st.w EXCEPT !.loss = loss,
                        !.disconn = IF loss >= 900 THEN Cap(@ + 1, 3) ELSE 0]
      news == \/ w.report < 1000 /\ loss >= 1000 /\ w.disconn >= 3
              \/ w.report # 0 /\ loss = 0
              \/ Abs(w.report - loss) >= Percent
      heard == w.age < Span /\ Abs(w.fdbk - loss) < 800
      hasty == [w EXCEPT !.rto = IF w.fdbk <= loss THEN Max({MinRto, @ - 1}) ELSE @]
  IN CASE ~w.reported -> Told([st EXCEPT !.w.loss = loss], loss, env)
       [] w.reported /\ ~news -> [st EXCEPT !.w = w]
       [] w.reported /\ news /\ heard -> Report([st EXCEPT !.w = w], w.fdbk, env)
       [] w.reported /\ news /\ ~heard -> Report([st EXCEPT !.w = hasty], loss, env)

\* CalcSndLoss returns early when it is not due yet.
Samples(st, loss, env) == {st, CalcSndLoss(st, loss, env)}

-----------------------------------------------------------------------------
(* The steps.                                                              *)

QualityInit ==
  /\ win = [loss |-> 0, fdbk |-> 0, age |-> Never, report |-> 0, reported |-> FALSE,
            disconn |-> 0, idle |-> 0, rto |-> Span]
  /\ ses = [young |-> Youth, alg |-> TRUE, now |-> 0, till |-> 0, period |-> 0, max |-> 0,
            backup |-> 0, first |-> TRUE, second |-> Second, bad |-> FALSE,
            pending |-> 0, since |-> 0, boost |-> TRUE, copies |-> 1, book |-> 4,
            cur |-> 0]
  /\ trail = [i \in 1..Second |-> 0]

Now == [w |-> win, s |-> ses, told |-> {}]

Envs == [pps : Pps, period : Periods]

Become(st) ==
  /\ win' = st.w
  /\ ses' = st.s
  /\ trail' = [trail EXCEPT ![1] = Max(st.told \cup {@})]

\* FramePostHandler hands a sent packet to SnTsEntryWin.  The estimate is made
\* here only when nothing has come back for feedback_loss_span_us_.
Send(loss, env) ==
  \E st \in (IF win.age >= Span THEN Samples(Now, loss, env) ELSE {Now}) :
    \E done \in {Periodic(st, env)} : Become(done)

\* The bitmap of an ACK enters the window.  Only the bytes that fill no word go
\* through SnEntryWin, which looks at the second.
ProcAckSnBitMap(st, loss, env) ==
  UNION {{x, Periodic(x, env)} : x \in Samples(st, loss, env)}

\* PackPostHandler on an ACK: the receiver's loss, then its bitmap.
Ack(heard, rtt, loss, env) ==
  \E fb \in {SetFeedBackLoss(Now, heard, rtt, env)} :
    \E st \in ProcAckSnBitMap(fb, loss, env) : Become(st)

\* The numbers of a NACK enter the window, unless they are out of it.
NackSnEntryWin(st, loss, env) == Samples(st, loss, env)

\* On a NACK the window does not look at the second.
Nack(heard, rtt, loss, env) ==
  \E fb \in {SetFeedBackLoss(Now, heard, rtt, env)} :
    \E st \in NackSnEntryWin(fb, loss, env) : Become(st)

\* The answer to an RTT test.
RttTestAnswer(chg, env) ==
  \E st \in {SetRttUs(Now, chg, env)} : Become(st)

\* Half a second passes.  TimerHandler runs SecondTimerHandler when it is due,
\* and makes the first estimate if none has been reported.
QualityTick(loss, env) ==
  LET w == [win EXCEPT !.age = Cap(@ + 1, Never), !.idle = Cap(@ + 1, Second)]
      s == [ses EXCEPT !.young = Down(@), !.second = Down(@), !.now = (@ + 1) % Wrap,
                       !.since = Cap(@ + 1, ZeroLossExist)]
      rung == IF s.second = 0 THEN SecondTimerHandler(s) ELSE s
      aged == [w |-> w, s |-> rung, told |-> {}]
  IN \E st \in (IF win.reported THEN {aged} ELSE Samples(aged, loss, env)) :
       /\ win' = st.w
       /\ ses' = st.s
       /\ trail' = [i \in 1..Second |->
                      IF i = 1 THEN Max(st.told \cup {0}) ELSE trail[i - 1]]

Rtts == {"none", "same", "chg"}

Sending == \E l \in Losses, env \in Envs : Send(l, env)

SendingOn == \E env \in Envs : Send(win.loss, env)   \* the loss is what it was

Ticking == \E l \in Losses, env \in Envs : QualityTick(l, env)

QualityNext ==
  \/ Sending
  \/ \E l, h \in Losses, rtt \in Rtts, env \in Envs : Ack(h, rtt, l, env)
  \/ \E l, h \in Losses, rtt \in Rtts, env \in Envs : Nack(h, rtt, l, env)
  \/ \E chg \in BOOLEAN, env \in Envs : RttTestAnswer(chg, env)
  \/ Ticking

\* The report of the second is due in the last tick of a lap of the clock.
DueBeforeWrap == ses.now = Wrap - 1 /\ win.idle = Second

\* The application keeps sending and the clock runs; a due report is not missed
\* again and again for want of a packet in that tick.
QualitySpec ==
  /\ QualityInit /\ [][QualityNext]_qualityVars
  /\ WF_qualityVars(Sending) /\ WF_qualityVars(Ticking)
  /\ SF_qualityVars(DueBeforeWrap /\ SendingOn)

-----------------------------------------------------------------------------
(* A loss told to the session within the last second is still in           *)
(* max_send_loss_per_s_, however the timer of the second falls between the *)
(* reports (UpdatedMaxLoss, SecondTimerHandler).                           *)
LossRemembered == \A i \in 1..Second : ses.max >= trail[i]

(* What the session has set fits a loss of l.                              *)
Fits(l) ==
  /\ ses.cur = l
  /\ ses.bad = (l > 0) /\ ses.boost = (l > 0)
  /\ l = 0 => ses.copies = 0
  /\ l <= RmvThreshold => ses.alg
  /\ l > MaxThreshold => ~ses.alg
  /\ l > 250 => ses.book = 2

(* When both ends go on measuring the same loss, the session's settings    *)
(* come to fit it and stay so: no threshold, filter or cached report keeps *)
(* it at an older opinion.  The reports of the second must not be in step  *)
(* with the u32 clock of CheckSwitch for ever, so that some fall due       *)
(* before it wraps: otherwise each of them may find the time of the return *)
(* ahead, in this lap or in the next.                                      *)
Settles ==
  []<>DueBeforeWrap =>
    \A l \in Losses : <>[](win.loss = l /\ win.fdbk = l) => <>[]Fits(l)
=============================================================================
