-------------------------- MODULE ReceiveWindows ---------------------------
(***************************************************************************)
(* The two receiving windows of a session and the check that keeps them in *)
(* step with the peer: PackPrepHandler (src/src/session/goodtp_session.cpp *)
(* 2061-2138), the DATA branch of PackPostHandler (2205-2321), ResetSession *)
(* (3453-3491), Fec2RestoreFrameReceive (1371-1417) and the calls of       *)
(* CalcQualityByHandler on data_win_r_.                                    *)
(*                                                                         *)
(* First copies only: a packet is its pack_sn_.  Loss bursts and           *)
(* reordering of any length happen while packets flow; PauseLoss says      *)
(* whether as many packets may also be lost across a pause, when the check *)
(* is not made.                                                            *)
(***************************************************************************)
EXTENDS SlidWin, FiniteSets, FiniteSetsExt

CONSTANTS SnJump,       \* ai_learn_sn_delta_
          FecSpan,      \* numbers covered by one FEC matrix
          PauseLoss,    \* BOOLEAN
          MaxPackets    \* bound: packets received or restored

ASSUME JumpAssumption ==
    /\ SnJump \in Nat \ {0} /\ FecSpan \in Nat \ {0} /\ PauseLoss \in BOOLEAN
    /\ MaxPackets \in Nat

VARIABLES filter,   \* filter_win_
          data,     \* data_win_r_
          last,     \* last_sn_
          seen,     \* history: accepted by the filter since the last reset
          arrived,  \* history: entered into data_win_r_ since the last reset
          start,    \* history: left border of the last reset
          packets   \* history: packets received or restored

vars == <<filter, data, last, seen, arrived, start, packets>>

-----------------------------------------------------------------------------
\* The test for a broken stream.  (Sns stays away from the wrap of sequence
\* numbers, where it is modelled by ReceivePath.)
Jumped(sn) == (IF last <= sn THEN sn - last ELSE last - sn) >= SnJump

\* What the windows and the histories are after the jump check.
Checked(sn, idle) ==
    IF ~idle /\ Jumped(sn)
    THEN [filter |-> ResetWin(filter, Floor(sn)),
          data |-> ResetWin(data, Floor(sn)),
          seen |-> {}, arrived |-> {}, start |-> Floor(sn)]
    ELSE [filter |-> filter, data |-> data, seen |-> seen,
          arrived |-> arrived, start |-> start]

\* RepeatPacketFilter and SnEntrySlidWin(filter_win_) ...
Filtered(c, sn) ==
    IF IsRepeat(c.filter, sn) THEN filter' = c.filter /\ seen' = c.seen
    ELSE /\ \E rsv \in Reserves : filter' \in SnEntryWin(c.filter, sn, rsv)
         /\ seen' = c.seen \cup {sn}
\* ... and SnEntrySlidWin(data_win_r_).
Registered(c, sn) ==
    /\ \E rsv \in Reserves : data' \in SnEntryWin(c.data, sn, rsv)
    /\ arrived' = c.arrived \cup {sn}

Counted == packets < MaxPackets /\ packets' = packets + 1

\* A DATA packet; idle: more than MAX_KEEPALIVE_TIME_LEN_US after the last one.
ReceiveData(sn, idle) ==
    LET c == Checked(sn, idle)
    IN  /\ Counted
        /\ idle /\ ~PauseLoss => ~Jumped(sn)
        /\ Filtered(c, sn)
        /\ Registered(c, sn)
        /\ last' = IF idle THEN last ELSE sn
        /\ start' = c.start

\* A packet restored by FEC from the others of its matrix; nothing happens to
\* one the filter knows.
RestoreByFec(sn) ==
    /\ Counted
    /\ \E a \in arrived : sn - a \in -FecSpan .. FecSpan
    /\ ~IsRepeat(filter, sn)
    /\ Filtered(Checked(sn, TRUE), sn)
    /\ Registered(Checked(sn, TRUE), sn)
    /\ UNCHANGED <<last, start>>

\* CalcQualityByHandler(data_win_r_) from TimerHandler and SecondTimerHandler.
CalcQuality ==
    /\ \E rsv \in Reserves : data' \in CalcRcvLoss(data, rsv)
    /\ UNCHANGED <<filter, last, seen, arrived, start, packets>>

\* A session that has just been created, last_sn_(0) included.
Init ==
    /\ start = 0
    /\ \E garbage \in {{}, Win .. 2 * Win - 1} :
          filter = ResetWin([bits |-> garbage], 0)
    /\ data = filter /\ last = 0 /\ seen = {} /\ arrived = {}
    /\ packets = 0

Next ==
    \/ \E sn \in Sns, idle \in BOOLEAN : ReceiveData(sn, idle)
    \/ \E sn \in Sns : RestoreByFec(sn)
    \/ CalcQuality

Spec == Init /\ [][Next]_vars

-----------------------------------------------------------------------------
\* "0: isn't repeat packet, 1: is repeat packet" (slidwin.cpp:3436): a number
\* that was accepted is a repeat ever after, however far the window has moved
\* and although max_sn_ short-cuts the look at the bitmap.
RepeatsCaught == \A sn \in seen : IsRepeat(filter, sn)

\* "0: isn't repeat packet, 1: is repeat packet" (slidwin.cpp:3436): a packet
\* that comes without a pause and is judged a repeat was accepted before or is
\* older than the left border.  It holds while SnJump leaves a burst room
\* between the newest number and the right border; ai_learn_sn_delta_ starts at
\* 2000 and grows with the packet rate, and a burst the jump check lets pass
\* then makes the filter refuse what follows, which is new.
FreshPasses ==
    \A sn \in Sns :
        LET c == Checked(sn, FALSE)
        IN  IsRepeat(c.filter, sn) => sn \in c.seen \/ sn < c.filter.lsn

\* A packet that was overtaken by fewer packets than the reserve is not dropped
\* as too old: once the filter's left border has moved, it stays that far
\* behind the newest number although loss calculation moves it again.
LateTolerance ==
    filter.lsn = start \/ Max(seen) - filter.lsn >= Min(Reserves) - 1

\* The numbers the bitmap of an ACK confirms to the peer.
Confirmed(w) == {sn \in Sns : InWindow(w, sn) /\ ReadPos(w, sn) \in w.bits}

\* "push a received sn to slid window" (slidwin.cpp:3460): the window confirms
\* no packet that has not arrived; the peer would stop to retransmit it.  It
\* holds as long as the window never resynchronises, which takes losses beyond
\* its right border across a pause: Resync sets the bit of a rounded number.
ConfirmedArrived == Confirmed(data) \subseteq arrived
=============================================================================
