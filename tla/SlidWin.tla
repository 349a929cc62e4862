------------------------------ MODULE SlidWin ------------------------------
(***************************************************************************)
(* The receiving sliding window, src/src/slidwin/slidwin.cpp: a bitmap     *)
(* over a ring of WinBuf positions that records which sequence numbers     *)
(* arrived.  A session owns two of them: filter_win_, asked before each    *)
(* entry whether the number is a repeat, and data_win_r_, from which ACKs  *)
(* are made.                                                               *)
(*                                                                         *)
(* Of a SlidWin object the model keeps what decides entries and answers:   *)
(* l_border_pos_, l_border_sn_, sn_bit_map_, max_sn_, max_sn_pos_ and      *)
(* recv_out_r_counter_.  r_border_pos_, r_border_sn_ and cur_win_size_     *)
(* keep a constant distance Win.  Measured rates and times choose two      *)
(* things, left open here: the reserve that MoveWin leaves behind, any     *)
(* member of Reserves, and how far CalcRcvLoss scans before it moves the   *)
(* window, anything up to max_sn_pos_.                                     *)
(***************************************************************************)
EXTENDS Integers

CONSTANTS Win,       \* MIN_WIN_SZ (4096)
          Block,     \* bits per word of the bitmap, MIN_MOVE_STEP (64)
          Reserves,  \* what CalcFilterWinReserveSize (256 .. 512) and
                     \* CalcTranWinReserveSize (from 128) can return
          OutLimit,  \* MAX_RESET_RECV_WIN_THRSHLD (4)
          SnMod,     \* 2^32
          Sns        \* the sequence numbers in use

WinBuf == 2 * Win              \* WIN_BUF_SIZE
Half == Win \div 2             \* cur_win_size_ >> 1
MaxMove == (3 * Win) \div 4    \* MAX_MOVE_STEP
SN == 0 .. SnMod - 1
Ring == 0 .. WinBuf - 1

ASSUME WindowAssumption ==
    /\ Block \in Nat /\ Block >= 2 /\ OutLimit \in Nat \ {0}
    /\ Win \in Nat \ {0} /\ \E k \in 1 .. Win : Win = 2 * k * Block
    /\ SnMod \in Nat /\ \E k \in 2 .. SnMod : SnMod = k * WinBuf
ASSUME ReservesAssumption ==
    /\ Reserves # {}
    /\ \A r \in Reserves : /\ r \in Nat /\ Block <= r /\ r + Block <= Half
                           /\ \E k \in 1 .. r : r = k * Block
ASSUME SnsAssumption == Sns \subseteq SN

-----------------------------------------------------------------------------
Floor(n) == n - (n % Block)           \* n & ~(Block - 1)

\* Distance from the left border as the code computes it.  Once numbers have
\* wrapped it uses 0xFFFFFFFF for 2^32 and is one short.
Span(w, sn) == IF w.lsn <= sn THEN sn - w.lsn ELSE sn + (SnMod - 1 - w.lsn)
WritePos(w, sn) == (w.lpos + Span(w, sn)) % WinBuf

\* CheckIsRepeatPacketSn finds the bit with the true distance.
Ahead(w, sn) == (sn - w.lsn) % SnMod
ReadPos(w, sn) == (w.lpos + Ahead(w, sn)) % WinBuf

RingSpan(w, pos) == (pos - w.lpos) % WinBuf

-----------------------------------------------------------------------------

\* ResetWin: memset clears the first half of the bitmap only.
ResetWin(w, sn) ==
    [lpos |-> 0, lsn |-> sn, bits |-> w.bits \ (0 .. Win - 1),
     maxSn |-> sn, maxPos |-> 0, outr |-> 0]

\* SnIsValid: the number is to the right of the window.
OutRight(w, sn) ==
    LET rsn == (w.lsn + Win) % SnMod
        toR == IF rsn < sn THEN sn - rsn ELSE 0
        toL == IF w.lsn > sn THEN w.lsn - sn ELSE 0
    IN  IF w.lsn <= rsn THEN rsn < sn ELSE toR # 0 /\ toR < toL

\* IsMoveWin
MoveStep(w, pos) ==
    LET span == RingSpan(w, pos)
    IN  IF span < Half THEN 0 ELSE Floor(span - Half) + Block

\* Mutant of ValidStep: no reserve is left behind.
ValidStepGreedy(step, rsv) == Floor(step)

\* MoveWin: both borders advance by whole blocks, and the words that come into
\* the window are cleared (one more when the clearing wraps round the ring).
ValidStep(step, rsv) ==
    IF step <= Block \/ step <= rsv THEN 0 ELSE Floor(step - rsv)

\* Mutant of MoveWin: the words entering the window keep their bits.
MoveWinDirty(w, step, rsv) ==
    [w EXCEPT !.lpos = (@ + ValidStep(step, rsv)) % WinBuf,
              !.lsn = (@ + ValidStep(step, rsv)) % SnMod]

MoveWin(w, step, rsv) ==
    LET v == ValidStep(step, rsv)
        r == (w.lpos + Win) % WinBuf
        n == IF r + v < WinBuf THEN v ELSE v + Block
    IN  IF v = 0 THEN w
        ELSE [w EXCEPT !.lpos = (@ + v) % WinBuf,
                       !.lsn = (@ + v) % SnMod,
                       !.bits = @ \ {(r + i) % WinBuf : i \in 0 .. n - 1}]

\* Mutant of UpdateMaxSnPos: a late packet takes the maximum back.
UpdateMaxSnPosAlways(w, pos, sn) == [w EXCEPT !.maxSn = sn, !.maxPos = pos]

UpdateMaxSnPos(w, pos, sn) ==
    IF RingSpan(w, pos) <= Win /\ RingSpan(w, w.maxPos) <= RingSpan(w, pos)
    THEN [w EXCEPT !.maxSn = sn, !.maxPos = pos] ELSE w

\* sn & 0xFFFFFFF1
ClearLow(sn) == sn - 2 * ((sn \div 2) % 8)

\* The resynchronisation of SnEntryWin: the window restarts at the number,
\* rounded down, and the first bit is set.
Resync(w, sn) ==
    LET c == ResetWin(w, ClearLow(sn)) IN [c EXCEPT !.bits = @ \cup {0}]

\* CalcRcvLoss counts received and lost numbers from the left border on, at
\* most up to max_sn_pos_, and moves the window over them.  Full blocks count
\* one position more.  Step 0: it is not due yet.
MaxScan(w) ==
    LET t == RingSpan(w, w.maxPos + 1) IN IF t % Block = 0 THEN t + 1 ELSE t
CalcRcvLoss(w, rsv) == {MoveWin(w, step, rsv) : step \in 0 .. MaxScan(w)}

\* A number too far left or right is refused; OutLimit times too far right in
\* a row, and the window follows the peer.
Refuse(w, sn) ==
    IF ~OutRight(w, sn) THEN w
    ELSE IF w.outr + 1 < OutLimit THEN [w EXCEPT !.outr = @ + 1]
    ELSE Resync(w, sn)

Record(w, sn, rsv) ==
    LET pos == WritePos(w, sn)
        moved == MoveWin([w EXCEPT !.outr = 0], MoveStep(w, pos), rsv)
    IN  UpdateMaxSnPos([moved EXCEPT !.bits = @ \cup {pos}], pos, sn)

\* SnEntryWin: the windows it can leave behind.
SnEntryWin(w, sn, rsv) ==
    IF Span(w, sn) > Win THEN {Refuse(w, sn)}
    ELSE IF MoveStep(w, WritePos(w, sn)) > MaxMove THEN {Resync(w, sn)}
    ELSE CalcRcvLoss(Record(w, sn, rsv), rsv)

\* CheckIsRepeatPacketSn
IsRepeat(w, sn) ==
    \/ Span(w, sn) >= Win
    \/ Span(w, sn) <= Span(w, w.maxSn) /\ ReadPos(w, sn) \in w.bits

InWindow(w, sn) == Ahead(w, sn) < Win
=============================================================================
