---------------------------- MODULE SessionSync ----------------------------
(***************************************************************************)
(* How the two ends of a stream agree that it (re)starts: the init_flag_   *)
(* handshake of PackPrepHandler (src/src/session/goodtp_session.cpp        *)
(* 2033-2196) for one direction of a session.                              *)
(*                                                                         *)
(* The sender marks its packets with init_flag_ until feedback with        *)
(* init_flag_ tells it that the receiver is in kInitRes.  The receiver     *)
(* leaves kInitRes with the first unmarked packet, and falls back, with    *)
(* its windows reset, when a marked one comes MIN_SYNC_PERIOD_US or more   *)
(* after it last entered kRunning.  Independently of that a jump of        *)
(* pack_sn_ resets the windows.  Either end may lose its session           *)
(* (DelGtpLinker, the session TTL, a restart of the program) and builds a  *)
(* new one with the next packet.                                           *)
(*                                                                         *)
(* Time is counted in ticks.  A packet may be lost, duplicated and         *)
(* overtaken, and is gone after MaxDelay ticks.  Nothing here depends on   *)
(* the number of a packet: the reset by a jump leaves the handshake alone  *)
(* (chg_status_flag is FALSE) and is modelled by ReceivePath and           *)
(* ReceiveWindows.                                                         *)
(***************************************************************************)
EXTENDS Integers, FiniteSets

CONSTANTS MaxLives,    \* bound: sessions the sender builds
          MaxRebuilds, \* bound: sessions the receiver loses
          MaxFlight,   \* bound: packets under way to the receiver
          MaxAcks,     \* bound: packets under way to the sender
          MaxDelay,    \* life of a packet in the network
          SyncPeriod   \* MIN_SYNC_PERIOD_US

ASSUME SyncAssumption ==
    /\ MaxLives \in Nat \ {0} /\ MaxRebuilds \in Nat
    /\ MaxFlight \in Nat \ {0} /\ MaxAcks \in Nat \ {0}
    /\ SyncPeriod \in Nat /\ MaxDelay \in Nat \ {0} /\ MaxDelay < SyncPeriod

VARIABLES snd,     \* [life, running, rtt]: the sender's session; rtt: rtt_us_ # 0
          rcv,     \* [up, running, sync]: the receiver's
          data,    \* DATA and kGtpSetRecvRttPackType packets under way
          acks,    \* ACK, NACK and kGtpRttTstResPackType packets under way
          hist     \* history: [reset, close, age, lost], see SyncInit

syncVars == <<snd, rcv, data, acks, hist>>

-----------------------------------------------------------------------------
\* The constructor of GtpSession, for its sending and its receiving half.
NewSender(life) == [life |-> life, running |-> FALSE, rtt |-> FALSE]
NewReceiver(up) == [up |-> up, running |-> FALSE, sync |-> 0]

Older(age, limit) == IF age < limit THEN age + 1 ELSE age

\* A packet under way.  FramePrepHandlerWith01, for a peer of version 1, marks
\* packets as FramePrepHandlerWithSelfVer does.
Packet(kind) == [kind |-> kind, init |-> ~snd.running, age |-> 0]

-----------------------------------------------------------------------------
\* FramePrepHandler numbers and marks a DATA packet, which takes rtt_us_ along.
SendData ==
    /\ Cardinality(data) < MaxFlight
    /\ data' = data \cup {Packet("data")}
    /\ snd' = [snd EXCEPT !.rtt = FALSE]
    /\ UNCHANGED <<rcv, acks, hist>>

\* SendSetRecvRttPacket, when no DATA packet has taken rtt_us_ along.
SendRtt ==
    /\ snd.rtt
    /\ Cardinality(data) < MaxFlight
    /\ data' = data \cup {Packet("rtt")}
    /\ snd' = [snd EXCEPT !.rtt = FALSE]
    /\ UNCHANGED <<rcv, acks, hist>>

\* WinSnBitmapCallback and SendRttTestResPacket
SendFeedback ==
    /\ rcv.up
    /\ Cardinality(acks) < MaxAcks
    /\ acks' = acks \cup {[init |-> ~rcv.running, age |-> 0]}
    /\ UNCHANGED <<snd, rcv, data, hist>>

\* PackPrepHandler and PackPostHandler for an ACK, a NACK or an RTT test
\* response, which may carry a timestamp to measure the RTT with.
ReceiveFeedback(a) ==
    /\ \E rtt \in {snd.rtt, TRUE} :
          snd' = [snd EXCEPT !.running = @ \/ a.init, !.rtt = rtt]
    /\ acks' \in {acks, acks \ {a}}
    /\ UNCHANGED <<rcv, data, hist>>

-----------------------------------------------------------------------------
\* GetSession: the session a packet finds or builds.
Session == IF rcv.up THEN rcv ELSE NewReceiver(TRUE)

\* An unmarked packet ends kInitRes.
Unmarked(r) == IF r.running THEN r ELSE [r EXCEPT !.running = TRUE, !.sync = 0]

\* PackPrepHandler for kGtpSetRecvRttPackType.
ReceiveRtt(p) ==
    /\ p.kind = "rtt"
    /\ rcv' = IF p.init THEN Session ELSE Unmarked(Session)
    /\ data' \in {data, data \ {p}}
    /\ UNCHANGED <<snd, acks, hist>>

\* Mutant of InitResets: MIN_SYNC_PERIOD_US is ignored.
InitResetsAtOnce(r, p) == p.init /\ r.running

\* A marked packet resets a session that has been running for long enough.
InitResets(r, p) == p.init /\ r.running /\ r.sync >= SyncPeriod

\* Mutant of ResetSession: recv_session_stat_ is kept.
ResetSessionKeepStat(r) == r

\* ResetSession with chg_status_flag
ResetSession(r) == [r EXCEPT !.running = FALSE]

Handshake(r, p) ==
    IF InitResets(r, p) THEN ResetSession(r)
    ELSE IF p.init THEN r ELSE Unmarked(r)

\* PackPrepHandler for DATA.
ReceiveData(p) ==
    /\ p.kind = "data"
    /\ rcv' = Handshake(Session, p)
    /\ LET init == InitResets(Session, p)
       IN  hist' = [hist EXCEPT !.reset = @ \/ init,
                                !.close = @ \/ (init /\ hist.age < SyncPeriod),
                                !.age = IF init THEN 0 ELSE @]
    /\ data' \in {data, data \ {p}}
    /\ UNCHANGED <<snd, acks>>

-----------------------------------------------------------------------------
\* The sender's session is deleted and built again.
RecreateSender ==
    /\ snd.life < MaxLives
    /\ snd' = NewSender(snd.life + 1)
    /\ UNCHANGED <<rcv, data, acks, hist>>

\* The receiver's session is deleted; the next packet builds it again.
LoseReceiver ==
    /\ rcv.up /\ hist.lost < MaxRebuilds
    /\ rcv' = NewReceiver(FALSE)
    /\ hist' = [hist EXCEPT !.lost = @ + 1]
    /\ UNCHANGED <<snd, data, acks>>

\* Time passes; what is too old is lost.
Aged(s) == {[p EXCEPT !.age = @ + 1] : p \in {q \in s : q.age < MaxDelay}}
SyncTick ==
    /\ data' = Aged(data)
    /\ acks' = Aged(acks)
    /\ rcv' = [rcv EXCEPT !.sync = Older(@, SyncPeriod)]
    /\ hist' = [hist EXCEPT !.age = Older(@, SyncPeriod)]
    /\ UNCHANGED snd

SyncInit ==
    /\ snd = NewSender(1)
    /\ rcv = NewReceiver(FALSE)
    /\ data = {} /\ acks = {}
    /\ hist = [reset |-> FALSE,       \* did the handshake reset the receiver
               close |-> FALSE,       \* did it so twice within SyncPeriod
               age |-> SyncPeriod,    \* ticks since it last did
               lost |-> 0]            \* sessions the receiver lost

SyncNext ==
    \/ SendData \/ SendRtt \/ SendFeedback
    \/ \E p \in data : ReceiveData(p) \/ ReceiveRtt(p)
    \/ \E a \in acks : ReceiveFeedback(a)
    \/ RecreateSender \/ LoseReceiver \/ SyncTick

SyncSpec == SyncInit /\ [][SyncNext]_syncVars

\* The application keeps sending, the timers of both ends keep running, and
\* the network does not lose everything for ever.
SyncFairness ==
    /\ WF_syncVars(SyncTick)
    /\ SF_syncVars(SendData)
    /\ SF_syncVars(SendFeedback)
    /\ SF_syncVars(\E p \in data : ReceiveData(p))
    /\ SF_syncVars(\E a \in acks : ReceiveFeedback(a))
FairSpec == SyncSpec /\ SyncFairness

-----------------------------------------------------------------------------
SndType == [life : 1 .. MaxLives, running : BOOLEAN, rtt : BOOLEAN]
RcvType == [up : BOOLEAN, running : BOOLEAN, sync : 0 .. SyncPeriod]
DataType == [kind : {"data", "rtt"}, init : BOOLEAN, age : 0 .. MaxDelay]
AckType == [init : BOOLEAN, age : 0 .. MaxDelay]
HistType == [reset : BOOLEAN, close : BOOLEAN,
             age : 0 .. SyncPeriod, lost : 0 .. MaxRebuilds]
TypeOK ==
    /\ snd \in SndType /\ rcv \in RcvType /\ hist \in HistType
    /\ data \subseteq DataType /\ acks \subseteq AckType

\* As long as the sender keeps its session the handshake never resets the
\* receiver: marked packets of the handshake itself that come late or twice,
\* after the receiver runs, do not throw its windows and buffered frames away.
StableSession == snd.life = 1 => ~hist.reset

\* Two resets by the handshake are MIN_SYNC_PERIOD_US apart, whatever marked
\* and unmarked packets of whichever life of the sender are mixed up.
ResetsSpaced == ~hist.close

\* After the last restart both ends reach kRunning and stay there.
Synced == <>[](snd.running /\ rcv.running)
=============================================================================
