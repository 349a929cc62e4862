---------------------------- MODULE SessionTable ----------------------------
(***************************************************************************)
(* The sessions of one GoodTp instance (goodtp_mgr.cpp, the C interface in *)
(* goodtp_interface.cpp and GtpSessionKey in goodtp_comstruct.h): how a    *)
(* frame to send or a packet received finds or builds its session, how the *)
(* application deletes one and how the periodic timer closes idle ones.    *)
(*                                                                         *)
(* Everything runs on one thread, but the library calls the application    *)
(* back in the middle of its functions and the application calls the       *)
(* library again from there.  "stack" holds the library functions in       *)
(* progress, innermost last; a frame on it keeps a pointer to a session    *)
(* (or, for the timer, an iterator) that it uses again when the callback   *)
(* returns.                                                                *)
(*                                                                         *)
(* Time is kept relative to current_ts_us_, the timestamp the instance     *)
(* caches: "age" is how long before it the session was last active, and    *)
(* "lag" how far the clock has moved since; both saturate at the ttl.      *)
(***************************************************************************)
EXTENDS Integers, FiniteSets, Sequences

CONSTANTS Addrs,      \* five-tuples: socket, address of the peer, own address
          Keys,       \* stream keys chosen by applications, none of them 0
          AddrKey,    \* the number the five-tuple constructor computes
          Flows,      \* the streams: the address, the stream key or 0, and the
                      \* token GtpFrameSend is given for it or 0
          MaxSession, \* MAX_SESSION_NUM: sessions the memory pool holds
          Ttl,        \* session_ttl_us_
          MaxDepth    \* calls nested in callbacks that the model explores

ASSUME SessionTableAssumption ==
    /\ AddrKey \in [Addrs -> Nat \ {0}]
    /\ Keys \subseteq Nat \ {0}
    /\ Flows \subseteq [addr : Addrs, key : Keys \cup {0}, token : Nat]
    /\ {AddrKey[a] : a \in Addrs} \cap Keys = {}
    /\ MaxSession \in Nat \ {0} /\ Ttl \in Nat \ {0} /\ MaxDepth \in Nat \ {0}

VARIABLES map,     \* session_map_: memory of the session -> its entry
          pool,    \* session_mem_pool_: the memory that is handed out
          deleted, \* app_deleted_stream_keys_
          lag,     \* the clock minus current_ts_us_
          stack    \* library functions in progress

vars == <<map, pool, deleted, lag, stack>>

Slots == 1 .. MaxSession
Kinds == {"data", "fec", "control"}

(* A GtpSessionKey: the number, whether the application chose it           *)
(* (key_3rd_flag_), and the five-tuple (none in the key DelGtpLinker       *)
(* builds from a stream key alone).                                        *)
FiveTupleKey(a) == [num |-> AddrKey[a], third |-> FALSE, addr |-> {a}]
StreamKey(k, a) == [num |-> k, third |-> TRUE, addr |-> {a}]
BareStreamKey(k) == [num |-> k, third |-> TRUE, addr |-> {}]

(* Mutation: the numbers alone decide.                                     *)
SameKeyNumber(a, b) == a.num = b.num

(* operator ==: two stream keys need only the same number; otherwise the   *)
(* five-tuples decide as well, for numbers of different ones may collide.  *)
SameKey(a, b) == /\ a.num = b.num
                 /\ (a.third /\ b.third) \/ a.addr = b.addr

Find(m, k) == {s \in DOMAIN m : SameKey(m[s].key, k)}

Least(a, b) == IF a < b THEN a ELSE b

(* current_ts_us_ = GtpSysTimestampUs()                                    *)
Advanced(m) == [s \in DOMAIN m |-> [m[s] EXCEPT !.age = Least(@ + lag, Ttl)]]

Without(m, s) == [t \in DOMAIN m \ {s} |-> m[t]]

---------------------------------------------------------------------------
(* Building and freeing a session.                                         *)

(* A session as its constructor leaves it.                                 *)
NewSession(k, f) == [key |-> k, age |-> 0, closing |-> FALSE,
                     addr |-> f.addr, users |-> {}]

(* Mutation: a session whose Init failed is not given back.                *)
BuildNewSessionLeak(m, k, f) ==
    LET idle == Slots \ pool
        s == CHOOSE t \in idle : \A u \in idle : t <= u
    IN  IF idle = {}
        THEN {[map |-> m, pool |-> pool, slot |-> 0]}
        ELSE {[map |-> m, pool |-> pool \cup {s}, slot |-> 0],
              [map |-> [t \in DOMAIN m \cup {s} |->
                            IF t = s THEN NewSession(k, f) ELSE m[t]],
               pool |-> pool \cup {s}, slot |-> s]}

(* BuildNewSession: the outcomes, each the new map, the new pool and the   *)
(* session (0 for NULL).  With no memory left the allocation throws and    *)
(* NULL is returned; a session whose Init fails is given back.             *)
BuildNewSession(m, k, f) ==
    LET idle == Slots \ pool
        s == CHOOSE t \in idle : \A u \in idle : t <= u
    IN  IF idle = {}
        THEN {[map |-> m, pool |-> pool, slot |-> 0]}
        ELSE {[map |-> m, pool |-> pool, slot |-> 0],
              [map |-> [t \in DOMAIN m \cup {s} |->
                            IF t = s THEN NewSession(k, f) ELSE m[t]],
               pool |-> pool \cup {s}, slot |-> s]}

(* GetSession(tran_addr): the session of a stream, built when there is     *)
(* none; a stream key that had been deleted is forgotten then.             *)
KeyOf(f, key) == IF key = 0 THEN FiveTupleKey(f.addr) ELSE StreamKey(key, f.addr)

GetSession(m, f, key) ==
    IF Find(m, KeyOf(f, key)) # {}
    THEN {[map |-> m, pool |-> pool, slot |-> s, forget |-> {}] :
              s \in Find(m, KeyOf(f, key))}
    ELSE {[map |-> b.map, pool |-> b.pool, slot |-> b.slot, forget |-> {key}] :
              b \in BuildNewSession(m, KeyOf(f, key), f)}

(* A session put into the map while the timer walks over it may or may not *)
(* still be met by the walk; one taken out is not.                         *)
Joined(st, s) == {st, [i \in DOMAIN st |-> [st[i] EXCEPT
                           !.todo = IF st[i].op \in {"walk", "close"}
                                    THEN @ \cup {s} ELSE @]]}

(* "delete session" and session_map_.erase: a function that still points   *)
(* to the session is left with a dangling pointer.                         *)
Freed(st, s) == [i \in DOMAIN st |->
                    [st[i] EXCEPT !.todo = @ \ {s},
                                  !.dangling = @ \/ st[i].slot = s]]

Frame(op, s, todo) == [op |-> op, slot |-> s, todo |-> todo, dangling |-> FALSE]

Top == stack[Len(stack)]
Popped == SubSeq(stack, 1, Len(stack) - 1)

(* The application runs: outside the library or inside one of its          *)
(* callbacks, when the innermost function has a session in hand.           *)
AppRuns == \A i \in DOMAIN stack : i = Len(stack) => stack[i].slot # 0

(* The sessions that functions in progress hold and that are not being     *)
(* closed: the application deletes none of them, and does not call the     *)
(* timer, until these functions have returned.                             *)
InHand == {stack[i].slot : i \in DOMAIN stack} \ {0}
OpenInHand == {s \in InHand \cap DOMAIN map : ~ map[s].closing}

---------------------------------------------------------------------------
(* The interface.                                                          *)

Init == /\ map = [s \in {} |-> 0]
        /\ pool = {}
        /\ deleted = {}
        /\ lag = 0
        /\ stack = <<>>

(* Time passes.                                                            *)
Tick == /\ lag < Ttl
        /\ lag' = lag + 1
        /\ UNCHANGED <<map, pool, deleted, stack>>

(* The part GtpFrameSend and GtpPacketReceive share: the session is found  *)
(* or built, the call fails when there is none, and otherwise the session  *)
(* is marked active or not and handed to a handler that calls back.        *)
Enter(op, f, key, active) ==
    /\ AppRuns /\ Len(stack) < MaxDepth
    /\ lag' = 0
    /\ \E m \in {Advanced(map)} :
       \E r \in GetSession(m, f, key) :
          /\ pool' = r.pool
          /\ deleted' = deleted \ r.forget
          /\ IF r.slot = 0
             THEN map' = r.map /\ stack' = stack
             ELSE /\ map' = [r.map EXCEPT
                        ![r.slot].age = IF active THEN 0 ELSE @,
                        ![r.slot].addr = IF op = "receive" THEN f.addr ELSE @,
                        ![r.slot].users = @ \cup {f}]
                  /\ \E st \in IF r.slot \in DOMAIN map
                               THEN {stack} ELSE Joined(stack, r.slot) :
                        stack' = Append(st, Frame(op, r.slot, {}))

(* GtpFrameSend: prepares the packet, calls send_pack_cb_, then            *)
(* FramePostHandler uses the session again.                                *)
GtpFrameSend(f) == Enter("send", f, f.key, TRUE)

(* What GtpPacketReceive takes for the stream key of a packet: the field   *)
(* in the header of a parity packet, and in any other the one under        *)
(* has_check_flag_, where a sender with a stream key always puts it and    *)
(* one without puts the token of its data.                                 *)
EmbeddedKey(f, kind) ==
    IF kind = "data" /\ f.key = 0 THEN f.token ELSE f.key

(* GtpPacketReceive: only DATA keeps the session alive; the handlers       *)
(* deliver frames and send acknowledgements through callbacks.             *)
GtpPacketReceive(f, kind) ==
    Enter("receive", f, EmbeddedKey(f, kind), kind = "data")

(* The callback returns and the function goes on with its session to its   *)
(* end (a further callback of the same function is one more call nested at *)
(* this level).                                                            *)
HandlerReturns ==
    /\ stack # <<>> /\ Top.op \in {"send", "receive"}
    /\ stack' = Popped
    /\ UNCHANGED <<map, pool, deleted, lag>>

(* DelGtpLinker -> DelSpsSession -> DelSpsSessionByKey.  The key of a      *)
(* stream is remembered whether or not it has a session; a session that is *)
(* being closed already is left to whoever closes it.                      *)
LinkKey(f) == IF f.key = 0 THEN FiveTupleKey(f.addr) ELSE BareStreamKey(f.key)

(* Mutation: the health of the session is not looked at.                   *)
DeletableAny(m, k) == Find(m, k)

Deletable(m, k) == {s \in Find(m, k) : ~ m[s].closing}

DelGtpLinker(f) ==
    /\ AppRuns
    /\ Find(map, LinkKey(f)) \cap OpenInHand = {}
    /\ lag' = 0
    /\ deleted' = deleted \cup ({f.key} \ {0})
    /\ \E m \in {Advanced(map)} :
       \/ /\ Deletable(m, LinkKey(f)) = {}
          /\ map' = m
          /\ UNCHANGED <<pool, stack>>
       \/ \E s \in Deletable(m, LinkKey(f)) :
          /\ map' = Without(m, s)
          /\ pool' = pool \ {s}
          /\ stack' = Freed(stack, s)

(* Mutation: the walk goes by the timestamp of the last call.              *)
PeriodGtpTimerStale ==
    /\ AppRuns /\ Len(stack) < MaxDepth
    /\ OpenInHand = {}
    /\ stack' = Append(stack, Frame("walk", 0, DOMAIN map))
    /\ UNCHANGED <<map, pool, deleted, lag>>

(* PeriodGtpTimer -> CheckResourceActiveStatus: the walk begins.           *)
PeriodGtpTimer ==
    /\ AppRuns /\ Len(stack) < MaxDepth
    /\ OpenInHand = {}
    /\ lag' = 0
    /\ map' = Advanced(map)
    /\ stack' = Append(stack, Frame("walk", 0, DOMAIN map))
    /\ UNCHANGED <<pool, deleted>>

Walking == stack # <<>> /\ Top.op = "walk" /\ Top.slot = 0
SetTop(st, fr) == [st EXCEPT ![Len(st)] = fr]

(* The walk comes to a session: an idle one is marked and its quality is   *)
(* reported for the last time, one in use gets TimerHandler; both call     *)
(* back.  An idle one that is being closed already is passed over.         *)
Expired(m, s) == m[s].age = Ttl

WalkVisit(s) ==
    /\ Walking /\ s \in Top.todo
    /\ \E top \in {[Top EXCEPT !.todo = @ \ {s}]} :
       \/ /\ Expired(map, s) /\ ~ map[s].closing
          /\ map' = [map EXCEPT ![s].closing = TRUE]
          /\ stack' = SetTop(stack, [top EXCEPT !.slot = s, !.op = "close"])
       \/ /\ Expired(map, s) /\ map[s].closing
          /\ map' = map
          /\ stack' = SetTop(stack, top)
       \/ /\ ~ Expired(map, s)
          /\ map' = map
          /\ stack' = SetTop(stack, [top EXCEPT !.slot = s])
    /\ UNCHANGED <<pool, deleted, lag>>

(* The callback returns into the walk.  TimerHandler: on to the next.      *)
(* Closing: the queues are emptied, the session is freed and erased.       *)
WalkResumes ==
    /\ stack # <<>> /\ Top.op = "walk" /\ Top.slot # 0
    /\ stack' = SetTop(stack, [Top EXCEPT !.slot = 0])
    /\ UNCHANGED <<map, pool, deleted, lag>>

WalkCloses ==
    /\ stack # <<>> /\ Top.op = "close"
    /\ \E s \in {Top.slot} :
         /\ map' = Without(map, s)
         /\ pool' = pool \ {s}
         /\ stack' = Freed(SetTop(stack, [Top EXCEPT !.slot = 0, !.op = "walk"]), s)
    /\ UNCHANGED <<deleted, lag>>

(* The walk ends; an empty map is replaced by a fresh one.                 *)
WalkEnds ==
    /\ Walking /\ Top.todo = {}
    /\ stack' = Popped
    /\ UNCHANGED <<map, pool, deleted, lag>>

Next == \/ Tick
        \/ \E f \in Flows : GtpFrameSend(f)
        \/ \E f \in Flows, kind \in Kinds : GtpPacketReceive(f, kind)
        \/ HandlerReturns
        \/ \E f \in Flows : DelGtpLinker(f)
        \/ PeriodGtpTimer
        \/ \E s \in Slots : WalkVisit(s)
        \/ WalkResumes
        \/ WalkCloses
        \/ WalkEnds

(* A callback makes finitely many calls and returns, however often the     *)
(* application calls; a loop in the library runs on; time passes; and the  *)
(* application calls the timer again and again from its main loop.         *)
ReturnsAt(d) == Len(stack) = d /\ (HandlerReturns \/ WalkResumes \/ WalkCloses)

Fairness == /\ WF_vars(Tick)
            /\ \A d \in 1 .. MaxDepth : SF_vars(ReturnsAt(d))
            /\ WF_vars(\E s \in Slots : WalkVisit(s))
            /\ WF_vars(WalkEnds)
            /\ SF_vars(stack = <<>> /\ PeriodGtpTimer)

Spec == Init /\ [][Next]_vars /\ Fairness

---------------------------------------------------------------------------
(* No function of the library goes on with a session that was freed while  *)
(* it was calling back: the health mark a session gets before its last     *)
(* report keeps DelGtpLinker and a nested timer from freeing it a second   *)
(* time, provided that the application deletes no session in use.          *)
NoDangling == \A i \in DOMAIN stack : ~ stack[i].dangling

(* The memory handed out by the session pool is exactly that of the        *)
(* sessions in the map, through failed initialisations, deletions by the   *)
(* application and by the timer: no session is leaked and none freed twice.*)
PoolIsMap == pool = DOMAIN map

(* A session serves one stream: those without stream key are told apart by *)
(* their five-tuple even when the numbers computed from them collide, and  *)
(* a stream key keeps its one session whatever address its packets come    *)
(* from and whichever of the three kinds they are.                         *)
OneSessionPerStream ==
    /\ \A s \in DOMAIN map : \A f, g \in map[s].users :
          f.key = g.key /\ (f.key = 0 => f.addr = g.addr)
    /\ \A s, t \in DOMAIN map : \A f \in map[s].users, g \in map[t].users :
          (f.key = g.key /\ (f.key = 0 => f.addr = g.addr)) => s = t

(* A stream key the application deleted gets no session from the receive   *)
(* path before the application sends on it again: src/src/mgr/goodtp_mgr.h *)
(* :251-252, "stream_keys explicitly deleted by app (via DelGtpLinker with *)
(* enable_key_=1). Receive-path BuildNewSession is blocked for these keys  *)
(* until the app re-sends."  It does not hold: GetSession forgets the key  *)
(* and builds the session on either path (goodtp_mgr.cpp:1396-1403).       *)
BlockedUntilSent ==
    [][\A s \in DOMAIN map' \ DOMAIN map :
          (map'[s].key.third /\ map'[s].key.num \in deleted)
              => stack'[Len(stack')].op = "send"]_vars

(* Every session is used again or closed: idle sessions do not pile up,    *)
(* whatever the callbacks do while the timer walks.                        *)
IdleClosed == \A s \in Slots : []<>(s \notin DOMAIN map \/ map[s].age = 0)
=============================================================================
