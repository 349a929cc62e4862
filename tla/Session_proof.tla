--------------------------- MODULE Session_proof ---------------------------
(***************************************************************************)
(* Proofs about the sessions of one instance: the table that holds them    *)
(* (SessionTable), the handshake by which the two ends of one agree that   *)
(* it starts (SessionSync), and how one follows the quality of its link    *)
(* (LinkQuality).                                                          *)
(*                                                                         *)
(* The table, for every set of streams, every size of the session memory   *)
(* and every depth of nested callbacks.  TableInv is inductive.  Its heart *)
(* is about the functions in progress: while a timer walks, every session  *)
(* held by a function below it is being closed already (UnderTimer), so    *)
(* that the session it closes next is held by nobody below (CloseAlone),   *)
(* and what is held is in the map (Live).                                  *)
(*                                                                         *)
(* The handshake, for every bound, every MaxDelay and every SyncPeriod     *)
(* above it.  Its safety rests on ages: a receiver that runs has been      *)
(* running for no longer than since the last reset, and, as long as the    *)
(* sender keeps its first session, for no longer than any marked packet    *)
(* has been under way.  A marked packet is gone before SyncPeriod is over. *)
(*                                                                         *)
(* The link, for every set of losses, every length of the second and of    *)
(* the periods: the session remembers the worst loss of the last second.   *)
(* That speaks of the last Second ticks while the session keeps two maxima *)
(* and a timer; QualityInv says what the maximum of the running second     *)
(* covers.                                                                 *)
(***************************************************************************)
EXTENDS SessionTable, SessionSync, LinkQuality, WellFoundedInduction, TLAPS

KeyType == [num : Nat, third : BOOLEAN, addr : (SUBSET Addrs) \ {{}}]
SessionType == [key : KeyType, age : 0 .. Ttl, closing : BOOLEAN,
                addr : Addrs, users : SUBSET Flows]
FrameType == [op : {"send", "receive", "walk", "close"}, slot : 0 .. MaxSession,
              todo : SUBSET Slots, dangling : BOOLEAN]

TypeInv == /\ DOMAIN map \subseteq Slots
           /\ \A s \in DOMAIN map : map[s] \in SessionType
           /\ lag \in 0 .. Ttl
           /\ stack \in Seq(FrameType)

\* What a function in progress holds, or the walk is still to visit, exists.
Live == \A i \in DOMAIN stack :
            /\ stack[i].slot # 0 => stack[i].slot \in DOMAIN map
            /\ stack[i].todo \subseteq DOMAIN map

\* A function that waits for a callback to return holds a session, and so
\* does one that closes a session.
Holding == \A i \in DOMAIN stack :
               (i < Len(stack) \/ stack[i].op = "close") => stack[i].slot # 0

UnderTimer ==
    \A i, j \in DOMAIN stack :
        j < i /\ stack[i].op \in {"walk", "close"} => map[stack[j].slot].closing

CloseAlone ==
    \A i, j \in DOMAIN stack :
        j < i /\ stack[i].op = "close" => stack[j].slot # stack[i].slot

KeysDiffer ==
    \A s, t \in DOMAIN map : SameKey(map[s].key, map[t].key) => s = t

TableInv == /\ TypeInv /\ Live /\ Holding /\ UnderTimer /\ CloseAlone /\ KeysDiffer
            /\ PoolIsMap /\ NoDangling

\* No caller of GtpFrameSend in the repository gives a token.
TokensUnused == \A f \in Flows : f.key = 0 => f.token = 0

\* The key of a session is the one its users' packets lead to.
UsersKeyed ==
    \A s \in DOMAIN map :
        /\ \/ map[s].key.third /\ map[s].key.num \in Keys
           \/ \E a \in Addrs : map[s].key = FiveTupleKey(a)
        /\ \A f \in map[s].users :
              /\ f.key # 0 => map[s].key.third /\ map[s].key.num = f.key
              /\ f.key = 0 => map[s].key = FiveTupleKey(f.addr)
-----------------------------------------------------------------------------
(* The operators of the model.                                             *)

\* Every non-empty set of naturals has a least element.
LEMMA LeastSlot ==
    ASSUME NEW T, T \subseteq Nat, T # {}
    PROVE  \E x \in T : \A y \in T : x <= y
<1>1. \E R : /\ \A x, y \in Nat : <<y, x>> \in R <=> y < x
             /\ \E x \in T : \A y \in T : ~ (<<y, x>> \in R)
  <2>1. \E x \in T : \A y \in T : ~ (<<y, x>> \in OpToRel(<, Nat))
    BY NatLessThanWellFounded, WFMin
  <2>2. \A x, y \in Nat : <<y, x>> \in OpToRel(<, Nat) <=> y < x
    BY DEF OpToRel
  <2> QED  BY <2>1, <2>2, Zenon
<1>2. PICK R : /\ \A x, y \in Nat : <<y, x>> \in R <=> y < x
               /\ \E x \in T : \A y \in T : ~ (<<y, x>> \in R)
  BY <1>1
<1>3. PICK x \in T : \A y \in T : ~ (<<y, x>> \in R)
  BY <1>2
<1>4. \A y \in T : ~ (y < x)
  BY <1>2, <1>3
<1> QED  BY <1>4

\* current_ts_us_ moves: nothing but the ages changes.
LEMMA AdvancedFacts ==
    ASSUME TypeInv
    PROVE  /\ DOMAIN Advanced(map) = DOMAIN map
           /\ \A s \in DOMAIN map :
                 /\ Advanced(map)[s] \in SessionType
                 /\ Advanced(map)[s].key = map[s].key
                 /\ Advanced(map)[s].closing = map[s].closing
                 /\ Advanced(map)[s].users = map[s].users
<1> DEFINE AgedTable(s) == [map[s] EXCEPT !.age = Least(@ + lag, Ttl)]
<1>1. ASSUME NEW s \in DOMAIN map
      PROVE  /\ AgedTable(s) \in SessionType
             /\ AgedTable(s).key = map[s].key /\ AgedTable(s).closing = map[s].closing
             /\ AgedTable(s).users = map[s].users
  <2>1. ASSUME NEW x \in SessionType, NEW n \in 0 .. Ttl
        PROVE  /\ [x EXCEPT !.age = n] \in SessionType
               /\ [x EXCEPT !.age = n].key = x.key
               /\ [x EXCEPT !.age = n].closing = x.closing
               /\ [x EXCEPT !.age = n].users = x.users
    BY DEF SessionType
  <2>2. map[s] \in SessionType /\ map[s].age \in 0 .. Ttl /\ lag \in 0 .. Ttl
    BY DEF TypeInv, SessionType
  <2>3. Least(map[s].age + lag, Ttl) \in 0 .. Ttl
    BY <2>2, SessionTableAssumption DEF Least
  <2> QED  BY <2>1, <2>2, <2>3
<1>2. Advanced(map) = [s \in DOMAIN map |-> AgedTable(s)]
  BY DEF Advanced
<1> HIDE DEF AgedTable
<1> QED  BY <1>1, <1>2

LEMMA KeyOfFacts ==
    ASSUME NEW f \in Flows, NEW key \in Nat
    PROVE  KeyOf(f, key) \in KeyType
BY SessionTableAssumption DEF KeyOf, FiveTupleKey, StreamKey, KeyType

\* BuildNewSession fails and changes nothing, or fills memory that was free.
BuildOutcome(m, k, f, b) ==
    \/ b = [map |-> m, pool |-> pool, slot |-> 0]
    \/ /\ b.slot \in Slots \ pool
       /\ b.pool = pool \cup {b.slot}
       /\ b.map = [t \in DOMAIN m \cup {b.slot} |->
                     IF t = b.slot THEN NewSession(k, f) ELSE m[t]]

LEMMA BuildFacts ==
    ASSUME NEW m, NEW k, NEW f, NEW b \in BuildNewSession(m, k, f)
    PROVE  BuildOutcome(m, k, f, b)
<1> DEFINE idle == Slots \ pool
           s == CHOOSE t \in idle : \A u \in idle : t <= u
<1>1. CASE idle = {}
  BY <1>1 DEF BuildNewSession, BuildOutcome
<1>2. CASE idle # {}
  <2>1. idle \subseteq Nat
    BY SessionTableAssumption DEF Slots
  <2>2. \E t \in idle : \A u \in idle : t <= u
    BY <1>2, <2>1, LeastSlot, Zenon
  <2>3. s \in idle
    BY <2>2
  <2>4. \/ b = [map |-> m, pool |-> pool, slot |-> 0]
        \/ b = [map |-> [t \in DOMAIN m \cup {s} |->
                            IF t = s THEN NewSession(k, f) ELSE m[t]],
                pool |-> pool \cup {s}, slot |-> s]
    BY <1>2 DEF BuildNewSession
  <2> HIDE DEF s
  <2> QED  BY <2>3, <2>4 DEF BuildOutcome
<1> QED  BY <1>1, <1>2

-----------------------------------------------------------------------------
(* The stack of functions in progress.                                     *)

LEMMA PushFacts ==
    ASSUME NEW st \in Seq(FrameType), NEW fr \in FrameType
    PROVE  /\ Append(st, fr) \in Seq(FrameType)
           /\ Len(Append(st, fr)) = Len(st) + 1
           /\ Append(st, fr)[Len(st) + 1] = fr
           /\ \A i \in 1 .. Len(st) : Append(st, fr)[i] = st[i]
OBVIOUS

LEMMA PopFacts ==
    ASSUME stack \in Seq(FrameType), stack # <<>>
    PROVE  /\ Popped \in Seq(FrameType)
           /\ Len(Popped) = Len(stack) - 1
           /\ \A i \in 1 .. Len(stack) - 1 : Popped[i] = stack[i]
BY DEF Popped

LEMMA SetTopFacts ==
    ASSUME stack \in Seq(FrameType), stack # <<>>, NEW fr \in FrameType
    PROVE  /\ SetTop(stack, fr) \in Seq(FrameType)
           /\ Len(SetTop(stack, fr)) = Len(stack)
           /\ SetTop(stack, fr)[Len(stack)] = fr
           /\ \A i \in 1 .. Len(stack) - 1 : SetTop(stack, fr)[i] = stack[i]
BY DEF SetTop

LEMMA FreedFacts ==
    ASSUME NEW st \in Seq(FrameType), NEW s \in Slots
    PROVE  /\ Freed(st, s) \in Seq(FrameType)
           /\ Len(Freed(st, s)) = Len(st)
           /\ \A i \in 1 .. Len(st) :
                 /\ Freed(st, s)[i].op = st[i].op
                 /\ Freed(st, s)[i].slot = st[i].slot
                 /\ Freed(st, s)[i].todo = st[i].todo \ {s}
                 /\ Freed(st, s)[i].dangling = (st[i].dangling \/ st[i].slot = s)
<1> DEFINE F(i) == [st[i] EXCEPT !.todo = @ \ {s}, !.dangling = @ \/ st[i].slot = s]
<1>1. ASSUME NEW i \in 1 .. Len(st)
      PROVE  /\ F(i) \in FrameType /\ F(i).op = st[i].op /\ F(i).slot = st[i].slot
             /\ F(i).todo = st[i].todo \ {s}
             /\ F(i).dangling = (st[i].dangling \/ st[i].slot = s)
  <2>1. ASSUME NEW x \in FrameType, NEW b \in BOOLEAN
        PROVE  LET y == [x EXCEPT !.todo = @ \ {s}, !.dangling = b]
               IN  /\ y \in FrameType /\ y.op = x.op /\ y.slot = x.slot
                   /\ y.todo = x.todo \ {s} /\ y.dangling = b
    BY DEF FrameType
  <2>2. st[i] \in FrameType
    OBVIOUS
  <2>3. (st[i].dangling \/ st[i].slot = s) \in BOOLEAN
    OBVIOUS
  <2> QED  BY <2>1, <2>2, <2>3
<1>2. Freed(st, s) = [i \in 1 .. Len(st) |-> F(i)]
  BY DEF Freed
<1> HIDE DEF F
<1> QED  BY <1>1, <1>2

LEMMA JoinedFacts ==
    ASSUME NEW st \in Seq(FrameType), NEW s \in Slots, NEW jt \in Joined(st, s)
    PROVE  /\ jt \in Seq(FrameType)
           /\ Len(jt) = Len(st)
           /\ \A i \in 1 .. Len(st) :
                 /\ jt[i].op = st[i].op
                 /\ jt[i].slot = st[i].slot
                 /\ jt[i].todo \subseteq st[i].todo \cup {s}
                 /\ jt[i].dangling = st[i].dangling
<1> DEFINE T(i) == IF st[i].op \in {"walk", "close"} THEN st[i].todo \cup {s} ELSE st[i].todo
           F(i) == [st[i] EXCEPT !.todo = T(i)]
<1>1. ASSUME NEW i \in 1 .. Len(st)
      PROVE  /\ F(i) \in FrameType /\ F(i).op = st[i].op /\ F(i).slot = st[i].slot
             /\ F(i).todo \subseteq st[i].todo \cup {s}
             /\ F(i).dangling = st[i].dangling
  <2>1. ASSUME NEW x \in FrameType, NEW t \in SUBSET Slots
        PROVE  LET y == [x EXCEPT !.todo = t]
               IN  /\ y \in FrameType /\ y.op = x.op /\ y.slot = x.slot
                   /\ y.todo = t /\ y.dangling = x.dangling
    BY DEF FrameType
  <2>2. st[i] \in FrameType
    OBVIOUS
  <2>3. st[i].todo \in SUBSET Slots
    BY <2>2 DEF FrameType
  <2>4. T(i) \in SUBSET Slots /\ T(i) \subseteq st[i].todo \cup {s}
    BY <2>3
  <2> HIDE DEF T
  <2> QED  BY <2>1, <2>2, <2>4
<1>2. Joined(st, s) = {st, [i \in 1 .. Len(st) |-> F(i)]}
  BY DEF Joined
<1> HIDE DEF F
<1> QED  BY <1>1, <1>2
-----------------------------------------------------------------------------
(* GtpFrameSend and GtpPacketReceive.                                      *)

\* The map after the session s has been found or built.
Used(m, s, op, f, active) ==
    [m EXCEPT ![s].age = IF active THEN 0 ELSE @,
              ![s].addr = IF op = "receive" THEN f.addr ELSE @,
              ![s].users = @ \cup {f}]

\* n is m but for the session s, which f uses now.
UsedOk(n, m, s, f) ==
    /\ DOMAIN n = DOMAIN m
    /\ \A t \in DOMAIN m \ {s} : n[t] = m[t]
    /\ n[s] \in SessionType
    /\ n[s].key = m[s].key /\ n[s].closing = m[s].closing
    /\ n[s].users = m[s].users \cup {f}

LEMMA UsedFacts ==
    ASSUME NEW m, NEW s \in DOMAIN m, m[s] \in SessionType,
           NEW op, NEW f \in Flows, NEW active \in BOOLEAN
    PROVE  UsedOk(Used(m, s, op, f, active), m, s, f)
<1> DEFINE n == Used(m, s, op, f, active)
           a == IF active THEN 0 ELSE m[s].age
           d == IF op = "receive" THEN f.addr ELSE m[s].addr
           e == [[[m[s] EXCEPT !.age = a] EXCEPT !.addr = d] EXCEPT !.users = @ \cup {f}]
<1>1. DOMAIN n = DOMAIN m /\ \A t \in DOMAIN m \ {s} : n[t] = m[t]
  BY DEF Used
<1>2. n[s] = e
  BY DEF Used
<1>3. a \in 0 .. Ttl /\ d \in Addrs
  BY SessionTableAssumption DEF SessionType
<1>4. e \in SessionType /\ e.key = m[s].key /\ e.closing = m[s].closing
      /\ e.users = m[s].users \cup {f}
  <2> HIDE DEF a, d
  <2> QED  BY <1>3 DEF SessionType
<1> HIDE DEF e
<1> QED  BY <1>1, <1>2, <1>4 DEF UsedOk

\* Keys, marks and users of the sessions in the map stay as they are, but for
\* the users of the session s.
Kept(s) ==
    \A t \in DOMAIN map :
        /\ map'[t] \in SessionType
        /\ map'[t].key = map[t].key /\ map'[t].closing = map[t].closing
        /\ t # s => map'[t].users = map[t].users

\* The call fails, or goes on with a session it found or built.
EnterFailed ==
    /\ DOMAIN map' = DOMAIN map /\ Kept(0)
    /\ pool' = pool /\ stack' = stack

EnterFound(op, s, f, key) ==
    /\ s \in Find(map, KeyOf(f, key))
    /\ DOMAIN map' = DOMAIN map /\ Kept(s)
    /\ map'[s].users = map[s].users \cup {f}
    /\ pool' = pool
    /\ stack' = Append(stack, Frame(op, s, {}))

EnterBuilt(op, s, f, key) ==
    /\ s \in Slots \ pool
    /\ Find(map, KeyOf(f, key)) = {}
    /\ DOMAIN map' = DOMAIN map \cup {s} /\ Kept(0)
    /\ map'[s] \in SessionType
    /\ map'[s].key = KeyOf(f, key) /\ ~ map'[s].closing /\ map'[s].users = {f}
    /\ pool' = pool \cup {s}
    /\ deleted' = deleted \ {key}
    /\ \E st \in Joined(stack, s) : stack' = Append(st, Frame(op, s, {}))

LEMMA EnterFacts ==
    ASSUME TableInv, NEW op \in {"send", "receive"}, NEW f \in Flows,
           NEW key \in Nat, NEW active \in BOOLEAN, Enter(op, f, key, active)
    PROVE  /\ AppRuns /\ lag' = 0 /\ deleted' \subseteq deleted
           /\ \/ EnterFailed
              \/ \E s : EnterFound(op, s, f, key) \/ EnterBuilt(op, s, f, key)
<1> DEFINE m == Advanced(map)
           k == KeyOf(f, key)
<1>1. PICK r \in GetSession(m, f, key) :
         /\ pool' = r.pool
         /\ deleted' = deleted \ r.forget
         /\ IF r.slot = 0
            THEN map' = r.map /\ stack' = stack
            ELSE /\ map' = [r.map EXCEPT
                       ![r.slot].age = IF active THEN 0 ELSE @,
                       ![r.slot].addr = IF op = "receive" THEN f.addr ELSE @,
                       ![r.slot].users = @ \cup {f}]
                 /\ \E st \in IF r.slot \in DOMAIN map
                              THEN {stack} ELSE Joined(stack, r.slot) :
                       stack' = Append(st, Frame(op, r.slot, {}))
  BY DEF Enter
<1>2. /\ DOMAIN m = DOMAIN map
      /\ \A s \in DOMAIN map :
            /\ m[s] \in SessionType /\ m[s].key = map[s].key
            /\ m[s].closing = map[s].closing /\ m[s].users = map[s].users
  BY AdvancedFacts DEF TableInv
<1>3. Find(m, k) = Find(map, k) /\ Find(m, k) \subseteq DOMAIN map
  BY <1>2 DEF Find
<1>4. AppRuns /\ lag' = 0 /\ deleted' \subseteq deleted
  BY <1>1 DEF Enter
<1>5. DOMAIN map \subseteq Slots /\ pool = DOMAIN map /\ 0 \notin Slots
  BY DEF TableInv, TypeInv, PoolIsMap, Slots
<1> HIDE DEF m, k
<1>6. CASE Find(m, k) # {}
  <2> DEFINE s == r.slot
  <2>1. /\ r.map = m /\ r.pool = pool /\ r.slot \in Find(m, k)
    BY <1>1, <1>6 DEF GetSession, k
  <2>2. r.slot \in DOMAIN m /\ r.slot \in DOMAIN map /\ r.slot # 0
    BY <2>1, <1>2, <1>3, <1>5
  <2>3. stack' = Append(stack, Frame(op, r.slot, {}))
    BY <1>1, <2>2
  <2>4. map' = Used(m, s, op, f, active)
    BY <1>1, <2>1, <2>2 DEF Used
  <2> HIDE DEF s
  <2>5. m[s] \in SessionType
    BY <2>2, <1>2 DEF s
  <2>6. /\ DOMAIN map' = DOMAIN m
        /\ \A t \in DOMAIN m \ {s} : map'[t] = m[t]
        /\ map'[s] \in SessionType
        /\ map'[s].key = m[s].key /\ map'[s].closing = m[s].closing
        /\ map'[s].users = m[s].users \cup {f}
    <3>1. s \in DOMAIN m
      BY <2>2 DEF s
    <3>2. UsedOk(Used(m, s, op, f, active), m, s, f)
      BY <3>1, <2>5, UsedFacts
    <3>3. UsedOk(map', m, s, f)
      BY <3>2, <2>4
    <3> QED  BY <3>3 DEF UsedOk
  <2>7. Kept(s)
    BY <2>6, <1>2 DEF Kept
  <2>8. EnterFound(op, s, f, key)
    BY <1>1, <1>2, <1>3, <2>1, <2>2, <2>3, <2>6, <2>7 DEF EnterFound, k, s
  <2> QED  BY <2>8, <1>4
<1>7. CASE Find(m, k) = {}
  <2>1. PICK b \in BuildNewSession(m, k, f) :
            /\ r.map = b.map /\ r.pool = b.pool /\ r.slot = b.slot /\ r.forget = {key}
    BY <1>1, <1>7 DEF GetSession, k
  <2>2. CASE b = [map |-> m, pool |-> pool, slot |-> 0]
    <3>1. map' = m /\ stack' = stack /\ pool' = pool
      BY <1>1, <2>1, <2>2
    <3>2. EnterFailed
      BY <3>1, <1>2 DEF EnterFailed, Kept
    <3> QED  BY <3>2, <1>4
  <2>3. CASE /\ b.slot \in Slots \ pool
             /\ b.pool = pool \cup {b.slot}
             /\ b.map = [t \in DOMAIN m \cup {b.slot} |->
                           IF t = b.slot THEN NewSession(k, f) ELSE m[t]]
    <3> DEFINE s == b.slot
               mm == b.map
    <3>1. s \in Slots /\ s # 0 /\ s \notin DOMAIN map /\ s \notin pool
      BY <2>3, <1>5
    <3>2. /\ DOMAIN mm = DOMAIN map \cup {s} /\ mm[s] = NewSession(k, f)
          /\ \A t \in DOMAIN map : mm[t] = m[t]
      BY <2>3, <1>2, <3>1
    <3>3. mm[s] \in SessionType /\ mm[s].key = k /\ mm[s].users = {} /\ ~mm[s].closing
      BY <3>2, KeyOfFacts, SessionTableAssumption DEF NewSession, SessionType, k
    <3>4. map' = Used(mm, s, op, f, active)
      BY <1>1, <2>1, <3>1 DEF Used
    <3>5. \E st \in Joined(stack, s) : stack' = Append(st, Frame(op, s, {}))
      BY <1>1, <2>1, <3>1
    <3> HIDE DEF s, mm
    <3>6. /\ DOMAIN map' = DOMAIN mm
          /\ \A t \in DOMAIN mm \ {s} : map'[t] = mm[t]
          /\ map'[s] \in SessionType
          /\ map'[s].key = mm[s].key /\ map'[s].closing = mm[s].closing
          /\ map'[s].users = mm[s].users \cup {f}
      <4>1. UsedOk(Used(mm, s, op, f, active), mm, s, f)
        BY <3>2, <3>3, UsedFacts
      <4>2. UsedOk(map', mm, s, f)
        BY <4>1, <3>4
      <4> QED  BY <4>2 DEF UsedOk
    <3>7. Kept(0)
      BY <3>1, <3>2, <3>6, <1>2, <1>5 DEF Kept
    <3>8. pool' = pool \cup {s} /\ deleted' = deleted \ {key}
      BY <1>1, <2>1, <2>3 DEF s
    <3>9. map'[s].users = {f} /\ map'[s].key = k /\ ~map'[s].closing
      BY <3>3, <3>6
    <3>10. EnterBuilt(op, s, f, key)
      BY <1>3, <1>7, <3>1, <3>2, <3>5, <3>6, <3>7, <3>8, <3>9 DEF EnterBuilt, k
    <3> QED  BY <3>10, <1>4
  <2>4. b \in BuildNewSession(m, k, f)
    OBVIOUS
  <2>5. BuildOutcome(m, k, f, b)
    BY <2>4, BuildFacts
  <2> QED  BY <2>2, <2>3, <2>5 DEF BuildOutcome
<1> QED  BY <1>6, <1>7
-----------------------------------------------------------------------------
(* What a call does to the functions in progress.                          *)

StackInv == Live /\ Holding /\ UnderTimer /\ CloseAlone /\ NoDangling

\* A call puts the frame fr on the stack; no session goes away.
Pushed(fr) ==
    /\ stack' \in Seq(FrameType) /\ Len(stack') = Len(stack) + 1
    /\ stack'[Len(stack) + 1] = fr
    /\ fr.op # "close" /\ ~ fr.dangling
    /\ fr.slot # 0 => fr.slot \in DOMAIN map'
    /\ fr.todo \subseteq DOMAIN map'
    /\ \A i \in 1 .. Len(stack) :
          /\ stack'[i].op = stack[i].op /\ stack'[i].slot = stack[i].slot
          /\ stack'[i].dangling = stack[i].dangling
          /\ stack'[i].todo \subseteq DOMAIN map'
    /\ DOMAIN map \subseteq DOMAIN map'
    /\ \A t \in DOMAIN map : map'[t].closing = map[t].closing

LEMMA PushedInv ==
    ASSUME TableInv, AppRuns, NEW fr, Pushed(fr),
           fr.op = "walk" => \A j \in DOMAIN stack : map[stack[j].slot].closing
    PROVE  StackInv'
<1> DEFINE n == Len(stack)
<1>1. n \in Nat /\ DOMAIN stack = 1 .. n /\ DOMAIN stack' = 1 .. n + 1 /\ Len(stack') = n + 1
  BY DEF TableInv, TypeInv, Pushed
<1>2. \A i \in 1 .. n : stack[i].slot # 0 /\ stack[i].slot \in DOMAIN map
  BY <1>1 DEF TableInv, Holding, Live, AppRuns
<1>3. \A i \in 1 .. n : /\ stack'[i].op = stack[i].op /\ stack'[i].slot = stack[i].slot
                        /\ stack'[i].dangling = stack[i].dangling
                        /\ stack'[i].todo \subseteq DOMAIN map'
  BY DEF Pushed
<1>4. /\ stack'[n + 1] = fr /\ fr.op # "close" /\ ~ fr.dangling
      /\ fr.slot # 0 => fr.slot \in DOMAIN map'
      /\ fr.todo \subseteq DOMAIN map'
      /\ DOMAIN map \subseteq DOMAIN map'
      /\ \A t \in DOMAIN map : map'[t].closing = map[t].closing
  BY DEF Pushed
<1>5. Live'
  BY <1>1, <1>2, <1>3, <1>4 DEF Live
<1>6. Holding'
  BY <1>1, <1>2, <1>3, <1>4 DEF Holding
<1>7. UnderTimer'
  <2> SUFFICES ASSUME NEW i \in 1 .. n + 1, NEW j \in 1 .. n + 1, j < i,
                      stack'[i].op \in {"walk", "close"}
               PROVE  map'[stack'[j].slot].closing
    BY <1>1 DEF UnderTimer
  <2>1. j \in 1 .. n /\ map'[stack'[j].slot].closing = map[stack[j].slot].closing
    BY <1>1, <1>2, <1>3, <1>4
  <2>2. CASE i = n + 1
    <3>1. fr.op = "walk"
      BY <2>2, <1>4
    <3>2. map[stack[j].slot].closing
      BY <3>1, <2>1, <1>1
    <3> QED  BY <3>2, <2>1, Zenon
  <2>3. CASE i # n + 1
    <3>1. i \in 1 .. n /\ stack[i].op \in {"walk", "close"}
      BY <2>3, <1>1, <1>3
    <3>2. map[stack[j].slot].closing
      BY <3>1, <2>1, <1>1 DEF TableInv, UnderTimer
    <3> QED  BY <3>2, <2>1, Zenon
  <2> QED  BY <2>2, <2>3
<1>8. CloseAlone'
  <2> SUFFICES ASSUME NEW i \in 1 .. n + 1, NEW j \in 1 .. n + 1, j < i,
                      stack'[i].op = "close"
               PROVE  stack'[j].slot # stack'[i].slot
    BY <1>1 DEF CloseAlone
  <2>1. i \in 1 .. n /\ j \in 1 .. n
    BY <1>1, <1>4
  <2> QED  BY <2>1, <1>1, <1>3 DEF TableInv, CloseAlone
<1>9. NoDangling'
  BY <1>1, <1>3, <1>4 DEF TableInv, NoDangling
<1> QED  BY <1>5, <1>6, <1>7, <1>8, <1>9 DEF StackInv

\* The innermost function returns.
LEMMA PopInv ==
    ASSUME TableInv, stack # <<>>, stack' = Popped, UNCHANGED <<map, pool, deleted, lag>>
    PROVE  TableInv'
<1> DEFINE n == Len(stack)
<1>1. /\ n \in Nat \ {0} /\ DOMAIN stack = 1 .. n
      /\ stack' \in Seq(FrameType) /\ DOMAIN stack' = 1 .. n - 1 /\ Len(stack') = n - 1
      /\ \A i \in 1 .. n - 1 : stack'[i] = stack[i]
  BY PopFacts DEF TableInv, TypeInv
<1>2. TypeInv'
  BY <1>1 DEF TableInv, TypeInv
<1>3. Live'
  BY <1>1 DEF TableInv, Live
<1>4. Holding'
  BY <1>1 DEF TableInv, Holding
<1>5. UnderTimer'
  BY <1>1 DEF TableInv, UnderTimer
<1>6. CloseAlone'
  BY <1>1 DEF TableInv, CloseAlone
<1>7. NoDangling'
  BY <1>1 DEF TableInv, NoDangling
<1>8. (KeysDiffer /\ PoolIsMap)'
  BY DEF TableInv, KeysDiffer, PoolIsMap
<1> QED  BY <1>2, <1>3, <1>4, <1>5, <1>6, <1>7, <1>8 DEF TableInv

-----------------------------------------------------------------------------
(* One lemma for each call.                                                *)

LEMMA SameKeyFacts ==
    ASSUME NEW a, NEW b
    PROVE  SameKey(a, b) <=> SameKey(b, a)
BY DEF SameKey

LEMMA EnterInv ==
    ASSUME TableInv, NEW op \in {"send", "receive"}, NEW f \in Flows,
           NEW key \in Nat, NEW active \in BOOLEAN, Enter(op, f, key, active)
    PROVE  TableInv'
<1>1. /\ AppRuns /\ lag' = 0 /\ deleted' \subseteq deleted
      /\ \/ EnterFailed
         \/ \E s : EnterFound(op, s, f, key) \/ EnterBuilt(op, s, f, key)
  BY EnterFacts
<1>2. /\ DOMAIN map \subseteq Slots /\ pool = DOMAIN map /\ stack \in Seq(FrameType)
      /\ 0 \notin Slots /\ 0 \in 0 .. Ttl
  BY SessionTableAssumption DEF TableInv, TypeInv, PoolIsMap, Slots
<1>3. CASE EnterFailed
  <2>1. /\ DOMAIN map' = DOMAIN map /\ pool' = pool /\ stack' = stack
        /\ \A t \in DOMAIN map : /\ map'[t] \in SessionType /\ map'[t].key = map[t].key
                                 /\ map'[t].closing = map[t].closing
    BY <1>3 DEF EnterFailed, Kept
  <2>2. TypeInv' /\ Live' /\ Holding' /\ CloseAlone' /\ NoDangling' /\ PoolIsMap'
    BY <1>1, <1>2, <2>1
       DEF TableInv, TypeInv, Live, Holding, CloseAlone, NoDangling, PoolIsMap
  <2>3. KeysDiffer'
    BY <2>1 DEF TableInv, KeysDiffer
  <2>4. UnderTimer'
    <3> SUFFICES ASSUME NEW i \in DOMAIN stack, NEW j \in DOMAIN stack, j < i,
                        stack[i].op \in {"walk", "close"}
                 PROVE  map'[stack[j].slot].closing
      BY <2>1 DEF UnderTimer
    <3>1. stack[j].slot \in DOMAIN map
      BY <1>2 DEF TableInv, Holding, Live
    <3> QED  BY <3>1, <2>1 DEF TableInv, UnderTimer
  <2> QED  BY <2>2, <2>3, <2>4 DEF TableInv
<1>4. ASSUME NEW s, EnterFound(op, s, f, key)  PROVE TableInv'
  <2>1. /\ s \in DOMAIN map /\ s \in Slots /\ DOMAIN map' = DOMAIN map /\ pool' = pool
        /\ \A t \in DOMAIN map : /\ map'[t] \in SessionType /\ map'[t].key = map[t].key
                                 /\ map'[t].closing = map[t].closing
        /\ stack' = Append(stack, Frame(op, s, {}))
    BY <1>2, <1>4 DEF EnterFound, Find, Kept
  <2>2. Frame(op, s, {}) \in FrameType
    BY <2>1 DEF Frame, FrameType, Slots
  <2>3. TypeInv' /\ PoolIsMap'
    BY <1>1, <1>2, <2>1, <2>2, PushFacts DEF TypeInv, PoolIsMap
  <2>4. Pushed(Frame(op, s, {}))
    <3>1. \A i \in 1 .. Len(stack) : stack[i].todo \subseteq DOMAIN map
      BY <1>2 DEF TableInv, Live
    <3>2. /\ Frame(op, s, {}).op = op /\ Frame(op, s, {}).slot = s
          /\ Frame(op, s, {}).todo = {} /\ ~ Frame(op, s, {}).dangling
      BY DEF Frame
    <3>3. /\ stack' \in Seq(FrameType) /\ Len(stack') = Len(stack) + 1
          /\ stack'[Len(stack) + 1] = Frame(op, s, {})
          /\ \A i \in 1 .. Len(stack) : stack'[i] = stack[i]
      BY <1>2, <2>1, <2>2, PushFacts
    <3> QED  BY <2>1, <3>1, <3>2, <3>3 DEF Pushed
  <2>5. StackInv'
    BY <1>1, <2>4, PushedInv DEF Frame
  <2>6. KeysDiffer'
    BY <2>1 DEF TableInv, KeysDiffer
  <2> QED  BY <2>3, <2>5, <2>6 DEF TableInv, StackInv
<1>5. ASSUME NEW s, EnterBuilt(op, s, f, key)  PROVE TableInv'
  <2>1. /\ s \notin DOMAIN map /\ s \in Slots /\ DOMAIN map' = DOMAIN map \cup {s}
        /\ pool' = pool \cup {s}
        /\ \A t \in DOMAIN map : /\ map'[t] \in SessionType /\ map'[t].key = map[t].key
                                 /\ map'[t].closing = map[t].closing
        /\ map'[s] \in SessionType /\ map'[s].key = KeyOf(f, key)
        /\ Find(map, KeyOf(f, key)) = {} /\ deleted' = deleted \ {key}
    BY <1>2, <1>5 DEF EnterBuilt, Kept
  <2>2. PICK st \in Joined(stack, s) : stack' = Append(st, Frame(op, s, {}))
    BY <1>5 DEF EnterBuilt
  <2>3. Frame(op, s, {}) \in FrameType
    BY <2>1 DEF Frame, FrameType, Slots
  <2>4. /\ st \in Seq(FrameType) /\ Len(st) = Len(stack)
        /\ \A i \in 1 .. Len(stack) :
              /\ st[i].op = stack[i].op /\ st[i].slot = stack[i].slot
              /\ st[i].todo \subseteq stack[i].todo \cup {s}
              /\ st[i].dangling = stack[i].dangling
    BY <1>2, <2>1, JoinedFacts
  <2>5. TypeInv' /\ PoolIsMap'
    BY <1>1, <1>2, <2>1, <2>2, <2>3, <2>4, PushFacts DEF TypeInv, PoolIsMap
  <2>6. Pushed(Frame(op, s, {}))
    <3>1. \A i \in 1 .. Len(stack) : stack[i].todo \subseteq DOMAIN map
      BY <1>2 DEF TableInv, Live
    <3>2. /\ Frame(op, s, {}).op = op /\ Frame(op, s, {}).slot = s
          /\ Frame(op, s, {}).todo = {} /\ ~ Frame(op, s, {}).dangling
      BY DEF Frame
    <3>3. /\ stack' \in Seq(FrameType) /\ Len(stack') = Len(stack) + 1
          /\ stack'[Len(stack) + 1] = Frame(op, s, {})
          /\ \A i \in 1 .. Len(stack) : stack'[i] = st[i]
      BY <2>2, <2>3, <2>4, PushFacts
    <3> QED  BY <2>1, <2>4, <3>1, <3>2, <3>3 DEF Pushed
  <2>7. StackInv'
    BY <1>1, <2>6, PushedInv DEF Frame
  <2>8. KeysDiffer'
    <3>1. \A t \in DOMAIN map : ~ SameKey(map[t].key, map'[s].key)
      BY <2>1 DEF Find
    <3> QED  BY <2>1, <3>1, SameKeyFacts DEF TableInv, KeysDiffer
  <2> QED  BY <2>5, <2>7, <2>8 DEF TableInv, StackInv
<1> QED  BY <1>1, <1>3, <1>4, <1>5
\* The mark keeps what is being closed from being deleted, and the guard keeps
\* the application from deleting what is in use.
LEMMA DelGtpLinkerInv ==
    ASSUME TableInv, NEW f \in Flows, DelGtpLinker(f)  PROVE TableInv'
<1> DEFINE m == Advanced(map)
           k == LinkKey(f)
<1>1. /\ DOMAIN m = DOMAIN map
      /\ \A s \in DOMAIN map :
            /\ m[s] \in SessionType /\ m[s].key = map[s].key
            /\ m[s].closing = map[s].closing
  BY AdvancedFacts DEF TableInv
<1>2. /\ AppRuns /\ lag' = 0 /\ deleted' = deleted \cup ({f.key} \ {0})
      /\ Find(map, k) \cap OpenInHand = {}
      /\ \/ /\ Deletable(m, k) = {} /\ map' = m /\ pool' = pool /\ stack' = stack
         \/ \E s \in Deletable(m, k) :
               map' = Without(m, s) /\ pool' = pool \ {s} /\ stack' = Freed(stack, s)
  BY DEF DelGtpLinker
<1>3. /\ DOMAIN map \subseteq Slots /\ pool = DOMAIN map /\ stack \in Seq(FrameType)
      /\ 0 \notin Slots /\ 0 \in 0 .. Ttl /\ Len(stack) \in Nat
      /\ DOMAIN stack = 1 .. Len(stack)
  BY SessionTableAssumption DEF TableInv, TypeInv, PoolIsMap, Slots
<1> HIDE DEF m
<1>4. Deletable(m, k) = {s \in DOMAIN map : SameKey(map[s].key, k) /\ ~ map[s].closing}
  BY <1>1 DEF Deletable, Find
<1>5. \A i \in DOMAIN stack : stack[i].slot # 0 /\ stack[i].slot \in DOMAIN map
  BY <1>2, <1>3 DEF TableInv, Holding, Live, AppRuns
<1>6. CASE Deletable(m, k) = {} /\ map' = m /\ pool' = pool /\ stack' = stack
  <2>1. /\ DOMAIN map' = DOMAIN map
        /\ \A s \in DOMAIN map : /\ map'[s] \in SessionType /\ map'[s].key = map[s].key
                                 /\ map'[s].closing = map[s].closing
    BY <1>1, <1>6
  <2>2. TypeInv' /\ Live' /\ Holding' /\ CloseAlone' /\ NoDangling' /\ PoolIsMap'
    BY <1>2, <1>3, <1>6, <2>1
       DEF TableInv, TypeInv, Live, Holding, CloseAlone, NoDangling, PoolIsMap
  <2>3. KeysDiffer'
    BY <2>1 DEF TableInv, KeysDiffer
  <2>4. UnderTimer'
    BY <1>5, <1>6, <2>1 DEF TableInv, UnderTimer
  <2> QED  BY <2>2, <2>3, <2>4 DEF TableInv
<1>7. ASSUME NEW s \in Deletable(m, k),
             map' = Without(m, s), pool' = pool \ {s}, stack' = Freed(stack, s)
      PROVE  TableInv'
  <2>1. s \in DOMAIN map /\ s \in Slots /\ SameKey(map[s].key, k) /\ ~ map[s].closing
    BY <1>3, <1>4
  <2>2. /\ DOMAIN map' = DOMAIN map \ {s}
        /\ \A t \in DOMAIN map \ {s} : /\ map'[t] \in SessionType
                                       /\ map'[t].key = map[t].key
                                       /\ map'[t].closing = map[t].closing
    BY <1>1, <1>7 DEF Without
  <2>3. \A i \in DOMAIN stack : stack[i].slot # s
    <3>1. s \notin OpenInHand
      BY <1>2, <2>1 DEF Find
    <3> QED  BY <1>5, <2>1, <3>1 DEF OpenInHand, InHand
  <2>4. /\ stack' \in Seq(FrameType) /\ Len(stack') = Len(stack)
        /\ DOMAIN stack' = DOMAIN stack
        /\ \A i \in DOMAIN stack :
              /\ stack'[i].op = stack[i].op /\ stack'[i].slot = stack[i].slot
              /\ stack'[i].todo = stack[i].todo \ {s}
              /\ stack'[i].dangling = (stack[i].dangling \/ stack[i].slot = s)
    BY <1>3, <1>7, <2>1, FreedFacts
  <2>5. TypeInv' /\ PoolIsMap'
    BY <1>2, <1>3, <1>7, <2>2, <2>4 DEF TypeInv, PoolIsMap
  <2>6. Live' /\ Holding'
    BY <1>5, <2>2, <2>3, <2>4 DEF TableInv, Live, Holding
  <2>7. UnderTimer'
    <3> SUFFICES ASSUME NEW i \in DOMAIN stack, NEW j \in DOMAIN stack, j < i,
                        stack[i].op \in {"walk", "close"}
                 PROVE  map'[stack[j].slot].closing
      BY <2>4 DEF UnderTimer
    <3>1. stack[j].slot \in DOMAIN map \ {s}
      BY <1>5, <2>3
    <3>2. map[stack[j].slot].closing
      BY DEF TableInv, UnderTimer
    <3> QED  BY <2>2, <3>1, <3>2
  <2>8. CloseAlone' /\ NoDangling'
    <3>1. CloseAlone'
      BY <2>3, <2>4 DEF TableInv, CloseAlone
    <3>2. NoDangling'
      BY <2>3, <2>4 DEF TableInv, NoDangling
    <3> QED  BY <3>1, <3>2
  <2>9. KeysDiffer'
    BY <2>2 DEF TableInv, KeysDiffer
  <2> QED  BY <2>5, <2>6, <2>7, <2>8, <2>9 DEF TableInv
<1> QED  BY <1>2, <1>6, <1>7
LEMMA TickInv == ASSUME TableInv, Tick  PROVE TableInv'
BY SessionTableAssumption
   DEF Tick, TableInv, TypeInv, Live, Holding, UnderTimer, CloseAlone, KeysDiffer,
       PoolIsMap, NoDangling

LEMMA PeriodGtpTimerInv == ASSUME TableInv, PeriodGtpTimer  PROVE TableInv'
<1> DEFINE fr == Frame("walk", 0, DOMAIN map)
<1>1. /\ AppRuns /\ OpenInHand = {} /\ lag' = 0 /\ map' = Advanced(map)
      /\ stack' = Append(stack, fr) /\ pool' = pool /\ deleted' = deleted
  BY DEF PeriodGtpTimer
<1>2. /\ DOMAIN map' = DOMAIN map
      /\ \A s \in DOMAIN map : /\ map'[s] \in SessionType /\ map'[s].key = map[s].key
                               /\ map'[s].closing = map[s].closing
  BY <1>1, AdvancedFacts DEF TableInv
<1>3. /\ DOMAIN map \subseteq Slots /\ stack \in Seq(FrameType) /\ 0 \in 0 .. Ttl
      /\ Len(stack) \in Nat /\ DOMAIN stack = 1 .. Len(stack)
  BY SessionTableAssumption DEF TableInv, TypeInv
<1>4. /\ fr \in FrameType /\ fr.op = "walk" /\ fr.slot = 0 /\ fr.todo = DOMAIN map
      /\ ~ fr.dangling
  BY <1>3, SessionTableAssumption DEF Frame, FrameType
<1> HIDE DEF fr
<1>5. TypeInv' /\ PoolIsMap'
  BY <1>1, <1>2, <1>3, <1>4, PushFacts DEF TableInv, TypeInv, PoolIsMap
<1>6. Pushed(fr)
  <2>1. \A i \in 1 .. Len(stack) : stack[i].todo \subseteq DOMAIN map
    BY <1>3 DEF TableInv, Live
  <2>2. /\ stack' \in Seq(FrameType) /\ Len(stack') = Len(stack) + 1
        /\ stack'[Len(stack) + 1] = fr
        /\ \A i \in 1 .. Len(stack) : stack'[i] = stack[i]
    BY <1>1, <1>3, <1>4, PushFacts
  <2> QED  BY <1>2, <1>4, <2>1, <2>2 DEF Pushed
<1>7. \A j \in DOMAIN stack : map[stack[j].slot].closing
  <2>1. \A j \in DOMAIN stack : stack[j].slot # 0 /\ stack[j].slot \in DOMAIN map
    BY <1>1, <1>3 DEF TableInv, Holding, Live, AppRuns
  <2> QED  BY <1>1, <2>1 DEF OpenInHand, InHand
<1>8. StackInv'
  BY <1>1, <1>6, <1>7, PushedInv
<1>9. KeysDiffer'
  BY <1>1, <1>2 DEF TableInv, KeysDiffer
<1> QED  BY <1>5, <1>8, <1>9 DEF TableInv, StackInv

\* The frame of a walk that marks a session, and of one that has freed it.
Marked(x, s, op) == [x EXCEPT !.slot = s, !.op = op]

LEMMA MarkedFacts ==
    ASSUME NEW x \in FrameType, NEW s \in 0 .. MaxSession, NEW op \in {"walk", "close"}
    PROVE  /\ Marked(x, s, op) \in FrameType
           /\ Marked(x, s, op).op = op /\ Marked(x, s, op).slot = s
           /\ Marked(x, s, op).todo = x.todo
           /\ Marked(x, s, op).dangling = x.dangling
BY DEF FrameType, Marked

\* The walk comes to a session that nobody below it holds unmarked.
LEMMA WalkVisitInv == ASSUME TableInv, NEW s \in Slots, WalkVisit(s)  PROVE TableInv'
<1> DEFINE n == Len(stack)
<1>1. /\ stack # <<>> /\ Top.op = "walk" /\ s \in Top.todo
      /\ pool' = pool /\ deleted' = deleted /\ lag' = lag
  BY DEF WalkVisit, Walking
<1>2. stack \in Seq(FrameType) /\ n \in Nat \ {0} /\ DOMAIN stack = 1 .. n
  BY <1>1 DEF TableInv, TypeInv
<1>3. Top = stack[n] /\ Top \in FrameType
  BY <1>2 DEF Top
<1>4. s \in DOMAIN map /\ map[s] \in SessionType
  BY <1>1, <1>2, <1>3 DEF TableInv, Live, TypeInv
\* What becomes of the session and of the frame of the walk.
<1>5. \E fr \in FrameType :
         /\ stack' = SetTop(stack, fr)
         /\ fr.todo \subseteq Top.todo /\ fr.dangling = Top.dangling
         /\ \/ map' = map /\ fr.op = "walk" /\ fr.slot \in {0, s}
            \/ /\ map' = [map EXCEPT ![s].closing = TRUE]
               /\ ~ map[s].closing /\ fr.op = "close" /\ fr.slot = s
  <2> DEFINE top == [Top EXCEPT !.todo = @ \ {s}]
             held == [top EXCEPT !.slot = s]
             close == [top EXCEPT !.slot = s, !.op = "close"]
  <2>1. Top.slot = 0
    BY DEF WalkVisit, Walking
  <2>2. /\ top \in FrameType /\ top.todo \subseteq Top.todo /\ top.dangling = Top.dangling
        /\ top.op = "walk" /\ top.slot = 0
    BY <1>1, <1>3, <2>1 DEF FrameType
  <2> HIDE DEF top
  <2>3. /\ held \in FrameType /\ held.todo \subseteq Top.todo
        /\ held.dangling = Top.dangling /\ held.op = "walk" /\ held.slot = s
    BY <2>2 DEF FrameType, Slots
  <2>4. /\ close \in FrameType /\ close.todo \subseteq Top.todo
        /\ close.dangling = Top.dangling /\ close.op = "close" /\ close.slot = s
    <3>1. s \in 0 .. MaxSession
      BY SessionTableAssumption DEF Slots
    <3>2. close = Marked(top, s, "close")
      BY DEF Marked
    <3> HIDE DEF close
    <3> QED  BY <2>2, <3>1, <3>2, MarkedFacts
  <2>5. \/ /\ ~ map[s].closing /\ map' = [map EXCEPT ![s].closing = TRUE]
           /\ stack' = SetTop(stack, close)
        \/ map' = map /\ stack' = SetTop(stack, top)
        \/ map' = map /\ stack' = SetTop(stack, held)
    BY DEF WalkVisit, top
  <2> HIDE DEF held, close
  <2> QED  BY <2>2, <2>3, <2>4, <2>5
<1>6. PICK fr \in FrameType :
         /\ stack' = SetTop(stack, fr)
         /\ fr.todo \subseteq Top.todo /\ fr.dangling = Top.dangling
         /\ \/ map' = map /\ fr.op = "walk" /\ fr.slot \in {0, s}
            \/ /\ map' = [map EXCEPT ![s].closing = TRUE]
               /\ ~ map[s].closing /\ fr.op = "close" /\ fr.slot = s
  BY <1>5
<1>7. /\ DOMAIN map' = DOMAIN map
      /\ \A t \in DOMAIN map : /\ map'[t] \in SessionType /\ map'[t].key = map[t].key
                               /\ map[t].closing => map'[t].closing
  <2>1. CASE map' = map
    BY <2>1 DEF TableInv, TypeInv
  <2>2. CASE map' = [map EXCEPT ![s].closing = TRUE]
    <3> DEFINE e == [map[s] EXCEPT !.closing = TRUE]
    <3>1. DOMAIN map' = DOMAIN map /\ map'[s] = e /\ \A t \in DOMAIN map \ {s} : map'[t] = map[t]
      BY <2>2, <1>4
    <3>2. e \in SessionType /\ e.key = map[s].key /\ e.closing = TRUE
      BY <1>4 DEF SessionType
    <3> HIDE DEF e
    <3> QED  BY <3>1, <3>2 DEF TableInv, TypeInv
  <2> QED  BY <1>6, <2>1, <2>2
<1>8. /\ stack' \in Seq(FrameType) /\ Len(stack') = n /\ DOMAIN stack' = 1 .. n
      /\ stack'[n] = fr /\ \A i \in 1 .. n - 1 : stack'[i] = stack[i]
  <2>1. /\ SetTop(stack, fr) \in Seq(FrameType) /\ Len(SetTop(stack, fr)) = n
        /\ SetTop(stack, fr)[n] = fr /\ \A i \in 1 .. n - 1 : SetTop(stack, fr)[i] = stack[i]
    BY <1>1, <1>2, <1>6, SetTopFacts, Zenon
  <2>2. stack' = SetTop(stack, fr)
    BY <1>6
  <2> QED  BY <1>2, <2>1, <2>2
<1>9. \A j \in 1 .. n - 1 : /\ stack[j].slot # 0 /\ stack[j].slot \in DOMAIN map
                            /\ map[stack[j].slot].closing
  BY <1>1, <1>2, <1>3 DEF TableInv, Holding, Live, UnderTimer
<1>10. TypeInv' /\ PoolIsMap'
  BY <1>1, <1>7, <1>8 DEF TableInv, TypeInv, PoolIsMap
<1>11. Live'
  <2>1. fr.todo \subseteq DOMAIN map /\ (fr.slot # 0 => fr.slot \in DOMAIN map)
    BY <1>2, <1>3, <1>4, <1>6 DEF TableInv, Live
  <2> QED  BY <1>2, <1>7, <1>8, <2>1 DEF TableInv, Live
<1>12. Holding'
  <2>1. fr.op = "close" => fr.slot # 0
    BY <1>6 DEF Slots
  <2> QED  BY <1>2, <1>8, <1>9, <2>1 DEF Holding
<1>13. UnderTimer'
  <2> SUFFICES ASSUME NEW i \in 1 .. n, NEW j \in 1 .. n, j < i,
                      stack'[i].op \in {"walk", "close"}
               PROVE  map'[stack'[j].slot].closing
    BY <1>8 DEF UnderTimer
  <2>1. j \in 1 .. n - 1 /\ stack'[j] = stack[j]
    BY <1>2, <1>8
  <2> QED  BY <2>1, <1>7, <1>9
<1>14. CloseAlone'
  <2> SUFFICES ASSUME NEW i \in 1 .. n, NEW j \in 1 .. n, j < i, stack'[i].op = "close"
               PROVE  stack'[j].slot # stack'[i].slot
    BY <1>8 DEF CloseAlone
  <2>1. j \in 1 .. n - 1 /\ stack'[j] = stack[j]
    BY <1>2, <1>8
  <2>2. CASE i = n
    BY <2>1, <2>2, <1>6, <1>8, <1>9
  <2>3. CASE i # n
    <3>1. i \in 1 .. n - 1
      <4>1. n \in Nat
        BY <1>2
      <4> HIDE DEF n
      <4> QED  BY <2>3, <4>1
    <3>2. stack'[i] = stack[i]
      BY <3>1, <1>8
    <3> QED  BY <2>1, <3>1, <3>2, <1>2 DEF TableInv, CloseAlone
  <2> QED  BY <2>2, <2>3
<1>15. NoDangling'
  <2>1. ~ fr.dangling
    BY <1>2, <1>3, <1>6 DEF TableInv, NoDangling
  <2> QED  BY <1>2, <1>8, <2>1 DEF TableInv, NoDangling
<1>16. KeysDiffer'
  BY <1>1, <1>7 DEF TableInv, KeysDiffer
<1> QED  BY <1>10, <1>11, <1>12, <1>13, <1>14, <1>15, <1>16 DEF TableInv

LEMMA WalkResumesInv == ASSUME TableInv, WalkResumes  PROVE TableInv'
<1> DEFINE n == Len(stack)
           fr == [Top EXCEPT !.slot = 0]
<1>1. /\ stack # <<>> /\ Top.op = "walk" /\ stack' = SetTop(stack, fr)
      /\ map' = map /\ pool' = pool /\ deleted' = deleted /\ lag' = lag
  BY DEF WalkResumes
<1>2. stack \in Seq(FrameType) /\ n \in Nat \ {0} /\ DOMAIN stack = 1 .. n
  BY <1>1 DEF TableInv, TypeInv
<1>3. Top = stack[n] /\ Top \in FrameType
  BY <1>2 DEF Top
<1>4. /\ fr \in FrameType /\ fr.op = "walk" /\ fr.slot = 0 /\ fr.todo = Top.todo
      /\ fr.dangling = Top.dangling
  BY <1>1, <1>3, SessionTableAssumption DEF FrameType
<1> HIDE DEF fr
<1>5. /\ stack' \in Seq(FrameType) /\ Len(stack') = n /\ DOMAIN stack' = 1 .. n
      /\ stack'[n] = fr /\ \A i \in 1 .. n - 1 : stack'[i] = stack[i]
  <2>1. /\ SetTop(stack, fr) \in Seq(FrameType) /\ Len(SetTop(stack, fr)) = n
        /\ SetTop(stack, fr)[n] = fr /\ \A i \in 1 .. n - 1 : SetTop(stack, fr)[i] = stack[i]
    BY <1>1, <1>2, <1>4, SetTopFacts, Zenon
  <2> QED  BY <1>1, <1>2, <2>1
<1>6. TypeInv' /\ PoolIsMap' /\ KeysDiffer'
  BY <1>1, <1>5 DEF TableInv, TypeInv, PoolIsMap, KeysDiffer
<1>7. Live'
  BY <1>1, <1>2, <1>3, <1>4, <1>5 DEF TableInv, Live
<1>8. Holding'
  BY <1>2, <1>4, <1>5 DEF TableInv, Holding
<1>9. UnderTimer'
  <2> SUFFICES ASSUME NEW i \in 1 .. n, NEW j \in 1 .. n, j < i,
                      stack'[i].op \in {"walk", "close"}
               PROVE  map[stack'[j].slot].closing
    BY <1>1, <1>5 DEF UnderTimer
  <2>1. j \in 1 .. n - 1 /\ stack'[j] = stack[j]
    BY <1>2, <1>5
  <2>2. stack[i].op \in {"walk", "close"}
    BY <1>1, <1>2, <1>3, <1>5
  <2> QED  BY <2>1, <2>2, <1>2 DEF TableInv, UnderTimer
<1>10. CloseAlone'
  BY <1>2, <1>4, <1>5 DEF TableInv, CloseAlone
<1>11. NoDangling'
  BY <1>2, <1>3, <1>4, <1>5 DEF TableInv, NoDangling
<1> QED  BY <1>6, <1>7, <1>8, <1>9, <1>10, <1>11 DEF TableInv

\* The session that is freed is held by the walk alone.
LEMMA WalkClosesInv == ASSUME TableInv, WalkCloses  PROVE TableInv'
<1> DEFINE n == Len(stack)
           s == Top.slot
           fr == [Top EXCEPT !.slot = 0, !.op = "walk"]
           st == SetTop(stack, fr)
<1>1. /\ stack # <<>> /\ Top.op = "close"
      /\ map' = Without(map, s) /\ pool' = pool \ {s} /\ stack' = Freed(st, s)
      /\ deleted' = deleted /\ lag' = lag
  BY DEF WalkCloses
<1>2. stack \in Seq(FrameType) /\ n \in Nat \ {0} /\ DOMAIN stack = 1 .. n
  BY <1>1 DEF TableInv, TypeInv
<1>3. Top = stack[n] /\ Top \in FrameType
  BY <1>2 DEF Top
<1>4. s # 0 /\ s \in DOMAIN map /\ s \in Slots
  BY <1>1, <1>2, <1>3 DEF TableInv, Holding, Live, TypeInv
<1>5. /\ fr \in FrameType /\ fr.op = "walk" /\ fr.slot = 0 /\ fr.todo = Top.todo
      /\ fr.dangling = Top.dangling
  <2>1. 0 \in 0 .. MaxSession
    BY SessionTableAssumption
  <2>2. fr = Marked(Top, 0, "walk")
    BY DEF Marked
  <2> HIDE DEF fr
  <2> QED  BY <1>3, <2>1, <2>2, MarkedFacts
<1> HIDE DEF fr, s
<1>6. /\ st \in Seq(FrameType) /\ Len(st) = n
      /\ st[n] = fr /\ \A i \in 1 .. n - 1 : st[i] = stack[i]
  BY <1>1, <1>2, <1>5, SetTopFacts
<1> HIDE DEF st
<1>7. /\ stack' \in Seq(FrameType) /\ Len(stack') = n /\ DOMAIN stack' = 1 .. n
      /\ \A i \in 1 .. n : /\ stack'[i].op = st[i].op /\ stack'[i].slot = st[i].slot
                           /\ stack'[i].todo = st[i].todo \ {s}
                           /\ stack'[i].dangling = (st[i].dangling \/ st[i].slot = s)
  BY <1>1, <1>4, <1>6, FreedFacts
<1>8. \A j \in 1 .. n - 1 : /\ stack[j].slot # 0 /\ stack[j].slot # s
                            /\ stack[j].slot \in DOMAIN map
                            /\ map[stack[j].slot].closing
  BY <1>1, <1>2, <1>3 DEF TableInv, Holding, Live, UnderTimer, CloseAlone, s
<1>9. /\ DOMAIN map' = DOMAIN map \ {s} /\ \A t \in DOMAIN map \ {s} : map'[t] = map[t]
  BY <1>1 DEF Without
<1>10. TypeInv' /\ PoolIsMap'
  BY <1>1, <1>7, <1>9 DEF TableInv, TypeInv, PoolIsMap
<1>11. KeysDiffer'
  BY <1>1, <1>9 DEF TableInv, KeysDiffer
<1>12. \A j \in 1 .. n - 1 :
          /\ stack'[j].op = stack[j].op /\ stack'[j].slot = stack[j].slot
          /\ stack'[j].todo = stack[j].todo \ {s}
          /\ stack'[j].dangling = (stack[j].dangling \/ stack[j].slot = s)
  BY <1>2, <1>6, <1>7
<1>13. /\ stack'[n].op = "walk" /\ stack'[n].slot = 0 /\ stack'[n].todo = Top.todo \ {s}
       /\ stack'[n].dangling = (Top.dangling \/ 0 = s)
  BY <1>2, <1>5, <1>6, <1>7
<1>14. Live'
  <2>1. \A i \in 1 .. n : stack'[i].todo \subseteq DOMAIN map \ {s}
    BY <1>2, <1>3, <1>12, <1>13 DEF TableInv, Live
  <2> QED  BY <2>1, <1>2, <1>7, <1>8, <1>9, <1>12, <1>13 DEF Live
<1>15. Holding'
  BY <1>2, <1>7, <1>8, <1>12, <1>13 DEF Holding
<1>16. UnderTimer'
  <2> SUFFICES ASSUME NEW i \in 1 .. n, NEW j \in 1 .. n, j < i
               PROVE  map'[stack'[j].slot].closing
    BY <1>7 DEF UnderTimer
  <2>1. j \in 1 .. n - 1
    BY <1>2
  <2> QED  BY <2>1, <1>8, <1>9, <1>12
<1>17. CloseAlone'
  <2> SUFFICES ASSUME NEW i \in 1 .. n, NEW j \in 1 .. n, j < i, stack'[i].op = "close"
               PROVE  stack'[j].slot # stack'[i].slot
    BY <1>7 DEF CloseAlone
  <2>1. i # n
    BY <1>13
  <2>2. i \in 1 .. n - 1
    <3> HIDE DEF n
    <3> QED  BY <2>1, <1>2
  <2>3. j \in 1 .. n - 1
    BY <1>2
  <2> QED  BY <2>2, <2>3, <1>2, <1>12 DEF TableInv, CloseAlone
<1>18. NoDangling'
  <2>1. \A i \in 1 .. n - 1 : ~ stack'[i].dangling
    <3> TAKE i \in 1 .. n - 1
    <3>1. i \in DOMAIN stack /\ stack[i].slot # s
      BY <1>2, <1>8
    <3>2. ~ stack[i].dangling
      BY <3>1 DEF TableInv, NoDangling
    <3>3. stack'[i].dangling = (stack[i].dangling \/ stack[i].slot = s)
      BY <1>12
    <3> QED  BY <3>1, <3>2, <3>3, Zenon
  <2>2. ~ stack'[n].dangling
    <3>1. ~ Top.dangling
      BY <1>2, <1>3 DEF TableInv, NoDangling
    <3> QED  BY <3>1, <1>4, <1>13, Zenon
  <2> QED  BY <2>1, <2>2, <1>2, <1>7 DEF NoDangling
<1> QED  BY <1>10, <1>11, <1>14, <1>15, <1>16, <1>17, <1>18 DEF TableInv

-----------------------------------------------------------------------------
LEMMA TableInit == Init => TableInv
BY SessionTableAssumption
   DEF Init, TableInv, TypeInv, Live, Holding, UnderTimer, CloseAlone, KeysDiffer,
       PoolIsMap, NoDangling

LEMMA EmbeddedKeyFacts ==
    ASSUME NEW f \in Flows, NEW kind
    PROVE  EmbeddedKey(f, kind) \in Nat /\ f.key \in Nat
<1>1. f \in [addr : Addrs, key : Keys \cup {0}, token : Nat] /\ Keys \subseteq Nat
  BY SessionTableAssumption
<1>2. f.key \in Keys \cup {0} /\ f.token \in Nat
  BY <1>1
<1>3. f.key \in Nat
  <2>1. \A k \in Keys \cup {0} : k \in Nat
    BY <1>1
  <2> QED  BY <1>2, <2>1
<1> QED  BY <1>2, <1>3 DEF EmbeddedKey

LEMMA TableNext == TableInv /\ [Next]_vars => TableInv'
<1> SUFFICES ASSUME TableInv, [Next]_vars  PROVE TableInv'
  OBVIOUS
<1>1. CASE Tick
  BY <1>1, TickInv
<1>2. ASSUME NEW f \in Flows, GtpFrameSend(f)  PROVE TableInv'
  BY <1>2, EnterInv, EmbeddedKeyFacts DEF GtpFrameSend
<1>3. ASSUME NEW f \in Flows, NEW kind \in Kinds, GtpPacketReceive(f, kind)
      PROVE  TableInv'
  <2>1. (kind = "data") \in BOOLEAN /\ EmbeddedKey(f, kind) \in Nat
    BY EmbeddedKeyFacts
  <2>2. Enter("receive", f, EmbeddedKey(f, kind), kind = "data")
    BY <1>3 DEF GtpPacketReceive
  <2> QED  BY <2>1, <2>2, EnterInv
<1>4. CASE HandlerReturns \/ WalkEnds
  BY <1>4, PopInv DEF HandlerReturns, WalkEnds, Walking
<1>5. ASSUME NEW f \in Flows, DelGtpLinker(f)  PROVE TableInv'
  BY <1>5, DelGtpLinkerInv
<1>6. CASE PeriodGtpTimer
  BY <1>6, PeriodGtpTimerInv
<1>7. ASSUME NEW s \in Slots, WalkVisit(s)  PROVE TableInv'
  BY <1>7, WalkVisitInv
<1>8. CASE WalkResumes
  BY <1>8, WalkResumesInv
<1>9. CASE WalkCloses
  BY <1>9, WalkClosesInv
<1>10. CASE UNCHANGED vars
  BY <1>10 DEF vars, TableInv, TypeInv, Live, Holding, UnderTimer, CloseAlone,
               KeysDiffer, PoolIsMap, NoDangling
<1> QED  BY <1>1, <1>2, <1>3, <1>4, <1>5, <1>6, <1>7, <1>8, <1>9, <1>10 DEF Next

\* What a function in progress holds is in the map, and while a timer walks the
\* sessions held below it are marked: the table keeps this whatever the
\* callbacks of the application call.
THEOREM TableInvariance == Spec => []TableInv
BY TableInit, TableNext, PTL DEF Spec

\* No function of the library uses a session that was freed while it was
\* calling back, however deep the callbacks are nested.
THEOREM NothingDangles == Spec => []NoDangling
<1>1. TableInv => NoDangling
  BY DEF TableInv
<1> QED  BY <1>1, TableInvariance, PTL

\* No session memory is leaked by BuildNewSession, DelSpsSessionByKey or
\* CheckResourceActiveStatus, and none is given back twice.
THEOREM PoolMatchesMap == Spec => []PoolIsMap
<1>1. TableInv => PoolIsMap
  BY DEF TableInv
<1> QED  BY <1>1, TableInvariance, PTL

-----------------------------------------------------------------------------
(* Streams and sessions.                                                   *)

\* Without tokens the three kinds of packet of a stream carry the same key.
LEMMA OneKeyPerStream ==
    ASSUME TokensUnused, NEW f \in Flows, NEW kind
    PROVE  EmbeddedKey(f, kind) = f.key
BY DEF TokensUnused, EmbeddedKey

\* A stream leads to no session but one that has its own key.
LEMMA FoundIsOwn ==
    ASSUME UsersKeyed, NEW f \in Flows, NEW s \in Find(map, KeyOf(f, f.key))
    PROVE  /\ f.key # 0 => map[s].key.third /\ map[s].key.num = f.key
           /\ f.key = 0 => map[s].key = FiveTupleKey(f.addr)
<1>1. s \in DOMAIN map /\ SameKey(map[s].key, KeyOf(f, f.key))
  BY DEF Find
<1>2. f.key \in Keys \cup {0} /\ f.addr \in Addrs
  <2>1. f \in [addr : Addrs, key : Keys \cup {0}, token : Nat]
    BY SessionTableAssumption
  <2> QED  BY <2>1
<1>3. \A a \in Addrs : AddrKey[a] \notin Keys
  BY SessionTableAssumption
<1>4. CASE map[s].key.third /\ map[s].key.num \in Keys
  <2>1. f.key # 0
    BY <1>1, <1>2, <1>3, <1>4 DEF SameKey, KeyOf, FiveTupleKey
  <2> QED  BY <1>1, <1>4, <2>1 DEF SameKey, KeyOf, StreamKey
<1>5. ASSUME NEW a \in Addrs, map[s].key = FiveTupleKey(a)
      PROVE  f.key = 0 /\ a = f.addr
  <2>1. map[s].key.num = AddrKey[a] /\ map[s].key.third = FALSE /\ map[s].key.addr = {a}
    BY <1>5 DEF FiveTupleKey
  <2>2. f.key = 0
    BY <1>1, <1>2, <1>3, <2>1 DEF SameKey, KeyOf, StreamKey
  <2> QED  BY <1>1, <2>1, <2>2 DEF SameKey, KeyOf, FiveTupleKey
<1> QED  BY <1>1, <1>4, <1>5 DEF UsersKeyed

LEMMA EnterKeyed ==
    ASSUME TableInv, UsersKeyed, NEW op \in {"send", "receive"}, NEW f \in Flows,
           NEW active \in BOOLEAN, Enter(op, f, f.key, active)
    PROVE  UsersKeyed'
<1>1. f.key \in Nat /\ f.key \in Keys \cup {0} /\ f.addr \in Addrs
  <2>1. f \in [addr : Addrs, key : Keys \cup {0}, token : Nat]
    BY SessionTableAssumption
  <2> QED  BY <2>1, EmbeddedKeyFacts
<1>2. \/ EnterFailed
      \/ \E s : EnterFound(op, s, f, f.key) \/ EnterBuilt(op, s, f, f.key)
  BY <1>1, EnterFacts
<1>3. 0 \notin DOMAIN map
  BY DEF TableInv, TypeInv, Slots
<1>4. CASE EnterFailed
  BY <1>3, <1>4 DEF EnterFailed, Kept, UsersKeyed
<1>5. ASSUME NEW s, EnterFound(op, s, f, f.key)  PROVE UsersKeyed'
  <2>1. /\ s \in Find(map, KeyOf(f, f.key)) /\ DOMAIN map' = DOMAIN map
        /\ map'[s].users = map[s].users \cup {f}
        /\ \A t \in DOMAIN map : /\ map'[t].key = map[t].key
                                 /\ t # s => map'[t].users = map[t].users
    BY <1>5 DEF EnterFound, Kept
  <2>2. /\ f.key # 0 => map[s].key.third /\ map[s].key.num = f.key
        /\ f.key = 0 => map[s].key = FiveTupleKey(f.addr)
    BY <2>1, FoundIsOwn
  <2> QED  BY <2>1, <2>2 DEF UsersKeyed
<1>6. ASSUME NEW s, EnterBuilt(op, s, f, f.key)  PROVE UsersKeyed'
  <2>1. /\ DOMAIN map' = DOMAIN map \cup {s} /\ s \notin DOMAIN map
        /\ map'[s].key = KeyOf(f, f.key) /\ map'[s].users = {f}
        /\ \A t \in DOMAIN map : map'[t].key = map[t].key /\ map'[t].users = map[t].users
    BY <1>3, <1>6 DEF EnterBuilt, Kept, TableInv, PoolIsMap
  <2>2. /\ f.key # 0 => KeyOf(f, f.key).third /\ KeyOf(f, f.key).num = f.key
        /\ f.key = 0 => KeyOf(f, f.key) = FiveTupleKey(f.addr)
    BY DEF KeyOf, StreamKey
  <2> QED  BY <1>1, <2>1, <2>2 DEF UsersKeyed
<1> QED  BY <1>2, <1>4, <1>5, <1>6

\* Whatever else happens, a session that stays keeps its key and its users.
LEMMA KeptKeyed ==
    ASSUME UsersKeyed, DOMAIN map' \subseteq DOMAIN map,
           \A t \in DOMAIN map' : map'[t].key = map[t].key /\ map'[t].users = map[t].users
    PROVE  UsersKeyed'
BY DEF UsersKeyed

LEMMA OtherStepsKeep ==
    ASSUME TableInv, [Next]_vars,
           ~ \E f \in Flows : GtpFrameSend(f),
           ~ \E f \in Flows, kind \in Kinds : GtpPacketReceive(f, kind)
    PROVE  /\ DOMAIN map' \subseteq DOMAIN map
           /\ \A t \in DOMAIN map' : map'[t].key = map[t].key /\ map'[t].users = map[t].users
<1> DEFINE m == Advanced(map)
<1>1. /\ DOMAIN m = DOMAIN map
      /\ \A t \in DOMAIN map : m[t].key = map[t].key /\ m[t].users = map[t].users
  BY AdvancedFacts DEF TableInv
<1> HIDE DEF m
<1>2. CASE Tick \/ HandlerReturns \/ WalkResumes \/ WalkEnds \/ UNCHANGED vars
  BY <1>2 DEF Tick, HandlerReturns, WalkResumes, WalkEnds, vars
<1>3. ASSUME NEW f \in Flows, DelGtpLinker(f)
      PROVE  /\ DOMAIN map' \subseteq DOMAIN map
             /\ \A t \in DOMAIN map' : /\ map'[t].key = map[t].key
                                       /\ map'[t].users = map[t].users
  <2>1. map' = m \/ \E s : map' = Without(m, s)
    BY <1>3 DEF DelGtpLinker, m
  <2> QED  BY <1>1, <2>1 DEF Without
<1>4. CASE PeriodGtpTimer
  <2>1. map' = m
    BY <1>4 DEF PeriodGtpTimer, m
  <2> QED  BY <1>1, <2>1
<1>5. ASSUME NEW s \in Slots, WalkVisit(s)
      PROVE  /\ DOMAIN map' \subseteq DOMAIN map
             /\ \A t \in DOMAIN map' : /\ map'[t].key = map[t].key
                                       /\ map'[t].users = map[t].users
  <2>1. map' = map \/ map' = [map EXCEPT ![s].closing = TRUE]
    BY <1>5 DEF WalkVisit
  <2>2. CASE map' = [map EXCEPT ![s].closing = TRUE]
    <3> DEFINE e == [map[s] EXCEPT !.closing = TRUE]
    <3>1. /\ DOMAIN map' = DOMAIN map /\ \A t \in DOMAIN map \ {s} : map'[t] = map[t]
          /\ s \in DOMAIN map => map'[s] = e
      BY <2>2
    <3>2. s \in DOMAIN map => e.key = map[s].key /\ e.users = map[s].users
      BY DEF TableInv, TypeInv, SessionType
    <3> HIDE DEF e
    <3> QED  BY <3>1, <3>2
  <2> QED  BY <2>1, <2>2
<1>6. CASE WalkCloses
  <2>1. \E s : map' = Without(map, s)
    BY <1>6 DEF WalkCloses
  <2> QED  BY <2>1 DEF Without
<1> QED  BY <1>2, <1>3, <1>4, <1>5, <1>6 DEF Next

LEMMA KeyedNext ==
    ASSUME TokensUnused, TableInv, UsersKeyed, [Next]_vars  PROVE UsersKeyed'
<1>1. ASSUME NEW f \in Flows, GtpFrameSend(f)  PROVE UsersKeyed'
  BY <1>1, EnterKeyed DEF GtpFrameSend
<1>2. ASSUME NEW f \in Flows, NEW kind \in Kinds, GtpPacketReceive(f, kind)
      PROVE  UsersKeyed'
  <2>1. (kind = "data") \in BOOLEAN /\ EmbeddedKey(f, kind) = f.key
    BY OneKeyPerStream
  <2>2. Enter("receive", f, f.key, kind = "data")
    BY <1>2, <2>1 DEF GtpPacketReceive
  <2> QED  BY <2>1, <2>2, EnterKeyed
<1> QED  BY <1>1, <1>2, OtherStepsKeep, KeptKeyed

LEMMA FiveTupleKeyFacts ==
    ASSUME NEW a
    PROVE  /\ FiveTupleKey(a).third = FALSE
           /\ \A b : FiveTupleKey(a) = FiveTupleKey(b) => a = b
<1>1. \A x : FiveTupleKey(x).third = FALSE /\ FiveTupleKey(x).addr = {x}
  BY DEF FiveTupleKey
<1>2. ASSUME NEW b, FiveTupleKey(a) = FiveTupleKey(b)  PROVE a = b
  <2>1. {a} = {b}
    BY <1>1, <1>2
  <2> QED  BY <2>1
<1> QED  BY <1>1, <1>2

LEMMA KeyedIsOne ==
    ASSUME TableInv, UsersKeyed  PROVE OneSessionPerStream
<1>1. ASSUME NEW s \in DOMAIN map, NEW f \in map[s].users, NEW g \in map[s].users
      PROVE  f.key = g.key /\ (f.key = 0 => f.addr = g.addr)
  <2>1. /\ f.key # 0 => map[s].key.third /\ map[s].key.num = f.key
        /\ f.key = 0 => map[s].key = FiveTupleKey(f.addr)
        /\ g.key # 0 => map[s].key.third /\ map[s].key.num = g.key
        /\ g.key = 0 => map[s].key = FiveTupleKey(g.addr)
    BY <1>1 DEF UsersKeyed
  <2>2. CASE f.key # 0
    BY <2>1, <2>2, FiveTupleKeyFacts
  <2>3. CASE f.key = 0
    BY <2>1, <2>3, FiveTupleKeyFacts
  <2> QED  BY <2>2, <2>3
<1>2. ASSUME NEW s \in DOMAIN map, NEW t \in DOMAIN map,
             NEW f \in map[s].users, NEW g \in map[t].users,
             f.key = g.key, f.key = 0 => f.addr = g.addr
      PROVE  s = t
  <2>1. SameKey(map[s].key, map[t].key)
    <3>1. /\ f.key # 0 => map[s].key.third /\ map[s].key.num = f.key
          /\ f.key = 0 => map[s].key = FiveTupleKey(f.addr)
          /\ g.key # 0 => map[t].key.third /\ map[t].key.num = g.key
          /\ g.key = 0 => map[t].key = FiveTupleKey(g.addr)
      BY <1>2 DEF UsersKeyed
    <3>2. CASE f.key # 0
      BY <1>2, <3>1, <3>2 DEF SameKey
    <3>3. CASE f.key = 0
      <4>1. map[s].key = map[t].key
        BY <1>2, <3>1, <3>3
      <4> QED  BY <4>1 DEF SameKey
    <3> QED  BY <3>2, <3>3
  <2> QED  BY <2>1 DEF TableInv, KeysDiffer
<1> QED  BY <1>1, <1>2 DEF OneSessionPerStream

\* As long as GtpFrameSend is given no token for a stream without stream key
\* (no caller in the repository gives one), a session serves one stream and a
\* stream has one session, whatever numbers the five-tuples collide on.
THEOREM StreamsKeptApart == TokensUnused => (Spec => []OneSessionPerStream)
<1> SUFFICES ASSUME TokensUnused  PROVE Spec => []OneSessionPerStream
  OBVIOUS
<1>1. Init => UsersKeyed
  BY DEF Init, UsersKeyed
<1>2. TableInv /\ UsersKeyed /\ [Next]_vars => UsersKeyed'
  BY KeyedNext
<1>3. TableInv /\ UsersKeyed => OneSessionPerStream
  BY KeyedIsOne
<1> QED  BY <1>1, <1>2, <1>3, TableInvariance, PTL DEF Spec

-----------------------------------------------------------------------------
(* The handshake.                                                           *)


\* Resets by the handshake: how long the receiver runs against their distance.
SpacedInv == ~hist.close /\ (rcv.running => rcv.sync <= hist.age)

\* The sender's first session.
StableInv ==
    /\ ~hist.reset
    /\ ~snd.running => ~rcv.running /\ \A p \in data : p.init
    /\ rcv.running => \A p \in data : p.init => rcv.sync <= p.age

SyncInv == TypeOK /\ SpacedInv /\ (snd.life = 1 => StableInv)

-----------------------------------------------------------------------------
(* What the handlers do to the receiver's session, one lemma per question.  *)

\* Counting up to a limit stays below it and keeps the order of two clocks.
LEMMA OlderFacts ==
    ASSUME NEW limit \in Nat, NEW a \in 0 .. limit, NEW b \in 0 .. limit
    PROVE  /\ Older(a, limit) \in 0 .. limit
           /\ Older(a, limit) <= a + 1
           /\ a <= b => Older(a, limit) <= Older(b, limit)
BY DEF Older

\* A session that has just been built does not run, and one that runs was found.
LEMMA NewReceiverFacts ==
    ASSUME NEW up \in BOOLEAN
    PROVE  NewReceiver(up) \in RcvType /\ ~NewReceiver(up).running
BY SyncAssumption DEF RcvType, NewReceiver

LEMMA SessionFacts ==
    ASSUME TypeOK
    PROVE  /\ Session \in RcvType
           /\ Session.running => rcv.running /\ Session.sync = rcv.sync
BY NewReceiverFacts DEF TypeOK, Session

\* An unmarked packet makes the receiver run, from now on if it did not.
LEMMA UnmarkedFacts ==
    ASSUME NEW r \in RcvType
    PROVE  /\ Unmarked(r) \in RcvType
           /\ Unmarked(r).sync = 0 \/ (r.running /\ Unmarked(r).sync = r.sync)
<1>1. CASE r.running
  BY <1>1 DEF Unmarked
<1>2. CASE ~r.running
  <2>1. Unmarked(r) = [r EXCEPT !.running = TRUE, !.sync = 0]
    BY <1>2 DEF Unmarked
  <2>2. 0 \in 0 .. SyncPeriod
    BY SyncAssumption
  <2>3. [r EXCEPT !.running = TRUE, !.sync = 0] \in RcvType
    BY <2>2 DEF RcvType
  <2>4. [r EXCEPT !.running = TRUE, !.sync = 0].sync = 0
    BY DEF RcvType
  <2> QED  BY <2>1, <2>3, <2>4
<1> QED  BY <1>1, <1>2

\* The handshake: the receiver that runs after it ran before, or has just
\* started to with an unmarked packet.
LEMMA HandshakeFacts ==
    ASSUME NEW r \in RcvType, NEW p \in DataType
    PROVE  /\ Handshake(r, p) \in RcvType
           /\ Handshake(r, p).running =>
                 \/ r.running /\ Handshake(r, p).sync = r.sync
                 \/ ~p.init /\ Handshake(r, p).sync = 0
           /\ InitResets(r, p) => ~Handshake(r, p).running
<1>1. CASE InitResets(r, p)
  BY <1>1 DEF Handshake, InitResets, ResetSession, RcvType
<1>2. CASE ~InitResets(r, p) /\ p.init
  BY <1>2 DEF Handshake
<1>3. CASE ~InitResets(r, p) /\ ~p.init
  BY <1>3, UnmarkedFacts DEF Handshake
<1> QED  BY <1>1, <1>2, <1>3 DEF DataType

-----------------------------------------------------------------------------
LEMMA InitInv == SyncInit => SyncInv
<1> SUFFICES ASSUME SyncInit PROVE SyncInv
  OBVIOUS
<1>1. snd \in SndType
  BY SyncAssumption DEF SyncInit, NewSender, SndType
<1>2. rcv \in RcvType /\ ~rcv.running
  BY NewReceiverFacts DEF SyncInit
<1>3. hist \in HistType /\ ~hist.close /\ ~hist.reset
  BY SyncAssumption DEF SyncInit, HistType
<1>4. data = {} /\ acks = {}
  BY DEF SyncInit
<1> QED  BY <1>1, <1>2, <1>3, <1>4 DEF SyncInv, TypeOK, SpacedInv, StableInv

\* A packet that is sent is well typed, and marked unless the sender runs.
LEMMA PacketFacts ==
    ASSUME TypeOK, NEW kind \in {"data", "rtt"}
    PROVE  /\ Packet(kind) \in DataType
           /\ Packet(kind).init = ~snd.running
           /\ Packet(kind).age = 0
BY SyncAssumption DEF TypeOK, SndType, DataType, Packet

LEMMA SendInv == SyncInv /\ (SendData \/ SendRtt) => SyncInv'
<1> SUFFICES ASSUME SyncInv, NEW kind \in {"data", "rtt"},
                    data' = data \cup {Packet(kind)},
                    snd' \in SndType, snd'.life = snd.life, snd'.running = snd.running,
                    UNCHANGED <<rcv, acks, hist>>
             PROVE  SyncInv'
  BY DEF SendData, SendRtt, SyncInv, TypeOK, SndType
<1>1. TypeOK' /\ SpacedInv'
  BY PacketFacts DEF SyncInv, TypeOK, SpacedInv
<1>2. snd.life = 1 => StableInv'
  BY PacketFacts DEF SyncInv, TypeOK, StableInv, SndType, RcvType
<1> QED  BY <1>1, <1>2 DEF SyncInv

LEMMA SendFeedbackInv == SyncInv /\ SendFeedback => SyncInv'
<1> SUFFICES ASSUME SyncInv, SendFeedback PROVE SyncInv'
  OBVIOUS
<1>1. [init |-> ~rcv.running, age |-> 0] \in AckType
  BY SyncAssumption DEF AckType
<1> QED  BY <1>1 DEF SendFeedback, SyncInv, TypeOK, SpacedInv, StableInv

LEMMA ReceiveFeedbackInv ==
    ASSUME SyncInv, NEW a \in acks, ReceiveFeedback(a)  PROVE SyncInv'
<1>1. /\ snd' \in SndType /\ snd'.life = snd.life /\ (snd.running => snd'.running)
      /\ acks' \subseteq acks /\ UNCHANGED <<rcv, data, hist>>
  BY DEF ReceiveFeedback, SyncInv, TypeOK, SndType, AckType
<1> QED  BY <1>1 DEF SyncInv, TypeOK, SpacedInv, StableInv

LEMMA ReceiveRttInv ==
    ASSUME SyncInv, NEW p \in data, ReceiveRtt(p)  PROVE SyncInv'
<1>1. /\ data' \subseteq data /\ UNCHANGED <<snd, acks, hist>>
      /\ rcv' = IF p.init THEN Session ELSE Unmarked(Session)
      /\ p \in DataType
  BY DEF ReceiveRtt, SyncInv, TypeOK
<1>2. /\ rcv' \in RcvType
      /\ rcv'.running => \/ rcv.running /\ rcv'.sync = rcv.sync
                         \/ ~p.init /\ rcv'.sync = 0
  BY <1>1, SessionFacts, UnmarkedFacts DEF SyncInv, DataType
<1>3. TypeOK' /\ SpacedInv'
  BY <1>1, <1>2 DEF SyncInv, TypeOK, SpacedInv, HistType
<1>4. snd.life = 1 => StableInv'
  BY <1>1, <1>2 DEF SyncInv, TypeOK, StableInv, DataType
<1> QED  BY <1>1, <1>3, <1>4 DEF SyncInv

LEMMA ReceiveDataInv ==
    ASSUME SyncInv, NEW p \in data, ReceiveData(p)  PROVE SyncInv'
<1> DEFINE init == InitResets(Session, p)
<1>1. /\ data' \subseteq data /\ UNCHANGED <<snd, acks>>
      /\ rcv' = Handshake(Session, p)
      /\ p \in DataType
      /\ hist' = [hist EXCEPT !.reset = @ \/ init,
                              !.close = @ \/ (init /\ hist.age < SyncPeriod),
                              !.age = IF init THEN 0 ELSE @]
  BY DEF ReceiveData, SyncInv, TypeOK
<1>2. Session \in RcvType
  BY SessionFacts DEF SyncInv
<1>3. rcv' \in RcvType
  BY <1>1, <1>2, HandshakeFacts
<1>4. /\ rcv'.running => \/ rcv.running /\ rcv'.sync = rcv.sync
                         \/ ~p.init /\ rcv'.sync = 0
      /\ init => ~rcv'.running
  BY <1>1, <1>2, <1>3, SessionFacts, HandshakeFacts DEF SyncInv
<1>5. init => p.init /\ rcv.running /\ rcv.sync >= SyncPeriod
  BY SessionFacts DEF InitResets, SyncInv
<1>6. TypeOK'
  <2>1. hist' \in HistType
    <3>1. init \in BOOLEAN /\ hist \in HistType
      BY DEF InitResets, SyncInv, TypeOK
    <3> HIDE DEF init
    <3> DEFINE cl == hist.close \/ (init /\ hist.age < SyncPeriod)
               rs == hist.reset \/ init
               ag == IF init THEN 0 ELSE hist.age
    <3>2. cl \in BOOLEAN /\ rs \in BOOLEAN /\ ag \in 0 .. SyncPeriod
      BY <3>1, SyncAssumption DEF HistType
    <3>3. hist' = [hist EXCEPT !.reset = rs, !.close = cl, !.age = ag]
      BY <1>1
    <3> HIDE DEF cl, rs, ag
    <3> QED  BY <1>1, <3>1, <3>2, <3>3 DEF HistType
  <2> QED  BY <1>1, <1>3, <2>1 DEF SyncInv, TypeOK
<1>7. SpacedInv'
  <2>1. init => hist.age >= SyncPeriod
    BY <1>5, SyncAssumption DEF SyncInv, SpacedInv, TypeOK, RcvType, HistType
  <2>2. ~hist'.close
    <3>1. hist'.close = (hist.close \/ (init /\ hist.age < SyncPeriod))
      BY <1>1 DEF SyncInv, TypeOK, HistType
    <3>2. hist.age \in Int /\ ~hist.close
      BY DEF SyncInv, TypeOK, HistType, SpacedInv
    <3>3. ~(init /\ hist.age < SyncPeriod)
      BY <2>1, <3>2, SyncAssumption
    <3> QED  BY <3>1, <3>2, <3>3
  <2>3. ~init => hist'.age = hist.age
    BY <1>1 DEF SyncInv, TypeOK, HistType
  <2>4. rcv'.running => rcv'.sync <= hist'.age
    BY <1>4, <2>3 DEF SyncInv, SpacedInv, TypeOK, HistType
  <2> QED  BY <2>2, <2>4 DEF SpacedInv
<1>8. ASSUME snd.life = 1 PROVE StableInv'
  <2>1. StableInv
    BY <1>8 DEF SyncInv
  <2>2. ~init
    <3>1. SUFFICES ASSUME init PROVE FALSE
      OBVIOUS
    <3>2. rcv.sync <= p.age
      BY <1>5, <2>1, <3>1 DEF StableInv
    <3> QED  BY <1>1, <1>5, <3>1, <3>2, SyncAssumption DEF DataType, SyncInv, TypeOK, RcvType
  <2>3. ~hist'.reset
    BY <1>1, <2>1, <2>2 DEF StableInv, SyncInv, TypeOK, HistType
  <2>4. ~snd'.running => ~rcv'.running /\ \A q \in data' : q.init
    BY <1>1, <1>4, <2>1 DEF StableInv
  <2>5. rcv'.running => \A q \in data' : q.init => rcv'.sync <= q.age
    BY <1>1, <1>4, <2>1 DEF StableInv, DataType, SyncInv, TypeOK
  <2> QED  BY <2>3, <2>4, <2>5 DEF StableInv
<1> QED  BY <1>1, <1>6, <1>7, <1>8 DEF SyncInv

LEMMA RecreateSenderInv == SyncInv /\ RecreateSender => SyncInv'
BY SyncAssumption
   DEF RecreateSender, NewSender, SyncInv, TypeOK, SpacedInv, SndType

LEMMA LoseReceiverInv == SyncInv /\ LoseReceiver => SyncInv'
<1> SUFFICES ASSUME SyncInv, LoseReceiver PROVE SyncInv'
  OBVIOUS
<1>1. rcv' \in RcvType /\ ~rcv'.running
  BY NewReceiverFacts DEF LoseReceiver
<1>2. /\ hist' \in HistType /\ hist'.close = hist.close /\ hist'.reset = hist.reset
      /\ UNCHANGED <<snd, data, acks>>
  BY SyncAssumption DEF LoseReceiver, SyncInv, TypeOK, HistType
<1> QED  BY <1>1, <1>2 DEF SyncInv, TypeOK, SpacedInv, StableInv

LEMMA SyncTickInv == SyncInv /\ SyncTick => SyncInv'
<1> SUFFICES ASSUME SyncInv, SyncTick PROVE SyncInv'
  OBVIOUS
<1>1. /\ rcv' \in RcvType /\ rcv'.running = rcv.running
      /\ rcv'.sync = Older(rcv.sync, SyncPeriod)
  BY OlderFacts, SyncAssumption DEF SyncTick, SyncInv, TypeOK, RcvType
<1>2. /\ hist' \in HistType /\ hist'.close = hist.close /\ hist'.reset = hist.reset
      /\ hist'.age = Older(hist.age, SyncPeriod)
  BY OlderFacts, SyncAssumption DEF SyncTick, SyncInv, TypeOK, HistType
<1>3. \A q \in data' : q \in DataType /\ \E p \in data : q.init = p.init /\ q.age = p.age + 1
  BY SyncAssumption DEF SyncTick, Aged, SyncInv, TypeOK, DataType
<1>4. acks' \subseteq AckType /\ UNCHANGED snd
  BY SyncAssumption DEF SyncTick, Aged, SyncInv, TypeOK, AckType
<1>5. TypeOK'
  BY <1>1, <1>2, <1>3, <1>4 DEF SyncInv, TypeOK
<1>6. SpacedInv'
  BY <1>1, <1>2, OlderFacts, SyncAssumption DEF SyncInv, SpacedInv, TypeOK, RcvType, HistType
<1>7. snd.life = 1 => StableInv'
  <2>1. rcv.sync \in Int /\ rcv'.sync <= rcv.sync + 1 /\ rcv'.sync \in Int
    BY <1>1, OlderFacts, SyncAssumption DEF SyncInv, TypeOK, RcvType
  <2>2. data \subseteq DataType
    BY DEF SyncInv, TypeOK
  <2> QED  BY <1>1, <1>2, <1>3, <1>4, <2>1, <2>2 DEF SyncInv, StableInv, DataType
<1> QED  BY <1>4, <1>5, <1>6, <1>7 DEF SyncInv

-----------------------------------------------------------------------------
\* SyncInv is an invariant of the handshake.
THEOREM SyncInvariance == SyncSpec => []SyncInv
<1>1. SyncInv /\ [SyncNext]_syncVars => SyncInv'
  <2> SUFFICES ASSUME SyncInv, [SyncNext]_syncVars PROVE SyncInv'
    OBVIOUS
  <2>1. CASE SendData \/ SendRtt
    BY <2>1, SendInv
  <2>2. CASE SendFeedback
    BY <2>2, SendFeedbackInv
  <2>3. CASE \E p \in data : ReceiveData(p) \/ ReceiveRtt(p)
    BY <2>3, ReceiveDataInv, ReceiveRttInv
  <2>4. CASE \E a \in acks : ReceiveFeedback(a)
    BY <2>4, ReceiveFeedbackInv
  <2>5. CASE RecreateSender
    BY <2>5, RecreateSenderInv
  <2>6. CASE LoseReceiver
    BY <2>6, LoseReceiverInv
  <2>7. CASE SyncTick
    BY <2>7, SyncTickInv
  <2>8. CASE UNCHANGED syncVars
    BY <2>8 DEF syncVars, SyncInv, TypeOK, SpacedInv, StableInv
  <2> QED  BY <2>1, <2>2, <2>3, <2>4, <2>5, <2>6, <2>7, <2>8 DEF SyncNext
<1> QED  BY <1>1, InitInv, PTL DEF SyncSpec

\* The state of both ends and of the network is well typed; in particular no
\* clock and no counter of PackPrepHandler leaves its range.
THEOREM SyncTypeCorrect == SyncSpec => []TypeOK
<1>1. SyncInv => TypeOK
  BY DEF SyncInv
<1> QED  BY <1>1, SyncInvariance, PTL

\* While the sender keeps its session, marked packets that come late or twice
\* never make PackPrepHandler reset the receiver, whatever the network does
\* with packets that live shorter than MIN_SYNC_PERIOD_US.
THEOREM SessionIsStable == SyncSpec => []StableSession
<1>1. SyncInv => StableSession
  BY DEF SyncInv, StableInv, StableSession
<1> QED  BY <1>1, SyncInvariance, PTL

\* Two resets by the handshake are at least MIN_SYNC_PERIOD_US apart.
THEOREM ResetsAreSpaced == SyncSpec => []ResetsSpaced
<1>1. SyncInv => ResetsSpaced
  BY DEF SyncInv, SpacedInv, ResetsSpaced
<1> QED  BY <1>1, SyncInvariance, PTL

-----------------------------------------------------------------------------
(* The link.                                                               *)

WinFields == {"loss", "fdbk", "age", "report", "reported", "disconn", "idle", "rto"}
SesFields == {"young", "alg", "now", "till", "period", "max", "backup", "first", "second",
              "bad", "pending", "since", "boost", "copies", "book", "cur"}

WinOk(w) == DOMAIN w = WinFields /\ w.loss \in Losses /\ w.fdbk \in Losses

SesOk(s) ==
  /\ DOMAIN s = SesFields
  /\ s.max \in Nat /\ s.backup \in Nat /\ s.young \in Nat
  /\ s.bad \in BOOLEAN /\ s.since \in Nat

\* The losses told since the timer of the second ran last are in backup.
Covered == \A i \in 1 .. Second - ses.second + 1 : ses.backup >= trail[i]

\* Losses are in tenths of a percent.
Scale == 0 .. 1000

QualityInv ==
  /\ WinOk(win) /\ SesOk(ses)
  /\ ses.second \in 1 .. Second
  /\ trail \in [1 .. Second -> Scale]
  /\ LossRemembered /\ Covered

-----------------------------------------------------------------------------
(* Maxima.                                                                 *)

LEMMA ScaleFacts == \A x \in Scale : x \in Nat /\ x <= 1000
BY DEF Scale

LEMMA LeastOf ==
    ASSUME NEW T, T \subseteq Nat, T # {}
    PROVE  \E x \in T : \A y \in T : x <= y
<1>1. \E R : /\ \A x, y \in Nat : <<y, x>> \in R <=> y < x
             /\ \E x \in T : \A y \in T : ~ (<<y, x>> \in R)
  <2>1. \E x \in T : \A y \in T : ~ (<<y, x>> \in OpToRel(<, Nat))
    BY NatLessThanWellFounded, WFMin
  <2>2. \A x, y \in Nat : <<y, x>> \in OpToRel(<, Nat) <=> y < x
    BY DEF OpToRel
  <2> QED  BY <2>1, <2>2, Zenon
<1>2. PICK R : /\ \A x, y \in Nat : <<y, x>> \in R <=> y < x
               /\ \E x \in T : \A y \in T : ~ (<<y, x>> \in R)
  BY <1>1
<1>3. PICK x \in T : \A y \in T : ~ (<<y, x>> \in R)
  BY <1>2
<1>4. \A y \in T : ~ (y < x)
  BY <1>2, <1>3
<1> QED  BY <1>4

\* The greatest of a set of losses.
LEMMA MaxOf ==
    ASSUME NEW S, S \subseteq Scale, S # {}
    PROVE  Max(S) \in S /\ \A x \in S : Max(S) >= x
<1> DEFINE T == {1000 - x : x \in S}
<1>0. \A x \in S : x \in Nat /\ x <= 1000
  BY ScaleFacts
<1>1. T \subseteq Nat /\ T # {}
  <2>1. \A x \in S : 1000 - x \in Nat
    BY <1>0
  <2>2. \A y \in T : y \in Nat
    BY <2>1
  <2>3. PICK x \in S : TRUE
    OBVIOUS
  <2>4. 1000 - x \in T
    OBVIOUS
  <2> QED  BY <2>2, <2>4
<1>2. PICK n \in T : \A m \in T : n <= m
  <2> HIDE DEF T
  <2> QED  BY <1>1, LeastOf
<1>3. PICK g \in S : n = 1000 - g
  BY <1>2
<1>4. \A x \in S : g >= x
  <2> TAKE x \in S
  <2>1. 1000 - x \in T
    OBVIOUS
  <2>2. n <= 1000 - x
    <3> HIDE DEF T
    <3> QED  BY <1>2, <2>1
  <2> QED  BY <1>0, <1>3, <2>2
<1> QED  BY <1>4 DEF Max

LEMMA MaxPair ==
    ASSUME NEW a \in Nat, NEW b \in Nat
    PROVE  Max({a, b}) \in Nat /\ Max({a, b}) >= a /\ Max({a, b}) >= b
<1>1. \E x \in {a, b} : \A y \in {a, b} : x >= y
  BY DEF Max
<1>2. Max({a, b}) \in {a, b} /\ \A y \in {a, b} : Max({a, b}) >= y
  BY <1>1 DEF Max
<1> QED  BY <1>2

-----------------------------------------------------------------------------
(* What a report does to the session.                                      *)

\* The losses in T are told to the session s, which becomes t.
Step(s, t, T) ==
  /\ SesOk(t) /\ t.second = s.second
  /\ t.max >= s.max /\ t.backup >= s.backup
  /\ \A l \in T : t.max >= l /\ t.backup >= l

LEMMA StepNone == ASSUME NEW s, SesOk(s)  PROVE Step(s, s, {})
BY DEF Step, SesOk

LEMMA StepJoin ==
    ASSUME NEW s, NEW t, NEW u, NEW T \in SUBSET Losses, NEW U \in SUBSET Losses,
           SesOk(s), Step(s, t, T), Step(t, u, U)
    PROVE  Step(s, u, T \cup U)
<1>1. /\ s.max \in Nat /\ t.max \in Nat /\ u.max \in Nat
      /\ s.backup \in Nat /\ t.backup \in Nat /\ u.backup \in Nat
      /\ Losses \subseteq Nat
  BY QualityAssumption DEF Step, SesOk
<1>2. /\ SesOk(u) /\ u.second = s.second /\ u.max >= s.max /\ u.backup >= s.backup
  BY <1>1 DEF Step
<1>3. \A l \in T \cup U : u.max >= l /\ u.backup >= l
  BY <1>1 DEF Step
<1> QED  BY <1>2, <1>3 DEF Step

\* The switch touches nothing the invariant speaks of.
LEMMA CheckSwitchFacts ==
    ASSUME NEW s, SesOk(s), NEW loss \in Losses, NEW period \in Periods
    PROVE  LET t == CheckSwitch(s, loss, period)
           IN  /\ SesOk(t) /\ t.second = s.second
               /\ t.max = s.max /\ t.backup = s.backup
<1> DEFINE t == CheckSwitch(s, loss, period)
           off == (s.now + period) % Wrap
           late == (s.now + s.period) % Wrap
<1>1. /\ loss \in Nat /\ RmvThreshold \in Nat /\ MaxThreshold \in Nat
      /\ RmvThreshold <= MaxThreshold /\ s.young \in Nat
  BY QualityAssumption DEF SesOk
<1>2. \/ t = s
      \/ t = [s EXCEPT !.alg = FALSE, !.period = period, !.till = off]
      \/ t = [s EXCEPT !.till = late]
      \/ t = [s EXCEPT !.alg = TRUE, !.till = 0]
  BY <1>1 DEF CheckSwitch
<1> HIDE DEF t, off, late
<1>3. /\ DOMAIN t = SesFields /\ t.max = s.max /\ t.backup = s.backup
      /\ t.second = s.second /\ t.young = s.young /\ t.bad = s.bad /\ t.since = s.since
  BY <1>2 DEF SesOk, SesFields
<1> QED  BY <1>3 DEF SesOk, t

\* t differs from s in nothing the invariant speaks of.
Same(s, t) ==
  /\ DOMAIN t = SesFields
  /\ t.max = s.max /\ t.backup = s.backup /\ t.young = s.young /\ t.second = s.second
  /\ t.since \in Nat /\ t.bad \in BOOLEAN

LEMMA NoLossFacts ==
    ASSUME NEW s, DOMAIN s = SesFields, s.since \in Nat, s.bad \in BOOLEAN, NEW pps
    PROVE  Same(s, NoLoss(s, pps))
<1>1. CASE s.bad /\ s.since >= ZeroLossExist
  BY <1>1 DEF NoLoss, Same, SesFields
<1>2. CASE s.bad /\ ~ (s.since >= ZeroLossExist)
  <2>1. s.since < ZeroLossExist
    BY <1>2, QualityAssumption DEF ZeroLossExist
  <2>2. NoLoss(s, pps) = [s EXCEPT !.pending = 0]
    BY <1>2, <2>1 DEF NoLoss
  <2> QED  BY <2>2 DEF Same, SesFields
<1>3. CASE ~ s.bad
  BY <1>3 DEF NoLoss, Same, SesFields
<1> QED  BY <1>1, <1>2, <1>3

LEMMA SomeLossFacts ==
    ASSUME NEW s, DOMAIN s = SesFields, s.since \in Nat, s.bad \in BOOLEAN, NEW pps
    PROVE  Same(s, SomeLoss(s, pps))
BY DEF SomeLoss, Same, SesFields

LEMMA UpdatedMaxLossFacts ==
    ASSUME NEW s, SesOk(s), NEW loss \in Losses
    PROVE  LET t == UpdatedMaxLoss(s, loss)
           IN  /\ SesOk(t) /\ t.second = s.second
               /\ t.max >= s.max /\ t.max >= loss /\ t.backup >= s.backup /\ t.backup >= loss
<1> DEFINE t == UpdatedMaxLoss(s, loss)
           m == Max({s.max, loss})
           b == Max({s.backup, loss})
<1>1. loss \in Nat /\ s.max \in Nat /\ s.backup \in Nat
  BY QualityAssumption DEF SesOk
<1>2. m \in Nat /\ m >= s.max /\ m >= loss
  BY <1>1, MaxPair
<1>3. b \in Nat /\ b >= s.backup /\ b >= loss
  BY <1>1, MaxPair
<1>4. t = [s EXCEPT !.max = m, !.backup = b]
  <2>1. [s EXCEPT !.max = m].backup = s.backup
    BY DEF SesOk, SesFields
  <2> QED  BY <2>1 DEF UpdatedMaxLoss
<1> HIDE DEF m, b
<1>5. /\ DOMAIN t = SesFields /\ t.max = m /\ t.backup = b
      /\ t.second = s.second /\ t.young = s.young
      /\ t.bad = s.bad /\ t.since = s.since
  BY <1>4 DEF SesOk, SesFields
<1> HIDE DEF t
<1> QED  BY <1>2, <1>3, <1>5 DEF SesOk, t

LEMMA CallbackFacts ==
    ASSUME NEW s, SesOk(s), NEW loss \in Losses, NEW env \in Envs
    PROVE  Step(s, LinkQualityCallback(s, loss, env), {loss})
<1> DEFINE c == CheckSwitch(s, loss, env.period)
           u == UpdatedMaxLoss(c, loss)
           v == IF u.max = 0 THEN NoLoss(u, env.pps) ELSE SomeLoss(u, env.pps)
           t == [v EXCEPT !.cur = loss]
<1>1. LinkQualityCallback(s, loss, env) = t
  BY DEF LinkQualityCallback
<1>2. /\ SesOk(c) /\ c.second = s.second /\ c.max = s.max /\ c.backup = s.backup
  BY CheckSwitchFacts DEF Envs
<1> HIDE DEF c
<1>3. /\ SesOk(u) /\ u.second = c.second
      /\ u.max >= c.max /\ u.max >= loss /\ u.backup >= c.backup /\ u.backup >= loss
  BY <1>2, UpdatedMaxLossFacts
<1> HIDE DEF u
<1>4. Same(u, v)
  BY <1>3, NoLossFacts, SomeLossFacts DEF SesOk
<1> HIDE DEF v
<1>5. Same(u, t)
  BY <1>4 DEF Same, SesFields
<1> HIDE DEF t
<1>6. SesOk(t)
  BY <1>3, <1>5 DEF SesOk, Same
<1>7. Step(s, t, {loss})
  BY <1>2, <1>3, <1>5, <1>6 DEF Step, Same
<1> QED  BY <1>1, <1>7

-----------------------------------------------------------------------------
(* What the window does.                                                   *)

\* The session s has come to the state st.
Run(s, st) ==
  /\ DOMAIN st = {"w", "s", "told"}
  /\ WinOk(st.w) /\ st.told \subseteq Losses
  /\ SesOk(s) /\ Step(s, st.s, st.told)

LEMMA ToldFacts ==
    ASSUME NEW s, NEW st, Run(s, st), NEW loss \in Losses, NEW env \in Envs
    PROVE  Run(s, Told(st, loss, env)) /\ Told(st, loss, env).w.reported = TRUE
<1> DEFINE t == Told(st, loss, env)
           x == [st.w EXCEPT !.reported = TRUE, !.idle = 0]
           u == LinkQualityCallback(st.s, loss, env)
<1>1. WinOk(x) /\ x.reported = TRUE
  BY DEF Run, WinOk, WinFields
<1>2. Step(st.s, u, {loss})
  BY CallbackFacts DEF Run, Step
<1> HIDE DEF x, u
<1>3. t.w = x /\ t.s = u /\ t.told = st.told \cup {loss} /\ DOMAIN t = {"w", "s", "told"}
  BY DEF Told, x, u
<1> HIDE DEF t
<1>4. Step(s, u, st.told \cup {loss})
  BY <1>2, StepJoin DEF Run
<1>5. Run(s, t) /\ t.w.reported = TRUE
  BY <1>1, <1>3, <1>4 DEF Run
<1> QED  BY <1>5 DEF t

\* Only the window changes, and says no more than before.
LEMMA WindowFacts ==
    ASSUME NEW s, NEW st, Run(s, st), NEW t, DOMAIN t = {"w", "s", "told"}, WinOk(t.w),
           t.s = st.s, t.told = st.told, t.w.reported = st.w.reported
    PROVE  Run(s, t)
BY DEF Run

LEMMA ReportFacts ==
    ASSUME NEW s, NEW st, Run(s, st), NEW loss \in Losses, NEW env \in Envs
    PROVE  Run(s, Report(st, loss, env))
<1> DEFINE t == Told(st, loss, env)
           r == [t EXCEPT !.w.report = loss]
<1>1. Run(s, t)
  BY ToldFacts
<1>2. Report(st, loss, env) = r
  BY DEF Report
<1> HIDE DEF t
<1>3. /\ DOMAIN r = {"w", "s", "told"} /\ r.s = t.s /\ r.told = t.told
      /\ WinOk(r.w) /\ r.w.reported = t.w.reported
  BY <1>1 DEF Run, WinOk, WinFields
<1> HIDE DEF r
<1> QED  BY <1>1, <1>2, <1>3, WindowFacts

LEMMA ReportNewestFacts ==
    ASSUME NEW s, NEW st, Run(s, st), NEW env \in Envs
    PROVE  Run(s, ReportNewest(st, env))
<1>1. (IF st.w.age <= st.w.rto THEN st.w.fdbk ELSE st.w.loss) \in Losses
  BY DEF Run, WinOk
<1> QED  BY <1>1, ReportFacts DEF ReportNewest

LEMMA PeriodicFacts ==
    ASSUME NEW s, NEW st, Run(s, st), NEW env \in Envs
    PROVE  Run(s, Periodic(st, env))
BY ReportNewestFacts DEF Periodic

LEMMA SetRttUsFacts ==
    ASSUME NEW s, NEW st, Run(s, st), NEW chg, NEW env \in Envs
    PROVE  Run(s, SetRttUs(st, chg, env))
<1> DEFINE t == [st EXCEPT !.w.rto = Span]
<1>1. Run(s, t)
  <2>1. /\ DOMAIN t = {"w", "s", "told"} /\ t.s = st.s /\ t.told = st.told
        /\ WinOk(t.w) /\ t.w.reported = st.w.reported
    BY DEF Run, WinOk, WinFields
  <2> HIDE DEF t
  <2> QED  BY <2>1, WindowFacts
<1>2. SetRttUs(st, chg, env) = IF chg THEN ReportNewest(t, env) ELSE t
  BY DEF SetRttUs
<1> HIDE DEF t
<1> QED  BY <1>1, <1>2, ReportNewestFacts

LEMMA SetFeedBackLossFacts ==
    ASSUME NEW s, NEW st, Run(s, st), NEW loss \in Losses, NEW rtt, NEW env \in Envs
    PROVE  Run(s, SetFeedBackLoss(st, loss, rtt, env))
<1> DEFINE heard == [st EXCEPT !.w.fdbk = loss, !.w.age = 0]
           timed == IF rtt = "none" THEN heard ELSE SetRttUs(heard, rtt = "chg", env)
<1>1. Run(s, heard)
  <2>1. /\ DOMAIN heard = {"w", "s", "told"} /\ heard.s = st.s /\ heard.told = st.told
        /\ WinOk(heard.w) /\ heard.w.reported = st.w.reported
    BY DEF Run, WinOk, WinFields
  <2> HIDE DEF heard
  <2> QED  BY <2>1, WindowFacts
<1>2. \/ SetFeedBackLoss(st, loss, rtt, env) = timed
      \/ SetFeedBackLoss(st, loss, rtt, env) = Report(timed, loss, env)
  BY DEF SetFeedBackLoss
<1> HIDE DEF heard
<1>3. Run(s, timed)
  BY <1>1, SetRttUsFacts
<1> HIDE DEF timed
<1> QED  BY <1>2, <1>3, ReportFacts

LEMMA CalcSndLossFacts ==
    ASSUME NEW s, NEW st, Run(s, st), NEW loss \in Losses, NEW env \in Envs
    PROVE  Run(s, CalcSndLoss(st, loss, env))
<1> DEFINE d == IF loss >= 900 THEN Cap(st.w.disconn + 1, 3) ELSE 0
           w == [st.w EXCEPT !.loss = loss, !.disconn = IF loss >= 900 THEN Cap(@ + 1, 3) ELSE 0]
           hasty == [w EXCEPT !.rto = IF w.fdbk <= loss THEN Max({MinRto, @ - 1}) ELSE @]
           one == [st EXCEPT !.w.loss = loss]
           two == [st EXCEPT !.w = w]
           three == [st EXCEPT !.w = hasty]
           t == CalcSndLoss(st, loss, env)
<1>1. WinOk(w) /\ w.reported = st.w.reported
  BY DEF Run, WinOk, WinFields
<1>2. \/ t = Told(one, loss, env)
      \/ t = two
      \/ t = Report(two, w.fdbk, env)
      \/ t = Report(three, loss, env)
  BY <1>1 DEF CalcSndLoss
<1> HIDE DEF w, t
<1>3. WinOk(hasty) /\ hasty.reported = st.w.reported
  BY <1>1 DEF WinOk, WinFields
<1>4. Run(s, one)
  <2>1. /\ DOMAIN one = {"w", "s", "told"} /\ one.s = st.s /\ one.told = st.told
        /\ WinOk(one.w) /\ one.w.reported = st.w.reported
    BY DEF Run, WinOk, WinFields
  <2> HIDE DEF one
  <2> QED  BY <2>1, WindowFacts
<1> HIDE DEF hasty
<1>5. Run(s, two) /\ w.fdbk \in Losses
  <2>1. DOMAIN two = {"w", "s", "told"} /\ two.s = st.s /\ two.told = st.told /\ two.w = w
    BY DEF Run
  <2> HIDE DEF two
  <2> QED  BY <1>1, <2>1, WindowFacts DEF WinOk
<1>6. Run(s, three)
  <2>1. DOMAIN three = {"w", "s", "told"} /\ three.s = st.s /\ three.told = st.told
        /\ three.w = hasty
    BY DEF Run
  <2> HIDE DEF three
  <2> QED  BY <1>3, <2>1, WindowFacts
<1> HIDE DEF one, two, three
<1>7. Run(s, t)
  BY <1>2, <1>4, <1>5, <1>6, ToldFacts, ReportFacts
<1> QED  BY <1>7 DEF t

LEMMA SamplesFacts ==
    ASSUME NEW s, NEW st, Run(s, st), NEW loss \in Losses, NEW env \in Envs,
           NEW x \in Samples(st, loss, env)
    PROVE  Run(s, x)
BY CalcSndLossFacts DEF Samples

-----------------------------------------------------------------------------
(* The steps.                                                              *)

LEMMA NowFacts == ASSUME QualityInv  PROVE Run(ses, Now)
BY StepNone DEF QualityInv, Run, Now

LEMMA ConstantFacts ==
    Losses \subseteq Scale /\ Second \in Nat /\ Second >= 1
<1>1. Losses \subseteq Scale
  BY QualityAssumption DEF Scale
<1> QED  BY <1>1, QualityAssumption

LEMMA BecomeFacts ==
    ASSUME QualityInv, NEW st, Run(ses, st), Become(st)
    PROVE  QualityInv'
<1> DEFINE m == Max(st.told \cup {trail[1]})
<1>1. /\ win' = st.w /\ ses' = st.s /\ trail' = [trail EXCEPT ![1] = m]
  BY DEF Become
<1>2. trail \in [1 .. Second -> Scale] /\ 1 \in 1 .. Second
  BY ConstantFacts DEF QualityInv
<1>3. m \in st.told \cup {trail[1]}
  <2> DEFINE S == st.told \cup {trail[1]}
  <2>1. st.told \subseteq Scale
    BY ConstantFacts, Zenon DEF Run
  <2>2. trail[1] \in Scale
    BY <1>2
  <2>3. S \subseteq Scale
    BY <2>1, <2>2, Zenon
  <2>4. S # {}
    OBVIOUS
  <2> HIDE DEF S
  <2>5. Max(S) \in S
    BY <2>3, <2>4, MaxOf
  <2> QED  BY <2>5 DEF S
<1> HIDE DEF m
<1>4. /\ trail' \in [1 .. Second -> Scale] /\ trail'[1] = m
      /\ \A i \in 1 .. Second : i # 1 => trail'[i] = trail[i]
  <2>1. m \in Scale
    <3>1. \A l \in st.told : l \in Scale
      BY ConstantFacts, Zenon DEF Run
    <3>2. trail[1] \in Scale
      BY <1>2
    <3> QED  BY <1>3, <3>1, <3>2, Zenon
  <2> QED  BY <1>1, <1>2, <2>1
<1>5. Step(ses, ses', st.told)
  BY <1>1 DEF Run
<1>6. /\ ses.max \in Nat /\ ses'.max \in Nat /\ ses.backup \in Nat /\ ses'.backup \in Nat
      /\ \A i \in 1 .. Second : trail[i] \in Nat
      /\ \A l \in st.told : l \in Nat
  <2>1. \A l \in st.told : l \in Scale
    BY ConstantFacts, Zenon DEF Run
  <2>2. \A l \in st.told : l \in Nat
    BY <2>1, ScaleFacts
  <2>3. \A i \in 1 .. Second : trail[i] \in Nat
    BY <1>2, ScaleFacts
  <2> QED  BY <1>5, <2>2, <2>3 DEF QualityInv, SesOk, Step
<1>7. LossRemembered'
  <2>1. \A i \in 1 .. Second : ses'.max >= trail[i]
    BY <1>5, <1>6 DEF QualityInv, LossRemembered, Step
  <2>2. ses'.max >= m
    BY <1>2, <1>3, <1>5, <2>1 DEF Step
  <2> QED  BY <1>4, <2>1, <2>2 DEF LossRemembered
<1>8. Covered'
  <2>1. \A i \in 1 .. Second - ses.second + 1 : ses'.backup >= trail[i]
    <3> TAKE i \in 1 .. Second - ses.second + 1
    <3>1. i \in 1 .. Second /\ ses.backup >= trail[i] /\ ses'.backup >= ses.backup
      BY <1>5, ConstantFacts DEF QualityInv, Covered, Step
    <3> QED  BY <1>6, <3>1
  <2>2. 1 \in 1 .. Second - ses.second + 1
    BY ConstantFacts DEF QualityInv
  <2>3. ses'.backup >= m
    BY <1>3, <1>5, <2>1, <2>2 DEF Step
  <2>4. ses'.second = ses.second
    BY <1>5 DEF Step
  <2> SUFFICES ASSUME NEW i \in 1 .. Second - ses.second + 1
               PROVE  ses'.backup >= trail'[i]
    BY <2>4 DEF Covered
  <2>5. i \in 1 .. Second
    BY ConstantFacts DEF QualityInv
  <2> QED  BY <1>4, <2>1, <2>3, <2>5
<1>9. WinOk(win') /\ SesOk(ses') /\ ses'.second \in 1 .. Second
  BY <1>1, <1>5 DEF Run, Step, QualityInv
<1> QED  BY <1>4, <1>7, <1>8, <1>9 DEF QualityInv

LEMMA SendFacts ==
    ASSUME QualityInv, NEW loss \in Losses, NEW env \in Envs, Send(loss, env)
    PROVE  QualityInv'
<1>1. PICK st \in (IF win.age >= Span THEN Samples(Now, loss, env) ELSE {Now}) :
         Become(Periodic(st, env))
  BY DEF Send
<1>2. Run(ses, st)
  BY <1>1, NowFacts, SamplesFacts
<1> QED  BY <1>1, <1>2, PeriodicFacts, BecomeFacts

LEMMA AckFacts ==
    ASSUME QualityInv, NEW heard \in Losses, NEW rtt, NEW loss \in Losses, NEW env \in Envs,
           Ack(heard, rtt, loss, env) \/ Nack(heard, rtt, loss, env)
    PROVE  QualityInv'
<1> DEFINE fb == SetFeedBackLoss(Now, heard, rtt, env)
<1>1. Run(ses, fb)
  BY NowFacts, SetFeedBackLossFacts
<1>2. \E st : Become(st) /\ (st \in ProcAckSnBitMap(fb, loss, env)
                               \/ st \in NackSnEntryWin(fb, loss, env))
  BY DEF Ack, Nack
<1> HIDE DEF fb
<1>3. PICK st : Become(st) /\ (st \in ProcAckSnBitMap(fb, loss, env)
                                 \/ st \in NackSnEntryWin(fb, loss, env))
  BY <1>2
<1>4. \E x \in Samples(fb, loss, env) : st = x \/ st = Periodic(x, env)
  BY <1>3 DEF ProcAckSnBitMap, NackSnEntryWin
<1>5. Run(ses, st)
  BY <1>1, <1>4, SamplesFacts, PeriodicFacts
<1> QED  BY <1>3, <1>5, BecomeFacts

LEMMA RttTestAnswerFacts ==
    ASSUME QualityInv, NEW chg, NEW env \in Envs, RttTestAnswer(chg, env)
    PROVE  QualityInv'
BY NowFacts, SetRttUsFacts, BecomeFacts DEF RttTestAnswer

\* The session after half a second, and after its timer.
SesAged(s) == [s EXCEPT !.young = Down(@), !.second = Down(@), !.now = (@ + 1) % Wrap,
                     !.since = Cap(@ + 1, ZeroLossExist)]
Rung(s) == IF SesAged(s).second = 0 THEN SecondTimerHandler(SesAged(s)) ELSE SesAged(s)

LEMMA AgedFacts ==
    ASSUME NEW s, SesOk(s), s.second \in 1 .. Second
    PROVE  LET t == SesAged(s)
           IN  /\ SesOk(t) /\ t.max = s.max /\ t.backup = s.backup
               /\ t.second = s.second - 1
<1> DEFINE t == SesAged(s)
           y == Down(s.young)
           v == (s.now + 1) % Wrap
           k == Down(s.second)
           c == Cap(s.since + 1, ZeroLossExist)
<1>1. s.young \in Nat /\ s.second \in Nat \ {0} /\ s.since \in Nat
  BY ConstantFacts DEF SesOk
<1>2. y \in Nat /\ k = s.second - 1
  BY <1>1 DEF Down
<1>3. c \in Nat
  BY <1>1, ConstantFacts DEF Cap, ZeroLossExist
<1>4. /\ DOMAIN t = SesFields /\ t.young = y /\ t.second = k /\ t.since = c
      /\ t.max = s.max /\ t.backup = s.backup /\ t.bad = s.bad
  BY DEF SesAged, SesOk, SesFields
<1> HIDE DEF t, y, v, k, c
<1> QED  BY <1>2, <1>3, <1>4 DEF SesOk, t

\* The timer of the second passes on what it has collected.
LEMMA RungFacts ==
    ASSUME NEW s, SesOk(s), s.second \in 1 .. Second
    PROVE  LET t == Rung(s)
           IN  /\ SesOk(t) /\ t.second \in 1 .. Second
               /\ \/ t.second = s.second - 1 /\ t.max = s.max /\ t.backup = s.backup
                  \/ /\ s.second = 1 /\ t.second = Second
                     /\ t.max = s.max \/ t.max = s.backup
<1> DEFINE a == SesAged(s)
           t == Rung(s)
<1>1. /\ SesOk(a) /\ a.max = s.max /\ a.backup = s.backup
      /\ a.second = s.second - 1
  BY AgedFacts
<1>2. t = IF a.second = 0 THEN SecondTimerHandler(a) ELSE a
  BY DEF Rung
<1> HIDE DEF a, t
<1>3. CASE a.second # 0
  <2>1. t = a /\ a.second \in 1 .. Second
    BY <1>1, <1>2, <1>3, ConstantFacts
  <2> QED  BY <1>1, <2>1 DEF t
<1>4. CASE a.second = 0
  <2> DEFINE m == IF a.first THEN a.max ELSE a.backup
             b == IF a.first THEN a.backup ELSE 0
  <2>1. t = [a EXCEPT !.max = m, !.backup = b, !.first = FALSE, !.second = Second]
    <3>1. [a EXCEPT !.max = m].backup = a.backup
      BY <1>1 DEF SesOk, SesFields
    <3> QED  BY <1>2, <1>4, <3>1 DEF SecondTimerHandler
  <2>2. m \in Nat /\ b \in Nat /\ (m = a.max \/ m = a.backup)
    BY <1>1 DEF SesOk
  <2> HIDE DEF m, b
  <2>3. /\ DOMAIN t = SesFields /\ t.max = m /\ t.backup = b /\ t.second = Second
        /\ t.young = a.young /\ t.bad = a.bad /\ t.since = a.since
    BY <1>1, <2>1 DEF SesOk, SesFields
  <2>4. SesOk(t)
    BY <1>1, <2>2, <2>3 DEF SesOk
  <2>5. s.second = 1
    BY <1>1, <1>4, ConstantFacts
  <2> QED  BY <1>1, <2>2, <2>3, <2>4, <2>5, ConstantFacts DEF t
<1> QED  BY <1>3, <1>4

LEMMA TickFacts ==
    ASSUME QualityInv, NEW loss \in Losses, NEW env \in Envs, QualityTick(loss, env)
    PROVE  QualityInv'
<1> DEFINE v == [win EXCEPT !.age = Cap(@ + 1, Never), !.idle = Cap(@ + 1, Second)]
           r == Rung(ses)
           aged == [w |-> v, s |-> r, told |-> {}]
<1>1. PICK st \in (IF win.reported THEN {aged} ELSE Samples(aged, loss, env)) :
         /\ win' = st.w /\ ses' = st.s
         /\ trail' = [i \in 1 .. Second |->
                        IF i = 1 THEN Max(st.told \cup {0}) ELSE trail[i - 1]]
  BY DEF QualityTick, Rung, SesAged
<1>2. WinOk(v)
  BY DEF QualityInv, WinOk, WinFields
<1>3. /\ SesOk(r) /\ r.second \in 1 .. Second
      /\ \/ r.second = ses.second - 1 /\ r.max = ses.max /\ r.backup = ses.backup
         \/ ses.second = 1 /\ r.second = Second /\ (r.max = ses.max \/ r.max = ses.backup)
  BY RungFacts DEF QualityInv
<1> HIDE DEF v, r
<1>4. Run(r, aged)
  BY <1>2, <1>3, StepNone DEF QualityInv, Run
<1>5. Run(r, st)
  <2>1. aged.s = r
    OBVIOUS
  <2> HIDE DEF aged
  <2>2. CASE win.reported
    BY <1>1, <1>3, <1>4, <2>1, <2>2
  <2>3. CASE ~win.reported
    BY <1>1, <1>4, <2>3, SamplesFacts
  <2> QED  BY <2>2, <2>3
<1> HIDE DEF aged
<1> DEFINE m == Max(st.told \cup {0})
<1>6. m \in st.told \cup {0}
  <2> DEFINE S == st.told \cup {0}
  <2>1. st.told \subseteq Scale /\ 0 \in Scale
    <3>1. st.told \subseteq Losses
      BY <1>5 DEF Run
    <3>2. 0 \in Scale
      BY DEF Scale
    <3> QED  BY <3>1, <3>2, ConstantFacts, Zenon
  <2>2. S \subseteq Scale /\ S # {}
    BY <2>1
  <2> HIDE DEF S
  <2>3. Max(S) \in S
    BY <2>2, MaxOf
  <2> QED  BY <2>3 DEF S
<1> HIDE DEF m
<1>7. /\ \A l \in st.told : l \in Scale /\ l \in Nat
      /\ trail \in [1 .. Second -> Scale] /\ \A i \in 1 .. Second : trail[i] \in Nat
      /\ 0 \in Scale /\ 1 \in 1 .. Second
  <2>1. \A l \in st.told : l \in Scale
    BY <1>5, ConstantFacts DEF Run
  <2>2. trail \in [1 .. Second -> Scale]
    BY DEF QualityInv
  <2>3. 0 \in Scale /\ 1 \in 1 .. Second
    BY ConstantFacts, QualityAssumption
  <2> QED  BY <2>1, <2>2, <2>3, ScaleFacts
<1>8. /\ trail' \in [1 .. Second -> Scale] /\ trail'[1] = m
      /\ \A i \in 1 .. Second : i # 1 => i - 1 \in 1 .. Second /\ trail'[i] = trail[i - 1]
  <2>1. \A i \in 1 .. Second : i # 1 => i - 1 \in 1 .. Second
    BY ConstantFacts
  <2>2. trail' = [i \in 1 .. Second |-> IF i = 1 THEN m ELSE trail[i - 1]]
    BY <1>1 DEF m
  <2>3. m \in Scale
    BY <1>6, <1>7
  <2> QED  BY <1>7, <2>1, <2>2, <2>3
<1>9. Step(r, ses', st.told)
  BY <1>1, <1>5 DEF Run
<1>10. /\ ses.max \in Nat /\ ses'.max \in Nat /\ r.max \in Nat
       /\ ses.backup \in Nat /\ ses'.backup \in Nat /\ r.backup \in Nat
  BY <1>3, <1>9 DEF QualityInv, SesOk, Step
<1>11. LossRemembered'
  <2>1. \A i \in 1 .. Second : i # 1 => r.max >= trail[i - 1]
    <3> SUFFICES ASSUME NEW i \in 1 .. Second, i # 1  PROVE r.max >= trail[i - 1]
      OBVIOUS
    <3>1. i - 1 \in 1 .. Second
      BY <1>8
    <3>2. ses.max >= trail[i - 1]
      BY <3>1 DEF QualityInv, LossRemembered
    <3>3. CASE r.max = ses.max
      BY <3>2, <3>3
    <3>4. CASE ses.second = 1 /\ r.max = ses.backup
      BY <3>1, <3>4, ConstantFacts DEF QualityInv, Covered
    <3> QED  BY <1>3, <3>3, <3>4
  <2>2. ses'.max >= m /\ ses'.max >= r.max
    BY <1>6, <1>9, <1>10 DEF Step
  <2> SUFFICES ASSUME NEW i \in 1 .. Second  PROVE ses'.max >= trail'[i]
    BY DEF LossRemembered
  <2>3. CASE i = 1
    BY <1>8, <2>2, <2>3
  <2>4. CASE i # 1
    <3>1. trail'[i] = trail[i - 1] /\ trail[i - 1] \in Nat /\ r.max >= trail[i - 1]
      BY <1>7, <1>8, <2>1, <2>4
    <3> QED  BY <1>10, <2>2, <3>1
  <2> QED  BY <2>3, <2>4
<1>12. Covered'
  <2>1. ses'.backup >= m /\ ses'.backup >= r.backup /\ ses'.second = r.second
    BY <1>6, <1>9, <1>10 DEF Step
  <2> SUFFICES ASSUME NEW i \in 1 .. Second - r.second + 1  PROVE ses'.backup >= trail'[i]
    BY <2>1 DEF Covered
  <2>2. i \in 1 .. Second
    BY <1>3, ConstantFacts
  <2>3. CASE i = 1
    BY <1>8, <2>1, <2>3
  <2>4. CASE i # 1
    <3>1. r.second = ses.second - 1 /\ r.backup = ses.backup
      BY <1>3, <2>4, ConstantFacts
    <3>2. i - 1 \in 1 .. Second - ses.second + 1
      BY <2>4, <3>1, ConstantFacts DEF QualityInv
    <3>3. ses.backup >= trail[i - 1]
      BY <3>2 DEF QualityInv, Covered
    <3>4. trail'[i] = trail[i - 1] /\ trail[i - 1] \in Nat
      BY <1>7, <1>8, <2>2, <2>4
    <3> QED  BY <1>10, <2>1, <3>1, <3>3, <3>4
  <2> QED  BY <2>3, <2>4
<1>13. WinOk(win') /\ SesOk(ses') /\ ses'.second \in 1 .. Second
  BY <1>1, <1>3, <1>5, <1>9 DEF Run, Step
<1> QED  BY <1>8, <1>11, <1>12, <1>13 DEF QualityInv

-----------------------------------------------------------------------------
LEMMA QualityStart == QualityInit => QualityInv
<1> SUFFICES ASSUME QualityInit  PROVE QualityInv
  OBVIOUS
<1>1. WinOk(win) /\ SesOk(ses) /\ ses.second = Second
      /\ ses.max = 0 /\ ses.backup = 0
  BY QualityAssumption DEF QualityInit, WinOk, SesOk, WinFields, SesFields, Youth
<1>2. trail = [i \in 1 .. Second |-> 0] /\ 0 \in Scale
  BY DEF QualityInit, Scale
<1>3. trail \in [1 .. Second -> Scale] /\ \A i \in 1 .. Second : trail[i] = 0
  BY <1>2
<1>4. Second \in 1 .. Second /\ 1 .. Second - Second + 1 \subseteq 1 .. Second
  BY ConstantFacts
<1>5. LossRemembered /\ Covered
  BY <1>1, <1>3, <1>4 DEF LossRemembered, Covered
<1> QED  BY <1>1, <1>3, <1>4, <1>5 DEF QualityInv

LEMMA QualityKept ==
    QualityInv /\ [QualityNext]_qualityVars => QualityInv'
<1> SUFFICES ASSUME QualityInv, [QualityNext]_qualityVars
             PROVE  QualityInv'
  OBVIOUS
<1>1. CASE Sending
  BY <1>1, SendFacts DEF Sending
<1>2. ASSUME NEW l \in Losses, NEW h \in Losses, NEW rtt \in Rtts, NEW env \in Envs,
             Ack(h, rtt, l, env) \/ Nack(h, rtt, l, env)
      PROVE  QualityInv'
  BY <1>2, AckFacts
<1>3. ASSUME NEW chg \in BOOLEAN, NEW env \in Envs, RttTestAnswer(chg, env)
      PROVE  QualityInv'
  BY <1>3, RttTestAnswerFacts
<1>4. CASE Ticking
  BY <1>4, TickFacts DEF Ticking
<1>5. CASE UNCHANGED qualityVars
  BY <1>5 DEF qualityVars, QualityInv, LossRemembered, Covered
<1> QED  BY <1>1, <1>2, <1>3, <1>4, <1>5 DEF QualityNext

\* max_send_loss_per_s_ covers the losses of the last second, however the timer
\* of the second falls between the reports.
THEOREM WorstLossRemembered == QualitySpec => []LossRemembered
<1>1. QualityInv => LossRemembered
  BY DEF QualityInv
<1> QED  BY <1>1, QualityStart, QualityKept, PTL DEF QualitySpec
=============================================================================
