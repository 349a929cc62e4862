-------------------------- MODULE Programs_proof --------------------------
(***************************************************************************)
(* Proofs about the programs built on the library.                         *)
(*                                                                         *)
(* The worker of the proxy (UdpProxy) keeps its two relations, the         *)
(* kernel's sockets and the users' list in agreement, for any number of    *)
(* clients, listeners, sockets and users.  A handler is an operator from a *)
(* worker to the workers it may leave, so that there is one lemma per      *)
(* handler, and the lemmas compose as the handlers do.                     *)
(*                                                                         *)
(* The client of the demo (Testers) and the table of instances             *)
(* (Instances) name each other exactly, for any number of testers and      *)
(* places.                                                                 *)
(***************************************************************************)
EXTENDS UdpProxy, Testers, FiniteSetTheorems, SequenceTheorems, WellFoundedInduction, TLAPS

WorkerFields == {"state", "listen", "lqueue", "lpollout", "client", "server", "open",
                 "list", "since", "pkg", "key"}
SessionFields == {"on", "listener", "kind", "pwd", "user", "fd", "fec", "key", "age",
                  "queue", "pollout"}

\* The worker is a record, its sessions and sockets are those of the constants.
Shape(x) ==
    /\ DOMAIN x = WorkerFields /\ DOMAIN x.client = Clients /\ DOMAIN x.server = Fds
    /\ x.open \subseteq Fds
    /\ \A c \in Clients : /\ DOMAIN x.client[c] = SessionFields
                          /\ x.client[c].fd \in Fds \cup {NoFd}
                          /\ x.client[c].queue \in Nat
    /\ \A f \in Fds : x.server[f] \in Clients \cup {None}

\* game_server_relation_s_ leads to the session that has the socket, and back.
Owned(x) ==
    /\ \A f \in Fds : x.server[f] # None => /\ f \in x.open
                                            /\ x.client[x.server[f]].fd = f
    /\ \A f \in x.open : x.server[f] # None
    /\ \A c \in Clients : x.client[c].fd # NoFd => /\ x.client[c].on
                                                   /\ x.server[x.client[c].fd] = c

Permitted(x) == \A c \in Clients : x.client[c].fd # NoFd => Authorised(x, x.client[c])

ArmedAt(s) == s.fd # NoFd /\ s.queue > 0 => s.pollout
KeyedAt(s, c) == (s.fec => s.key # 0) /\ s.key \in KeysOf[c] \cup {0}

Base(x) == Shape(x) /\ Owned(x) /\ Permitted(x)

\* What holds between two steps of the worker.
Good(x) == /\ Base(x)
           /\ \A c \in Clients : ArmedAt(x.client[c]) /\ KeyedAt(x.client[c], c)

-----------------------------------------------------------------------------
(* Steps that open and close no socket.                                    *)

\* y has the sockets, the list and the owners of x.
Alike(x, y) ==
    /\ Shape(y) /\ y.server = x.server /\ y.open = x.open /\ y.list = x.list
    /\ \A c \in Clients : /\ y.client[c].fd = x.client[c].fd
                          /\ y.client[c].on = x.client[c].on
                          /\ y.client[c].pwd = x.client[c].pwd
                          /\ y.client[c].user = x.client[c].user

\* ... and only the session of the client c changes.
AlikeBut(x, y, c) ==
    /\ Alike(x, y)
    /\ \A d \in Clients \ {c} : y.client[d] = x.client[d]
    /\ y.client[c].fec = x.client[c].fec /\ y.client[c].key = x.client[c].key

\* ... or none.
SameSessions(x, y) == Alike(x, y) /\ y.client = x.client

LEMMA AlikeBase ==
    ASSUME NEW x, NEW y, Base(x), Alike(x, y)  PROVE Base(y)
<1>1. Owned(y)
  BY DEF Base, Owned, Alike, Shape
<1>2. Permitted(y)
  BY DEF Base, Permitted, Alike, Authorised
<1> QED  BY <1>1, <1>2 DEF Base, Alike

LEMMA SameSessionsGood ==
    ASSUME NEW x, NEW y, Good(x), SameSessions(x, y)  PROVE Good(y)
BY AlikeBase DEF Good, SameSessions

LEMMA AlikeButGood ==
    ASSUME NEW x, NEW y, NEW c \in Clients, Good(x), AlikeBut(x, y, c),
           ArmedAt(y.client[c])
    PROVE  Good(y)
<1>1. Base(y)
  BY AlikeBase DEF Good, AlikeBut
<1>2. KeyedAt(y.client[c], c)
  BY DEF Good, AlikeBut, KeyedAt
<1> QED  BY <1>1, <1>2 DEF Good, AlikeBut

LEMMA AlikeButTrans ==
    ASSUME NEW x, NEW y, NEW z, NEW c \in Clients, AlikeBut(x, y, c), AlikeBut(y, z, c)
    PROVE  AlikeBut(x, z, c)
BY DEF AlikeBut, Alike

LEMMA SameSessionsTrans ==
    ASSUME NEW x, NEW y, NEW z, SameSessions(x, y), SameSessions(y, z)
    PROVE  SameSessions(x, z)
BY DEF SameSessions, Alike

LEMMA SameSessionsRefl == ASSUME NEW x, Shape(x)  PROVE SameSessions(x, x)
BY DEF SameSessions, Alike

LEMMA AlikeButRefl == ASSUME NEW x, NEW c, Shape(x)  PROVE AlikeBut(x, x, c)
BY DEF AlikeBut, Alike

-----------------------------------------------------------------------------
(* Sending to a client changes the queues of the listener only.            *)

Queued(x, l, q) == [x EXCEPT !.lqueue[l] = q]
Polled(x, l, q, p) == [x EXCEPT !.lqueue[l] = q, !.lpollout = p]

LEMMA QueueFacts ==
    ASSUME NEW x, Shape(x), NEW l, NEW q, NEW p
    PROVE  SameSessions(x, Queued(x, l, q)) /\ SameSessions(x, Polled(x, l, q, p))
BY DEF Shape, SameSessions, Alike, WorkerFields, Queued, Polled

LEMMA FlushClientFacts ==
    ASSUME NEW x, Shape(x), NEW l, NEW y \in FlushClient(x, l)
    PROVE  SameSessions(x, y)
<1>1. CASE x.lqueue[l] = <<>>
  BY <1>1, SameSessionsRefl DEF FlushClient
<1>2. CASE x.lqueue[l] # <<>>
  <2>1. \/ \E n : y = Queued(x, l, SubSeq(x.lqueue[l], n, Len(x.lqueue[l])))
        \/ \E ok : y = Polled(x, l, <<>>, IF ok THEN x.lpollout \ {l} ELSE x.lpollout)
    BY <1>2, Zenon DEF FlushClient, Queued, Polled
  <2> QED  BY <2>1, QueueFacts
<1> QED  BY <1>1, <1>2

LEMMA PushClientFacts ==
    ASSUME NEW x, Shape(x), NEW l, NEW c, NEW y \in PushClient(x, l, c)
    PROVE  SameSessions(x, y)
<1>1. PICK ok : y = Polled(x, l, Append(x.lqueue[l], c),
                           IF ok THEN x.lpollout \cup {l} ELSE x.lpollout)
  BY Zenon DEF PushClient, Polled
<1> QED  BY <1>1, QueueFacts

LEMMA SendClientFacts ==
    ASSUME NEW x, Shape(x), NEW l, NEW c, NEW y \in SendClient(x, l, c)
    PROVE  SameSessions(x, y)
<1>1. PICK f \in FlushClient(x, l) : y = f \/ y \in PushClient(f, l, c)
  BY DEF SendClient
<1>2. SameSessions(x, f)
  BY <1>1, FlushClientFacts
<1> QED  BY <1>1, <1>2, PushClientFacts, SameSessionsTrans DEF SameSessions, Alike

LEMMA MarkFacts ==
    ASSUME NEW x, Shape(x), NEW p, NEW k
    PROVE  /\ SameSessions(x, Mark(x, p, k))
           /\ Mark(x, p, k).pkg = p /\ Mark(x, p, k).key = k
BY DEF Shape, SameSessions, Alike, WorkerFields, Mark

LEMMA FecSendFacts ==
    ASSUME NEW x, Shape(x), NEW l, NEW c, NEW k, NEW y \in FecSend(x, l, c, k)
    PROVE  SameSessions(x, y)
<1>1. PICK h : y = x \/ y \in SendClient(Mark(x, TRUE, k), h, c)
  BY DEF FecSend
<1> DEFINE z == Mark(x, TRUE, k)
<1>2. SameSessions(x, z)
  BY MarkFacts, Zenon
<1> HIDE DEF z
<1>3. y = x \/ y \in SendClient(z, h, c)
  BY <1>1 DEF z
<1>4. Shape(z)
  BY <1>2 DEF SameSessions, Alike
<1> QED  BY <1>2, <1>3, <1>4, SendClientFacts, SameSessionsRefl, SameSessionsTrans

LEMMA ReplyFacts ==
    ASSUME NEW x, Shape(x), NEW c, NEW y \in Reply(x, c)
    PROVE  SameSessions(x, y)
BY SendClientFacts, FecSendFacts DEF Reply

-----------------------------------------------------------------------------
(* The queue towards a game server.                                        *)

SetSession(x, c, s) == [x EXCEPT !.client[c] = s]

LEMMA SetSessionFacts ==
    ASSUME NEW x, Shape(x), NEW c \in Clients, NEW s, DOMAIN s = SessionFields,
           s.queue \in Nat, s.fd \in Fds \cup {NoFd}
    PROVE  LET y == SetSession(x, c, s)
           IN  /\ Shape(y) /\ y.client[c] = s
               /\ \A d \in Clients \ {c} : y.client[d] = x.client[d]
               /\ y.server = x.server /\ y.open = x.open /\ y.list = x.list
               /\ y.pkg = x.pkg /\ y.key = x.key
BY DEF Shape, SetSession, WorkerFields

\* The session changes but for its owner and its socket.
SameOwner(s, t) ==
    /\ DOMAIN t = SessionFields /\ t.queue \in Nat
    /\ t.fd = s.fd /\ t.on = s.on /\ t.pwd = s.pwd /\ t.user = s.user

LEMMA SetSessionAlike ==
    ASSUME NEW x, Shape(x), NEW c \in Clients, NEW s, SameOwner(x.client[c], s)
    PROVE  LET y == SetSession(x, c, s)
           IN  /\ Alike(x, y) /\ y.client[c] = s /\ y.pkg = x.pkg /\ y.key = x.key
               /\ \A d \in Clients \ {c} : y.client[d] = x.client[d]
<1> DEFINE y == SetSession(x, c, s)
<1>1. s.fd \in Fds \cup {NoFd} /\ DOMAIN s = SessionFields /\ s.queue \in Nat
  BY DEF Shape, SameOwner
<1>2. /\ Shape(y) /\ y.client[c] = s
      /\ \A d \in Clients \ {c} : y.client[d] = x.client[d]
      /\ y.server = x.server /\ y.open = x.open /\ y.list = x.list
      /\ y.pkg = x.pkg /\ y.key = x.key
  BY <1>1, SetSessionFacts
<1> HIDE DEF y
<1>3. Alike(x, y)
  BY <1>2 DEF Alike, SameOwner
<1> QED  BY <1>2, <1>3 DEF y

Requeue(s, n) == [s EXCEPT !.queue = n]
Repoll(s, n, p) == [s EXCEPT !.queue = n, !.pollout = p]

LEMMA RequeueFacts ==
    ASSUME NEW s, DOMAIN s = SessionFields, NEW n \in Nat, NEW p
    PROVE  /\ SameOwner(s, Requeue(s, n)) /\ SameOwner(s, Repoll(s, n, p))
           /\ Requeue(s, n).queue = n /\ Requeue(s, n).pollout = s.pollout
           /\ Repoll(s, n, p).queue = n /\ Repoll(s, n, p).pollout = p
           /\ Requeue(s, n).fec = s.fec /\ Requeue(s, n).key = s.key
           /\ Repoll(s, n, p).fec = s.fec /\ Repoll(s, n, p).key = s.key
BY DEF Requeue, Repoll, SameOwner, SessionFields

LEMMA FlushServerFacts ==
    ASSUME NEW x, Shape(x), NEW c \in Clients, NEW r \in FlushServer(x, c)
    PROVE  /\ r = <<r[1], r[2]>>
           /\ AlikeBut(x, r[1], c)
           /\ ArmedAt(x.client[c]) => ArmedAt(r[1].client[c])
<1> DEFINE s == x.client[c]
<1>1. DOMAIN s = SessionFields /\ s.queue \in Nat
  BY DEF Shape
<1>2. CASE s.queue = 0
  BY <1>2, AlikeButRefl DEF FlushServer
<1>3. ASSUME s.queue # 0, NEW n \in 1 .. s.queue,
             r = <<SetSession(x, c, Requeue(s, n)), TRUE>>
      PROVE  /\ r = <<r[1], r[2]>>
             /\ AlikeBut(x, r[1], c)
             /\ ArmedAt(s) => ArmedAt(r[1].client[c])
  <2> DEFINE t == Requeue(s, n)
             y == SetSession(x, c, t)
  <2>1. n \in Nat /\ n > 0 /\ s.queue > 0
    BY <1>1, <1>3
  <2>2. SameOwner(s, t) /\ t.queue = n /\ t.pollout = s.pollout /\ t.fec = s.fec /\ t.key = s.key
    BY <1>1, <2>1, RequeueFacts
  <2> HIDE DEF t
  <2>3. Alike(x, y) /\ y.client[c] = t /\ \A d \in Clients \ {c} : y.client[d] = x.client[d]
    BY <2>2, SetSessionAlike
  <2>4. r[1] = y /\ r = <<r[1], r[2]>>
    BY <1>3 DEF t
  <2> HIDE DEF y
  <2> QED  BY <2>1, <2>2, <2>3, <2>4 DEF AlikeBut, ArmedAt, SameOwner
<1>4. ASSUME NEW ok, r = <<SetSession(x, c, Repoll(s, 0, ~ok)), ok>>
      PROVE  /\ r = <<r[1], r[2]>>
             /\ AlikeBut(x, r[1], c)
             /\ ArmedAt(r[1].client[c])
  <2> DEFINE p == ~ok
             t == Repoll(s, 0, p)
             y == SetSession(x, c, t)
  <2>1. SameOwner(s, t) /\ t.queue = 0 /\ t.fec = s.fec /\ t.key = s.key
    <3> HIDE DEF p, s
    <3>1. 0 \in Nat
      OBVIOUS
    <3> QED  BY <1>1, <3>1, RequeueFacts
  <2> HIDE DEF t
  <2>2. Alike(x, y) /\ y.client[c] = t /\ \A d \in Clients \ {c} : y.client[d] = x.client[d]
    BY <2>1, SetSessionAlike
  <2>3. r[1] = y /\ r = <<r[1], r[2]>>
    BY <1>4 DEF t
  <2> HIDE DEF y
  <2> QED  BY <2>1, <2>2, <2>3 DEF AlikeBut, ArmedAt
<1>5. s.queue = 0 \/ (\E n \in 1 .. s.queue : r = <<SetSession(x, c, Requeue(s, n)), TRUE>>)
        \/ \E ok : r = <<SetSession(x, c, Repoll(s, 0, ~ok)), ok>>
  <2> DEFINE A(n) == [x EXCEPT !.client[c].queue = n]
             B(ok) == [x EXCEPT !.client[c].queue = 0, !.client[c].pollout = ~ok]
  <2>1. ASSUME s.queue # 0
        PROVE  (\E n \in 1 .. s.queue : r = <<A(n), TRUE>>) \/ (\E ok : r = <<B(ok), ok>>)
    BY <2>1, Zenon DEF FlushServer
  <2>2. \A n : A(n) = SetSession(x, c, Requeue(s, n))
    BY DEF SetSession, Requeue
  <2>3. ASSUME NEW ok  PROVE B(ok) = SetSession(x, c, Repoll(s, 0, ~ok))
    BY DEF SetSession, Repoll, Shape, WorkerFields
  <2> HIDE DEF A, B
  <2> QED  BY <2>1, <2>2, <2>3
<1> QED  BY <1>2, <1>3, <1>4, <1>5

LEMMA PushServerFacts ==
    ASSUME NEW x, Shape(x), NEW c \in Clients, NEW r \in PushServer(x, c)
    PROVE  /\ r = <<r[1], r[2]>>
           /\ AlikeBut(x, r[1], c)
           /\ r[2] => ArmedAt(r[1].client[c])
<1> DEFINE s == x.client[c]
           B(ok) == [x EXCEPT !.client[c].queue = @ + 1, !.client[c].pollout = @ \/ ok]
<1>1. DOMAIN s = SessionFields /\ s.queue \in Nat /\ s.queue + 1 \in Nat
  BY DEF Shape
<1>2. PICK ok : r = <<B(ok), ok>>
  BY Zenon DEF PushServer
<1> DEFINE t == Repoll(s, s.queue + 1, s.pollout \/ ok)
           y == SetSession(x, c, t)
<1>3. B(ok) = y
  <2> DEFINE z == [x EXCEPT !.client[c].queue = @ + 1]
             C(p) == [z EXCEPT !.client[c].pollout = p]
  <2>1. z.client[c].pollout = s.pollout
    BY <1>1 DEF Shape, WorkerFields, SessionFields
  <2>2. B(ok) = C(z.client[c].pollout \/ ok)
    OBVIOUS
  <2>3. \A p : C(p) = SetSession(x, c, Repoll(s, s.queue + 1, p))
    BY DEF SetSession, Repoll, Shape, WorkerFields
  <2> HIDE DEF B, C, z
  <2> QED  BY <2>1, <2>2, <2>3
<1>4. /\ SameOwner(s, t) /\ t.fec = s.fec /\ t.key = s.key
      /\ t.pollout = (s.pollout \/ ok)
  BY <1>1, RequeueFacts
<1> HIDE DEF t, B
<1>5. Alike(x, y) /\ y.client[c] = t /\ \A d \in Clients \ {c} : y.client[d] = x.client[d]
  BY <1>4, SetSessionAlike
<1>6. r[1] = y /\ r[2] = ok /\ r = <<r[1], r[2]>>
  BY <1>2, <1>3
<1> HIDE DEF y
<1>7. ok => t.pollout
  BY <1>4, Zenon
<1> QED  BY <1>4, <1>5, <1>6, <1>7 DEF AlikeBut, ArmedAt

LEMMA SendServerFacts ==
    ASSUME NEW x, Shape(x), NEW c \in Clients, NEW r \in SendServer(x, c)
    PROVE  /\ r = <<r[1], r[2]>>
           /\ AlikeBut(x, r[1], c)
           /\ ArmedAt(x.client[c]) /\ r[2] => ArmedAt(r[1].client[c])
<1>1. PICK f \in FlushServer(x, c) : r = f \/ r \in PushServer(f[1], c)
  BY DEF SendServer
<1>2. /\ f = <<f[1], f[2]>> /\ AlikeBut(x, f[1], c)
      /\ ArmedAt(x.client[c]) => ArmedAt(f[1].client[c])
  BY <1>1, FlushServerFacts
<1>3. CASE r \in PushServer(f[1], c)
  <2>1. Shape(f[1])
    BY <1>2 DEF AlikeBut, Alike
  <2> QED  BY <1>2, <1>3, <2>1, PushServerFacts, AlikeButTrans
<1> QED  BY <1>1, <1>2, <1>3

-----------------------------------------------------------------------------
(* Sockets are opened and closed.                                          *)

\* The session of the client c has no socket, the others are as they were.
Closed(x, y, c) ==
    /\ Base(y) /\ y.client[c].fd = NoFd /\ y.list = x.list
    /\ y.client[c].fec = x.client[c].fec /\ y.client[c].key = x.client[c].key
    /\ \A d \in Clients \ {c} : y.client[d] = x.client[d]
    /\ y.pkg = x.pkg /\ y.key = x.key

LEMMA CloseFacts ==
    ASSUME NEW x, Base(x), NEW c \in Clients  PROVE Closed(x, Close(x, c), c)
<1> DEFINE f == x.client[c].fd
           y == Close(x, c)
<1>1. CASE f = NoFd
  BY <1>1 DEF Close, Closed
<1>2. CASE f # NoFd
  <2> DEFINE s == [x.client[c] EXCEPT !.fd = NoFd, !.pollout = FALSE]
  <2>1. /\ DOMAIN x = WorkerFields /\ DOMAIN x.client = Clients /\ DOMAIN x.server = Fds
        /\ DOMAIN x.client[c] = SessionFields /\ f \in Fds
        /\ x.client[c].queue \in Nat
    BY <1>2 DEF Base, Shape
  <2>2. /\ DOMAIN y = WorkerFields /\ DOMAIN y.client = Clients /\ DOMAIN y.server = Fds
        /\ y.open = x.open \ {f} /\ y.list = x.list
        /\ y.server[f] = None /\ \A g \in Fds \ {f} : y.server[g] = x.server[g]
        /\ y.client[c] = s /\ \A d \in Clients \ {c} : y.client[d] = x.client[d]
        /\ y.pkg = x.pkg /\ y.key = x.key
    BY <1>2, <2>1 DEF Close, WorkerFields
  <2>3. /\ DOMAIN s = SessionFields /\ s.fd = NoFd /\ s.queue \in Nat
        /\ s.fec = x.client[c].fec /\ s.key = x.client[c].key
    BY <2>1 DEF SessionFields
  <2> HIDE DEF y, s
  <2>4. Shape(y)
    BY <2>1, <2>2, <2>3 DEF Base, Shape
  <2>5. Owned(y)
    <3>1. \A g \in Fds : y.server[g] # None => g # f /\ g \in y.open /\ y.client[y.server[g]].fd = g
      <4> SUFFICES ASSUME NEW g \in Fds, y.server[g] # None
                   PROVE  g # f /\ g \in y.open /\ y.client[y.server[g]].fd = g
        OBVIOUS
      <4>1. g # f /\ x.server[g] = y.server[g] /\ x.server[g] \in Clients
        BY <2>2 DEF Base, Shape
      <4>2. g \in x.open /\ x.client[x.server[g]].fd = g
        BY <4>1 DEF Base, Owned
      <4>3. x.server[g] # c
        BY <4>1, <4>2
      <4> QED  BY <4>1, <4>2, <4>3, <2>2
    <3>2. \A g \in y.open : y.server[g] # None
      BY <2>2 DEF Base, Owned, Shape
    <3>3. \A d \in Clients : y.client[d].fd # NoFd
             => y.client[d].on /\ y.server[y.client[d].fd] = d
      <4> SUFFICES ASSUME NEW d \in Clients, y.client[d].fd # NoFd
                   PROVE  y.client[d].on /\ y.server[y.client[d].fd] = d
        OBVIOUS
      <4>1. d # c /\ y.client[d] = x.client[d]
        BY <2>2, <2>3
      <4>2. x.client[d].on /\ x.server[x.client[d].fd] = d /\ x.client[d].fd \in Fds
        BY <4>1 DEF Base, Owned, Shape
      <4>3. x.client[d].fd # f
        BY <1>2, <4>1, <4>2 DEF Base, Owned
      <4> QED  BY <4>1, <4>2, <4>3, <2>2
    <3> QED  BY <3>1, <3>2, <3>3 DEF Owned
  <2>6. Permitted(y)
    BY <2>2, <2>3 DEF Base, Permitted, Authorised
  <2> QED  BY <2>2, <2>3, <2>4, <2>5, <2>6 DEF Closed, Base, y
<1> QED  BY <1>1, <1>2

LEMMA NoSessionFacts ==
    /\ DOMAIN NoSession = SessionFields /\ NoSession.fd = NoFd /\ NoSession.queue = 0
    /\ NoSession.on = FALSE /\ NoSession.fec = FALSE /\ NoSession.key = 0
BY DEF NoSession, SessionFields

\* A session without a socket is taken out.
LEMMA EmptiedFacts ==
    ASSUME NEW x, Base(x), NEW c \in Clients, x.client[c].fd = NoFd
    PROVE  LET y == SetSession(x, c, NoSession)
           IN  /\ Base(y) /\ y.client[c] = NoSession /\ y.list = x.list
               /\ \A d \in Clients \ {c} : y.client[d] = x.client[d]
               /\ y.pkg = x.pkg /\ y.key = x.key
<1> DEFINE y == SetSession(x, c, NoSession)
<1>1. /\ Shape(y) /\ y.client[c] = NoSession
      /\ \A d \in Clients \ {c} : y.client[d] = x.client[d]
      /\ y.server = x.server /\ y.open = x.open /\ y.list = x.list
      /\ y.pkg = x.pkg /\ y.key = x.key
  BY NoSessionFacts, SetSessionFacts DEF Base
<1> HIDE DEF y
<1>2. Owned(y)
  <2>1. \A g \in Fds : x.server[g] # None =>
           x.server[g] # c /\ x.server[g] \in Clients /\ g \in x.open
             /\ x.client[x.server[g]].fd = g
    BY ProxyAssumption DEF Base, Owned, Shape, NoFd
  <2>2. \A g \in Fds : y.server[g] # None =>
           g \in y.open /\ y.client[y.server[g]].fd = g
    BY <1>1, <2>1
  <2> QED  BY <1>1, <2>2, NoSessionFacts DEF Base, Owned
<1>3. Permitted(y)
  BY <1>1, NoSessionFacts DEF Base, Permitted, Authorised
<1> QED  BY <1>1, <1>2, <1>3 DEF Base, y

LEMMA ForgetFacts ==
    ASSUME NEW x, Base(x), NEW c \in Clients, NEW y \in Forget(x, c)
    PROVE  /\ Base(y) /\ y.client[c] = NoSession /\ y.list = x.list
           /\ \A d \in Clients \ {c} : y.client[d] = x.client[d]
           /\ y.pkg = x.pkg /\ y.key = x.key
<1> DEFINE z == Close(x, c)
<1>1. y = SetSession(z, c, NoSession)
  BY DEF Forget, SetSession
<1>2. Closed(x, z, c)
  BY CloseFacts
<1> HIDE DEF z
<1> QED  BY <1>1, <1>2, EmptiedFacts DEF Closed

\* The session CreatePair makes.
NewPair(x, l, d, f) ==
    [on |-> TRUE, listener |-> l, kind |-> d.kind, pwd |-> d.pwd, user |-> x.list[d.pwd],
     fd |-> f, fec |-> x.pkg, key |-> 0, age |-> 0, queue |-> 0, pollout |-> FALSE]

Opened(x, f) == [x EXCEPT !.open = @ \cup {f}]
Created(x, c, s, f) == [Opened(x, f) EXCEPT !.client[c] = s, !.server[f] = c]

LEMMA CreatedFacts ==
    ASSUME NEW x, Base(x), NEW c \in Clients, x.client[c].fd = NoFd,
           NEW f \in Fds, f \notin x.open,
           NEW s, DOMAIN s = SessionFields, s.on, s.fd = f, s.queue = 0, Authorised(x, s)
    PROVE  LET y == Created(x, c, s, f)
           IN  /\ Base(y) /\ y.client[c] = s
               /\ \A e \in Clients \ {c} : y.client[e] = x.client[e]
               /\ y.pkg = x.pkg /\ y.key = x.key
<1> DEFINE y == Created(x, c, s, f)
<1>1. /\ DOMAIN y = WorkerFields /\ DOMAIN y.client = Clients /\ DOMAIN y.server = Fds
      /\ y.open = x.open \cup {f} /\ y.list = x.list
      /\ y.server[f] = c /\ \A g \in Fds \ {f} : y.server[g] = x.server[g]
      /\ y.client[c] = s /\ \A e \in Clients \ {c} : y.client[e] = x.client[e]
      /\ y.pkg = x.pkg /\ y.key = x.key
  BY DEF Created, Opened, Base, Shape, WorkerFields
<1> HIDE DEF y
<1>2. Shape(y)
  BY <1>1 DEF Base, Shape
<1>3. f # NoFd /\ None \notin Clients
  BY ProxyAssumption DEF NoFd, None
<1>4. Owned(y)
  <2>1. \A g \in Fds : y.server[g] # None => g \in y.open /\ y.client[y.server[g]].fd = g
    <3> SUFFICES ASSUME NEW g \in Fds, y.server[g] # None
                 PROVE  g \in y.open /\ y.client[y.server[g]].fd = g
      OBVIOUS
    <3>1. CASE g = f
      BY <1>1, <3>1
    <3>2. CASE g # f
      <4>1. x.server[g] = y.server[g] /\ x.server[g] \in Clients
        BY <1>1, <3>2 DEF Base, Shape
      <4>2. g \in x.open /\ x.client[x.server[g]].fd = g
        BY <4>1 DEF Base, Owned
      <4>3. x.server[g] # c
        BY <4>2, ProxyAssumption DEF NoFd
      <4> QED  BY <4>1, <4>2, <4>3, <1>1
    <3> QED  BY <3>1, <3>2
  <2>2. \A g \in y.open : y.server[g] # None
    BY <1>1, <1>3 DEF Base, Owned, Shape
  <2>3. \A e \in Clients : y.client[e].fd # NoFd
           => y.client[e].on /\ y.server[y.client[e].fd] = e
    <3> SUFFICES ASSUME NEW e \in Clients, y.client[e].fd # NoFd
                 PROVE  y.client[e].on /\ y.server[y.client[e].fd] = e
      OBVIOUS
    <3>1. CASE e = c
      BY <1>1, <3>1
    <3>2. CASE e # c
      <4>1. y.client[e] = x.client[e] /\ x.client[e].fd \in Fds
        BY <1>1, <3>2 DEF Base, Shape
      <4>2. x.client[e].on /\ x.server[x.client[e].fd] = e
        BY <4>1 DEF Base, Owned
      <4>3. x.client[e].fd # f
        BY <1>3, <4>1, <4>2 DEF Base, Owned
      <4> QED  BY <4>1, <4>2, <4>3, <1>1
    <3> QED  BY <3>1, <3>2
  <2> QED  BY <2>1, <2>2, <2>3 DEF Owned
<1>5. Permitted(y)
  BY <1>1 DEF Base, Permitted, Authorised
<1> QED  BY <1>1, <1>2, <1>4, <1>5 DEF Base, y

\* The session for a datagram is found or made, but does not have its key yet.
Paired(y, d) ==
    /\ Base(y)
    /\ \A c \in Clients \ {d.client} : ArmedAt(y.client[c]) /\ KeyedAt(y.client[c], c)
    /\ ArmedAt(y.client[d.client])
    /\ y.client[d.client].fec => y.client[d.client].on /\ y.pkg
    /\ y.client[d.client].key \in KeysOf[d.client] \cup {0}

\* The members speak of a datagram of the client c, which is not a GoodTP packet
\* without a key.
Marked(x, c) == (x.pkg => x.key # 0) /\ x.key \in KeysOf[c] \cup {0}

LEMMA CreateSocketFacts ==
    ASSUME NEW x, Base(x), NEW r \in CreateSocket(x)
    PROVE  \/ r[2] = NoFd /\ SameSessions(x, r[1]) /\ r[1].pkg = x.pkg /\ r[1].key = x.key
           \/ r[2] \in Fds \ x.open /\ r[1] = Opened(x, r[2])
<1> DEFINE Failed(f) == [x EXCEPT !.open = (@ \cup {f}) \ {f}]
<1>1. \/ r = <<x, NoFd>>
      \/ \E f \in Fds \ x.open : r = <<Opened(x, f), f>> \/ r = <<Failed(f), NoFd>>
  BY Zenon DEF CreateSocket, Opened
<1>2. ASSUME NEW f \in Fds \ x.open
      PROVE  SameSessions(x, Failed(f)) /\ Failed(f).pkg = x.pkg /\ Failed(f).key = x.key
  BY DEF SameSessions, Alike, Base, Shape, WorkerFields
<1> HIDE DEF Failed
<1>3. CASE r = <<x, NoFd>>
  BY <1>3, SameSessionsRefl DEF Base
<1>4. ASSUME NEW f \in Fds \ x.open, r = <<Opened(x, f), f>> \/ r = <<Failed(f), NoFd>>
      PROVE  \/ r[2] = NoFd /\ SameSessions(x, r[1]) /\ r[1].pkg = x.pkg /\ r[1].key = x.key
             \/ r[2] \in Fds \ x.open /\ r[1] = Opened(x, r[2])
  BY <1>2, <1>4
<1> QED  BY <1>1, <1>3, <1>4

LEMMA CreatePairFacts ==
    ASSUME NEW x, Base(x), NEW l, NEW d \in Datagrams, x.client[d.client] = NoSession,
           \A c \in Clients \ {d.client} : ArmedAt(x.client[c]) /\ KeyedAt(x.client[c], c),
           d.pwd \in DOMAIN x.list, NEW y \in CreatePair(x, l, d)
    PROVE  Paired(y, d) /\ y.pkg = x.pkg /\ y.key = x.key
<1>1. d.client \in Clients
  BY DEF Datagrams
<1> DEFINE Full(r) == [r[1] EXCEPT !.client[d.client] = NewPair(x, l, d, r[2]),
                                   !.server[r[2]] = d.client]
<1>2. PICK r \in CreateSocket(x) : y = IF r[2] = NoFd THEN r[1] ELSE Full(r)
  BY Zenon DEF CreatePair, NewPair
<1> HIDE DEF Full
<1>3. \/ r[2] = NoFd /\ SameSessions(x, r[1]) /\ r[1].pkg = x.pkg /\ r[1].key = x.key
      \/ r[2] \in Fds \ x.open /\ r[1] = Opened(x, r[2])
  BY CreateSocketFacts
<1>4. CASE r[2] = NoFd
  <2>1. y = r[1] /\ SameSessions(x, y) /\ y.pkg = x.pkg /\ y.key = x.key
    BY <1>2, <1>3, <1>4, ProxyAssumption DEF NoFd
  <2>2. Base(y) /\ y.client = x.client
    BY <2>1, AlikeBase DEF SameSessions
  <2> QED  BY <1>1, <2>1, <2>2, NoSessionFacts DEF Paired, ArmedAt
<1>5. CASE r[2] # NoFd
  <2> DEFINE f == r[2]
             s == NewPair(x, l, d, f)
  <2>1. f \in Fds \ x.open /\ y = Full(r) /\ r[1] = Opened(x, f)
    BY <1>2, <1>3, <1>5
  <2>2. y = Created(x, d.client, s, f)
    BY <2>1 DEF Full, Created
  <2>3. /\ DOMAIN s = SessionFields /\ s.on = TRUE /\ s.fd = f /\ s.queue = 0
        /\ s.fec = x.pkg /\ s.key = 0 /\ s.pwd = d.pwd /\ s.user = x.list[d.pwd]
    BY DEF NewPair, SessionFields
  <2> HIDE DEF s, f
  <2>4. Authorised(x, s)
    BY <2>3 DEF Authorised
  <2>5. /\ Base(y) /\ y.client[d.client] = s
        /\ \A e \in Clients \ {d.client} : y.client[e] = x.client[e]
        /\ y.pkg = x.pkg /\ y.key = x.key
    BY <1>1, <2>1, <2>2, <2>3, <2>4, CreatedFacts, NoSessionFacts
  <2>6. ArmedAt(s)
    BY <2>3 DEF ArmedAt
  <2> QED  BY <2>3, <2>5, <2>6 DEF Paired
<1> QED  BY <1>4, <1>5

Flagged(s, b) == [s EXCEPT !.fec = b]
Keyed(s, k) == [s EXCEPT !.age = 0, !.key = k]

LEMMA FlaggedFacts ==
    ASSUME NEW s, DOMAIN s = SessionFields, s.queue \in Nat, NEW b, NEW k
    PROVE  /\ SameOwner(s, Flagged(s, b)) /\ Flagged(s, b).fec = b /\ Flagged(s, b).key = s.key
           /\ ArmedAt(s) => ArmedAt(Flagged(s, b))
           /\ SameOwner(s, Keyed(s, k)) /\ Keyed(s, k).key = k /\ Keyed(s, k).fec = s.fec
           /\ ArmedAt(s) => ArmedAt(Keyed(s, k))
BY DEF Flagged, Keyed, SameOwner, SessionFields, ArmedAt

LEMMA GetPairFacts ==
    ASSUME NEW x, Good(x), NEW l, NEW d \in Datagrams, d.pwd \in DOMAIN x.list,
           NEW y \in GetPair(x, l, d)
    PROVE  Paired(y, d) /\ y.pkg = x.pkg /\ y.key = x.key
<1> DEFINE c == d.client
<1>1. c \in Clients
  BY DEF Datagrams
<1>2. CASE Fits(x.client[c], l, d)
  <2> DEFINE s == Flagged(x.client[c], x.pkg)
  <2>1. y = SetSession(x, c, s)
    BY <1>2 DEF GetPair, SetSession, Flagged
  <2>2. Shape(x) /\ DOMAIN x.client[c] = SessionFields /\ x.client[c].queue \in Nat
    BY <1>1 DEF Good, Base, Shape
  <2>3. SameOwner(x.client[c], s) /\ s.fec = x.pkg /\ s.key = x.client[c].key /\ ArmedAt(s)
    BY <1>1, <2>2, FlaggedFacts DEF Good
  <2> HIDE DEF s, c
  <2>4. /\ Alike(x, y) /\ y.client[c] = s /\ y.pkg = x.pkg /\ y.key = x.key
        /\ \A e \in Clients \ {c} : y.client[e] = x.client[e]
    BY <1>1, <2>1, <2>2, <2>3, SetSessionAlike
  <2>5. Base(y)
    BY <2>4, AlikeBase DEF Good
  <2>6. x.client[c].fd # NoFd /\ x.client[c].on
    BY <1>1, <1>2 DEF Good, Base, Owned, Fits
  <2>7. x.client[c].key \in KeysOf[c] \cup {0}
    BY <1>1 DEF Good, KeyedAt
  <2> QED  BY <2>3, <2>4, <2>5, <2>6, <2>7 DEF Paired, Good, c, SameOwner
<1>3. CASE ~ Fits(x.client[c], l, d)
  <2>1. PICK z \in Forget(x, c) : y \in CreatePair(z, l, d)
    BY <1>3 DEF GetPair
  <2>2. /\ Base(z) /\ z.client[c] = NoSession /\ z.list = x.list
        /\ \A e \in Clients \ {c} : z.client[e] = x.client[e]
        /\ z.pkg = x.pkg /\ z.key = x.key
    BY <1>1, <2>1, ForgetFacts DEF Good
  <2> QED  BY <2>1, <2>2, CreatePairFacts DEF Good
<1> QED  BY <1>2, <1>3

LEMMA TouchFacts ==
    ASSUME NEW x, NEW d \in Datagrams, Paired(x, d), Marked(x, d.client)
    PROVE  Good(Touch(x, d))
<1> DEFINE c == d.client
           y == Touch(x, d)
<1>1. c \in Clients
  BY DEF Datagrams
<1>2. CASE ~ x.client[c].on
  <2>1. KeyedAt(x.client[c], c)
    BY <1>2 DEF Paired, KeyedAt
  <2> QED  BY <1>2, <2>1 DEF Touch, Paired, Good
<1>3. CASE x.client[c].on
  <2> DEFINE k == IF x.key # 0 THEN x.key ELSE x.client[c].key
             s == Keyed(x.client[c], k)
  <2>1. Shape(x) /\ DOMAIN x.client[c] = SessionFields /\ x.client[c].queue \in Nat
    BY <1>1 DEF Paired, Base, Shape
  <2>2. y = SetSession(x, c, s)
    <3> DEFINE z == [x EXCEPT !.client[c].age = 0]
               C(q) == [z EXCEPT !.client[c].key = q]
    <3>1. z.client[c].key = x.client[c].key
      BY <1>1, <2>1 DEF Shape, WorkerFields, SessionFields
    <3>2. y = C(IF x.key # 0 THEN x.key ELSE z.client[c].key)
      BY <1>3 DEF Touch
    <3>3. \A q : C(q) = SetSession(x, c, Keyed(x.client[c], q))
      BY <1>1, <2>1 DEF SetSession, Keyed, Shape, WorkerFields
    <3> HIDE DEF y, C, z
    <3> QED  BY <3>1, <3>2, <3>3
  <2>3. SameOwner(x.client[c], s) /\ s.key = k /\ s.fec = x.client[c].fec /\ ArmedAt(s)
    BY <2>1, FlaggedFacts DEF Paired
  <2> HIDE DEF s, c, y
  <2>4. /\ Alike(x, y) /\ y.client[c] = s /\ y.pkg = x.pkg /\ y.key = x.key
        /\ \A e \in Clients \ {c} : y.client[e] = x.client[e]
    BY <1>1, <2>1, <2>2, <2>3, SetSessionAlike
  <2>5. Base(y)
    BY <2>4, AlikeBase DEF Paired
  <2>6. KeyedAt(s, c)
    BY <2>3 DEF KeyedAt, Paired, Marked, c
  <2> QED  BY <2>3, <2>4, <2>5, <2>6 DEF Paired, Good, c, y
<1> QED  BY <1>2, <1>3

\* A session that cannot be served loses its socket.
LEMMA ServedGood ==
    ASSUME NEW x, Good(x), NEW c \in Clients, NEW y, NEW ok, AlikeBut(x, y, c),
           ok => ArmedAt(y.client[c])
    PROVE  Good(IF ok THEN y ELSE Close(y, c))
<1>1. CASE ok
  BY <1>1, AlikeButGood
<1>2. CASE ~ ok
  <2> DEFINE z == Close(y, c)
  <2>1. Base(y)
    BY AlikeBase DEF Good, AlikeBut
  <2>2. Closed(y, z, c)
    BY <2>1, CloseFacts
  <2> HIDE DEF z
  <2>3. ArmedAt(z.client[c]) /\ KeyedAt(z.client[c], c)
    BY <2>2 DEF Closed, ArmedAt, KeyedAt, Good, AlikeBut
  <2>4. Good(z)
    BY <2>2, <2>3 DEF Closed, Good, AlikeBut
  <2> QED  BY <1>2, <2>4 DEF z
<1> QED  BY <1>1, <1>2

LEMMA ServeFacts ==
    ASSUME NEW x, Good(x), NEW d \in Datagrams, NEW y \in Serve(x, d)
    PROVE  Good(y)
<1>1. d.client \in Clients /\ Shape(x)
  BY DEF Datagrams, Good, Base
<1>2. CASE d.type = "control"
  BY <1>1, <1>2, ReplyFacts, SameSessionsGood DEF Serve
<1>3. CASE d.type = "odd"
  BY <1>3 DEF Serve
<1>4. CASE d.type # "control" /\ d.type # "odd"
  <2>1. PICK r \in SendServer(x, d.client) : y = IF r[2] THEN r[1] ELSE Close(r[1], d.client)
    BY <1>4 DEF Serve
  <2>2. /\ AlikeBut(x, r[1], d.client)
        /\ ArmedAt(x.client[d.client]) /\ r[2] => ArmedAt(r[1].client[d.client])
    BY <1>1, <2>1, SendServerFacts
  <2>3. ArmedAt(x.client[d.client])
    BY <1>1 DEF Good
  <2> QED  BY <1>1, <2>1, <2>2, <2>3, ServedGood
<1> QED  BY <1>2, <1>3, <1>4

LEMMA HandleClientDataFacts ==
    ASSUME NEW x, Good(x), NEW l, NEW d \in Datagrams, Marked(x, d.client),
           NEW y \in HandleClientData(x, l, d)
    PROVE  Good(y)
<1>1. Shape(x)
  BY DEF Good, Base
<1>2. CASE d.type = "echo"
  BY <1>1, <1>2, FecSendFacts, SendClientFacts, SameSessionsGood DEF HandleClientData
<1>3. CASE d.type # "echo" /\ d.pwd \notin DOMAIN x.list
  BY <1>3 DEF HandleClientData
<1>4. CASE d.type # "echo" /\ d.pwd \in DOMAIN x.list
  <2>1. PICK z \in GetPair(x, l, d) :
           y \in IF Touch(z, d).client[d.client].on THEN Serve(Touch(z, d), d)
                 ELSE {Touch(z, d)}
    BY <1>4 DEF HandleClientData
  <2>2. Good(Touch(z, d))
    BY <1>4, <2>1, GetPairFacts, TouchFacts DEF Marked
  <2> QED  BY <2>1, <2>2, ServeFacts
<1> QED  BY <1>2, <1>3, <1>4

LEMMA MarkGood ==
    ASSUME NEW x, Good(x), NEW k
    PROVE  /\ Good(Mark(x, TRUE, k)) /\ Mark(x, TRUE, k).key = k
           /\ Good(Mark(x, FALSE, k)) /\ Mark(x, FALSE, k).key = k /\ ~ Mark(x, FALSE, k).pkg
<1>1. Shape(x)
  BY DEF Good, Base
<1>2. SameSessions(x, Mark(x, TRUE, k)) /\ SameSessions(x, Mark(x, FALSE, k))
  BY <1>1, MarkFacts, Zenon
<1>3. Good(Mark(x, TRUE, k)) /\ Good(Mark(x, FALSE, k))
  BY <1>2, SameSessionsGood, Zenon
<1>4. Mark(x, TRUE, k).key = k /\ Mark(x, FALSE, k).key = k /\ ~ Mark(x, FALSE, k).pkg
  BY <1>1 DEF Mark, Shape, WorkerFields
<1> QED  BY <1>3, <1>4

LEMMA RecvPduCbFacts ==
    ASSUME NEW x, Good(x), NEW l, NEW d \in Datagrams, d.key # 0, NEW y \in RecvPduCb(x, l, d)
    PROVE  Good(y)
<1> DEFINE z == Mark(x, TRUE, d.key)
<1>1. Good(z) /\ z.key = d.key
  BY MarkGood
<1>2. y \in HandleClientData(z, l, d)
  BY DEF RecvPduCb
<1> HIDE DEF z
<1>3. Marked(z, d.client)
  BY <1>1 DEF Marked, Datagrams
<1> QED  BY <1>1, <1>2, <1>3, HandleClientDataFacts

LEMMA ListenRecvFacts ==
    ASSUME NEW x, Good(x), NEW l, NEW d \in Datagrams, NEW y \in ListenRecv(x, l, d)
    PROVE  Good(y)
<1>1. CASE d.fec
  <2> DEFINE z == Mark(x, TRUE, d.key)
  <2>1. Good(z) /\ z.key = d.key
    BY MarkGood
  <2>2. y \in RecvFecPdu(z, l, d)
    BY <1>1 DEF ListenRecv
  <2> HIDE DEF z
  <2>3. y = z \/ (d.key # 0 /\ y \in RecvPduCb(z, l, d))
    BY <2>1, <2>2 DEF RecvFecPdu
  <2> QED  BY <2>1, <2>3, RecvPduCbFacts
<1>2. CASE ~ d.fec
  <2> DEFINE z == Mark(x, FALSE, 0)
  <2>1. Good(z) /\ ~ z.pkg /\ z.key = 0
    BY MarkGood
  <2>2. y \in HandleClientData(z, l, d)
    BY <1>2 DEF ListenRecv
  <2> HIDE DEF z
  <2>3. Marked(z, d.client)
    BY <2>1 DEF Marked
  <2> QED  BY <2>1, <2>2, <2>3, HandleClientDataFacts
<1> QED  BY <1>1, <1>2

LEMMA FecWheelFacts ==
    ASSUME NEW x, Good(x), NEW y \in FecWheel(x)  PROVE Good(y)
<1>1. \/ y = x
      \/ \E l \in x.listen, d \in HeldFrames : y \in RecvPduCb(x, l, d)
      \/ \E l, c, k : y \in FecSend(x, l, c, k)
  <2> DEFINE H(l) == UNION {RecvPduCb(x, l, d) : d \in HeldFrames}
             S(l) == UNION {UNION {FecSend(x, l, c, k) : k \in KeysOf[c]} : c \in Clients}
  <2>1. y = x \/ \E l \in x.listen : y \in H(l) \cup S(l)
    <3> HIDE DEF H, S
    <3>1. FecWheel(x) = {x} \cup UNION {H(l) \cup S(l) : l \in x.listen}
      BY DEF FecWheel, H, S
    <3> QED  BY <3>1
  <2>2. \A l : y \in H(l) => \E d \in HeldFrames : y \in RecvPduCb(x, l, d)
    OBVIOUS
  <2>3. \A l : y \in S(l) => \E c, k : y \in FecSend(x, l, c, k)
    OBVIOUS
  <2> HIDE DEF H, S
  <2> QED  BY <2>1, <2>2, <2>3
<1>2. ASSUME NEW l, NEW d \in HeldFrames, y \in RecvPduCb(x, l, d)  PROVE Good(y)
  BY <1>2, RecvPduCbFacts DEF HeldFrames
<1>3. ASSUME NEW l, NEW c, NEW k, y \in FecSend(x, l, c, k)  PROVE Good(y)
  BY <1>3, FecSendFacts, SameSessionsGood DEF Good, Base
<1> QED  BY <1>1, <1>2, <1>3

-----------------------------------------------------------------------------
(* Housekeeping.                                                           *)

\* clear_game_server_socket_4_timeout: the sessions cs hold sockets of their own.
LEMMA ClearServersFacts ==
    ASSUME NEW x, Shape(x), Owned(x), NEW cs \in SUBSET Clients,
           \A c \in cs : x.client[c].fd # NoFd,
           \A c \in Clients : ArmedAt(x.client[c]) /\ KeyedAt(x.client[c], c)
    PROVE  LET y == ClearServers(x, cs)
           IN  /\ Shape(y) /\ Owned(y) /\ y.list = x.list
               /\ \A c \in cs : y.client[c] = NoSession
               /\ \A c \in Clients \ cs : y.client[c] = x.client[c]
<1> DEFINE y == ClearServers(x, cs)
<1>1. /\ DOMAIN y = WorkerFields /\ DOMAIN y.client = Clients /\ DOMAIN y.server = Fds
      /\ y.open = x.open \ {x.client[c].fd : c \in cs} /\ y.list = x.list
      /\ \A c \in cs : y.client[c] = NoSession
      /\ \A c \in Clients \ cs : y.client[c] = x.client[c]
      /\ \A f \in Fds : y.server[f] = IF x.server[f] \in cs THEN None ELSE x.server[f]
  BY DEF ClearServers, Shape, WorkerFields
<1> HIDE DEF y
<1>2. Shape(y)
  BY <1>1, NoSessionFacts DEF Shape
<1>3. None \notin Clients
  BY ProxyAssumption DEF None
<1>4. \A f \in Fds : y.server[f] # None => f \in y.open /\ y.client[y.server[f]].fd = f
  <2> SUFFICES ASSUME NEW f \in Fds, y.server[f] # None
               PROVE  f \in y.open /\ y.client[y.server[f]].fd = f
    OBVIOUS
  <2>1. x.server[f] \notin cs /\ y.server[f] = x.server[f] /\ x.server[f] \in Clients
    BY <1>1 DEF Shape
  <2>2. f \in x.open /\ x.client[x.server[f]].fd = f
    BY <2>1 DEF Owned
  <2>3. \A c \in cs : x.client[c].fd # f
    BY <2>1 DEF Owned
  <2> QED  BY <2>1, <2>2, <2>3, <1>1
<1>5. \A f \in y.open : y.server[f] # None
  <2> SUFFICES ASSUME NEW f \in y.open  PROVE y.server[f] # None
    OBVIOUS
  <2>1. f \in x.open /\ f \in Fds /\ x.server[f] # None /\ \A c \in cs : x.client[c].fd # f
    BY <1>1 DEF Shape, Owned
  <2>2. x.server[f] \notin cs
    BY <2>1 DEF Owned
  <2> QED  BY <2>1, <2>2, <1>1
<1>6. \A c \in Clients : y.client[c].fd # NoFd
         => y.client[c].on /\ y.server[y.client[c].fd] = c
  <2> SUFFICES ASSUME NEW c \in Clients, y.client[c].fd # NoFd
               PROVE  y.client[c].on /\ y.server[y.client[c].fd] = c
    OBVIOUS
  <2>1. c \notin cs /\ y.client[c] = x.client[c]
    BY <1>1, NoSessionFacts
  <2>2. x.client[c].on /\ x.server[x.client[c].fd] = c /\ x.client[c].fd \in Fds
    BY <2>1 DEF Owned, Shape
  <2> QED  BY <2>1, <2>2, <1>1
<1> QED  BY <1>1, <1>2, <1>4, <1>5, <1>6 DEF Owned, y

\* After it no session has a socket that is not its user's, so that
\* clear_game_client_socket_4_timeout finds nothing that holds one.
LEMMA ClearSocketsFacts ==
    ASSUME NEW x, Shape(x), Owned(x), NEW y \in ClearSockets(x),
           \A c \in Clients : ArmedAt(x.client[c]) /\ KeyedAt(x.client[c], c)
    PROVE  Good(y)
<1> DEFINE cs == {c \in Clients : /\ x.client[c].fd # NoFd
                                  /\ x.server[x.client[c].fd] = c
                                  /\ Expired(x, x.client[c])}
           z == ClearServers(x, cs)
           ds == {c \in Clients : z.client[c].fd # NoFd /\ Expired(z, z.client[c])}
<1>1. y = ClearClients(z, ds)
  <2> DEFINE D(v) == {c \in Clients : v.client[c].fd # NoFd /\ Expired(v, v.client[c])}
  <2>1. ClearSockets(x) =
           UNION {{ClearClients(v, es) : es \in {D(v)}} : v \in {ClearServers(x, bs) : bs \in {cs}}}
    BY DEF ClearSockets
  <2> HIDE DEF D, cs
  <2>2. y = ClearClients(ClearServers(x, cs), D(ClearServers(x, cs)))
    BY <2>1
  <2> QED  BY <2>2 DEF D
<1>2. /\ Shape(z) /\ Owned(z) /\ z.list = x.list
      /\ \A c \in cs : z.client[c] = NoSession
      /\ \A c \in Clients \ cs : z.client[c] = x.client[c]
  <2>1. cs \in SUBSET Clients /\ \A c \in cs : x.client[c].fd # NoFd
    OBVIOUS
  <2> HIDE DEF cs
  <2> QED  BY <2>1, ClearServersFacts
<1> HIDE DEF z
<1>3. \A c \in Clients : z.client[c].fd # NoFd => ~ Expired(z, z.client[c])
  <2> SUFFICES ASSUME NEW c \in Clients, z.client[c].fd # NoFd
               PROVE  ~ Expired(z, z.client[c])
    OBVIOUS
  <2>1. c \notin cs /\ z.client[c] = x.client[c]
    BY <1>2, NoSessionFacts
  <2>2. ~ Expired(x, x.client[c])
    BY <2>1 DEF Owned
  <2> QED  BY <1>2, <2>1, <2>2 DEF Expired, Authorised
<1>4. ds = {}
  BY <1>3
<1>5. /\ DOMAIN y = WorkerFields /\ DOMAIN y.client = Clients
      /\ \A c \in Clients : y.client[c] = z.client[c]
      /\ y.server = z.server /\ y.open = z.open /\ y.list = z.list
  BY <1>1, <1>2, <1>4 DEF ClearClients, Shape, WorkerFields
<1>6. Shape(y) /\ Owned(y)
  BY <1>2, <1>5 DEF Shape, Owned
<1>7. Permitted(y)
  BY <1>3, <1>5 DEF Permitted, Expired, Authorised
<1>8. \A c \in Clients : ArmedAt(y.client[c]) /\ KeyedAt(y.client[c], c)
  <2>1. ArmedAt(NoSession) /\ \A c : KeyedAt(NoSession, c)
    BY NoSessionFacts DEF ArmedAt, KeyedAt
  <2> QED  BY <1>2, <1>5, <2>1
<1> QED  BY <1>6, <1>7, <1>8 DEF Good, Base

LEMMA HousekeepingFacts ==
    ASSUME NEW x, Good(x), NEW y \in Housekeeping(x)  PROVE Good(y)
<1> DEFINE z == [x EXCEPT !.since = 0, !.list = IF users.seen THEN @ ELSE users.list]
<1>1. y = x \/ y \in ClearSockets(z)
  BY DEF Housekeeping
<1>2. Shape(z) /\ z.client = x.client /\ z.server = x.server /\ z.open = x.open
  BY DEF Good, Base, Shape, WorkerFields
<1> HIDE DEF z
<1>3. Owned(z)
  BY <1>2 DEF Good, Base, Owned
<1> QED  BY <1>1, <1>2, <1>3, ClearSocketsFacts DEF Good

-----------------------------------------------------------------------------
(* The specification.                                                      *)

LEMMA InitGood == Init => Good(w)
<1> SUFFICES ASSUME Init  PROVE Good(w)
  OBVIOUS
<1>1. /\ DOMAIN w = WorkerFields /\ w.client = [c \in Clients |-> NoSession]
      /\ w.server = [f \in Fds |-> None] /\ w.open = {}
  BY DEF Init, WorkerFields
<1>2. Shape(w) /\ Owned(w) /\ Permitted(w)
  BY <1>1, NoSessionFacts DEF Shape, Owned, Permitted
<1>3. ArmedAt(NoSession) /\ \A c : KeyedAt(NoSession, c)
  BY NoSessionFacts DEF ArmedAt, KeyedAt
<1> QED  BY <1>1, <1>2, <1>3 DEF Good, Base

\* A step that changes nothing the sessions are made of.
LEMMA ControlFacts ==
    ASSUME NEW x, Good(x), NEW y, DOMAIN y = WorkerFields, y.client = x.client,
           y.server = x.server, y.open = x.open, y.list = x.list
    PROVE  Good(y)
<1>1. SameSessions(x, y)
  BY DEF Good, Base, Shape, SameSessions, Alike
<1> QED  BY <1>1, SameSessionsGood

LEMMA OlderFacts ==
    ASSUME NEW s, DOMAIN s = SessionFields, s.queue \in Nat
    PROVE  /\ SameOwner(s, Older(s))
           /\ ArmedAt(s) => ArmedAt(Older(s))
           /\ \A c : KeyedAt(s, c) => KeyedAt(Older(s), c)
<1> DEFINE Aged(n) == [s EXCEPT !.age = n]
<1>1. ASSUME NEW n
      PROVE  /\ SameOwner(s, Aged(n)) /\ Aged(n).queue = s.queue /\ Aged(n).pollout = s.pollout
             /\ Aged(n).fec = s.fec /\ Aged(n).key = s.key
  BY DEF SameOwner, SessionFields
<1>2. Older(s) = s \/ \E n : Older(s) = Aged(n)
  BY DEF Older
<1>3. SameOwner(s, s)
  BY DEF SameOwner
<1> HIDE DEF Aged
<1> QED  BY <1>1, <1>2, <1>3 DEF ArmedAt, KeyedAt, SameOwner

LEMMA TickGood == ASSUME Good(w), Tick  PROVE Good(w')
<1> DEFINE y == w'
<1>1. /\ DOMAIN w = WorkerFields /\ DOMAIN w.client = Clients
      /\ \A c \in Clients : DOMAIN w.client[c] = SessionFields /\ w.client[c].queue \in Nat
  BY DEF Good, Base, Shape
<1>2. /\ DOMAIN y = WorkerFields /\ y.client = [c \in Clients |-> Older(w.client[c])]
      /\ y.server = w.server /\ y.open = w.open /\ y.list = w.list
  BY <1>1 DEF Tick, WorkerFields
<1> HIDE DEF y
<1>3. \A c \in Clients : /\ SameOwner(w.client[c], y.client[c])
                         /\ ArmedAt(w.client[c]) => ArmedAt(y.client[c])
                         /\ KeyedAt(w.client[c], c) => KeyedAt(y.client[c], c)
  BY <1>1, <1>2, OlderFacts
<1>4. Alike(w, y)
  BY <1>2, <1>3 DEF Alike, Shape, SameOwner, Good, Base
<1>5. Base(y)
  BY <1>4, AlikeBase DEF Good
<1> QED  BY <1>3, <1>5 DEF Good, y

\* handle_game_server_recv: the session is active again.
LEMMA RecvFromServerGood == ASSUME Good(w), RecvFromServer  PROVE Good(w')
<1>1. PICK f \in w.open : /\ w.server[f] # None
                          /\ w' \in Reply([w EXCEPT !.client[w.server[f]].age = 0], w.server[f])
  BY DEF RecvFromServer
<1> DEFINE c == w.server[f]
           s == [w.client[c] EXCEPT !.age = 0]
           x == SetSession(w, c, s)
<1>2. c \in Clients /\ Shape(w)
  BY <1>1 DEF Good, Base, Shape
<1>3. w' \in Reply(x, c)
  BY <1>1 DEF SetSession
<1>4. /\ SameOwner(w.client[c], s) /\ s.fec = w.client[c].fec /\ s.key = w.client[c].key
      /\ ArmedAt(w.client[c]) => ArmedAt(s)
  <2> HIDE DEF c
  <2>1. DOMAIN w.client[c] = SessionFields /\ w.client[c].queue \in Nat
    BY <1>2 DEF Shape
  <2> QED  BY <2>1 DEF SameOwner, SessionFields, ArmedAt
<1> HIDE DEF s, c
<1>5. AlikeBut(w, x, c) /\ x.client[c] = s
  BY <1>2, <1>4, SetSessionAlike DEF AlikeBut
<1> HIDE DEF x
<1>6. Good(x)
  BY <1>2, <1>4, <1>5, AlikeButGood DEF Good
<1> QED  BY <1>3, <1>6, ReplyFacts, SameSessionsGood DEF Good, Base

\* handle_game_server_events with EPOLLOUT.
LEMMA ServerWritableGood == ASSUME Good(w), ServerWritable  PROVE Good(w')
<1>0. PICK f \in w.open :
         /\ w.server[f] # None
         /\ \E r \in FlushServer(w, w.server[f]) :
               w' = IF r[2] THEN r[1] ELSE Close(r[1], w.server[f])
  BY DEF ServerWritable
<1>1. PICK r \in FlushServer(w, w.server[f]) :
         w' = IF r[2] THEN r[1] ELSE Close(r[1], w.server[f])
  BY <1>0
<1>2. w.server[f] \in Clients /\ Shape(w)
  BY <1>0 DEF Good, Base, Shape
<1>3. AlikeBut(w, r[1], w.server[f]) /\ ArmedAt(r[1].client[w.server[f]])
  BY <1>1, <1>2, FlushServerFacts DEF Good
<1> QED  BY <1>1, <1>2, <1>3, ServedGood

LEMMA StopGood == ASSUME Good(w), Stop  PROVE Good(w')
<1> DEFINE y == w'
<1>1. /\ DOMAIN y = WorkerFields /\ y.client = [c \in Clients |-> NoSession]
      /\ y.server = [f \in Fds |-> None] /\ y.open = {}
  BY DEF Stop, Good, Base, Shape, WorkerFields
<1> HIDE DEF y
<1>2. Shape(y) /\ Owned(y) /\ Permitted(y)
  BY <1>1, NoSessionFacts DEF Shape, Owned, Permitted
<1>3. ArmedAt(NoSession) /\ \A c : KeyedAt(NoSession, c)
  BY NoSessionFacts DEF ArmedAt, KeyedAt
<1> QED  BY <1>1, <1>2, <1>3 DEF Good, Base, y

LEMMA NextGood == Good(w) /\ [Next]_vars => Good(w)'
<1> SUFFICES ASSUME Good(w), [Next]_vars  PROVE Good(w')
  OBVIOUS
<1>1. CASE Start
  <2>1. /\ DOMAIN w' = WorkerFields /\ w'.client = w.client
        /\ w'.server = w.server /\ w'.open = w.open /\ w'.list = w.list
    BY <1>1 DEF Start, Good, Base, Shape, WorkerFields
  <2> QED  BY <2>1, ControlFacts
<1>2. CASE Stop
  BY <1>2, StopGood
<1>3. CASE Tick
  BY <1>3, TickGood
<1>4. CASE BeforeHandle
  BY <1>4, FecWheelFacts, HousekeepingFacts DEF BeforeHandle
<1>5. CASE RecvFromClient
  <2>1. PICK l \in w.listen, d \in Datagrams : w' \in ListenRecv(w, l, d)
    BY <1>5 DEF RecvFromClient
  <2> QED  BY <2>1, ListenRecvFacts
<1>6. CASE RecvFromServer
  BY <1>6, RecvFromServerGood
<1>7. CASE ServerWritable
  BY <1>7, ServerWritableGood
<1>8. CASE ListenerWritable
  <2>1. PICK l \in w.lpollout : w' \in FlushClient(w, l)
    BY <1>8 DEF ListenerWritable
  <2> QED  BY <2>1, FlushClientFacts, SameSessionsGood DEF Good, Base
<1>9. CASE SyncStart \/ SyncRound \/ SyncEvent \/ UNCHANGED vars
  BY <1>9 DEF SyncStart, SyncRound, SyncEvent, vars
<1> QED  BY <1>1, <1>2, <1>3, <1>4, <1>5, <1>6, <1>7, <1>8, <1>9 DEF Next

\* The worker keeps its relations, its sockets, its list and its queues in
\* agreement.
THEOREM WorkerGood == Spec => []Good(w)
BY InitGood, NextGood, PTL DEF Spec

\* Every open game socket belongs to the session of one client and is closed
\* with it, whatever replaces, revokes or times out sessions
\* (get_game_client_pair_seesion, handle_game_server_close, clear_socket_4_timeout).
THEOREM NoSocketLeaks == Spec => []SocketsAccounted
<1>1. Good(w) => SocketsAccounted
  <2> SUFFICES ASSUME Good(w)  PROVE SocketsAccounted
    OBVIOUS
  <2>1. w.open = {f \in Fds : w.server[f] # None}
    BY DEF Good, Base, Shape, Owned
  <2>2. \A f \in w.open : w.client[w.server[f]].on /\ w.client[w.server[f]].fd = f
    <3> TAKE f \in w.open
    <3>1. w.server[f] \in Clients /\ w.client[w.server[f]].fd = f
      BY DEF Good, Base, Shape, Owned
    <3>2. f # NoFd
      BY ProxyAssumption DEF Good, Base, Shape, NoFd
    <3> QED  BY <3>1, <3>2 DEF Good, Base, Owned
  <2>3. \A c \in Clients : w.client[c].fd # NoFd => w.server[w.client[c].fd] = c
    BY DEF Good, Base, Owned
  <2> QED  BY <2>1, <2>2, <2>3 DEF SocketsAccounted
<1> QED  BY <1>1, WorkerGood, PTL

\* Once the worker has taken a list of users (update_auth_info_s_custom), it
\* serves nobody who is not on it.
THEOREM RevokedUsersGone == Spec => []NoRevokedSession
<1>1. Good(w) => NoRevokedSession
  <2> SUFFICES ASSUME Good(w), NEW f \in w.open  PROVE Authorised(w, w.client[w.server[f]])
    BY DEF NoRevokedSession
  <2> DEFINE c == w.server[f]
  <2>1. c \in Clients /\ w.client[c].fd = f
    BY DEF Good, Base, Shape, Owned
  <2>2. f # NoFd
    BY ProxyAssumption DEF Good, Base, Shape, NoFd
  <2> HIDE DEF c
  <2>3. Authorised(w, w.client[c])
    BY <2>1, <2>2 DEF Good, Base, Permitted
  <2> QED  BY <2>3 DEF c
<1> QED  BY <1>1, WorkerGood, PTL

\* What waits for a game server waits on a socket whose EPOLLOUT is asked for:
\* a session for which epoll_ctl failed has lost its socket.
THEOREM NothingWaitsUnarmed == Spec => []QueuedArmed
<1>1. Good(w) => QueuedArmed
  BY DEF Good, ArmedAt, QueuedArmed
<1> QED  BY <1>1, WorkerGood, PTL

\* A session answers in a stream of its own client or in none, and through GoodTP
\* never without a key, although the member fec_stream_key_ is shared by all
\* datagrams and overwritten by the callbacks (recv_pdu_cb, send_fec_pdu_cb): every
\* path sets it before handle_game_client_data reads it.
THEOREM DownlinkHasKey == Spec => []DownlinkKeyed
<1>1. Good(w) => DownlinkKeyed
  BY DEF Good, KeyedAt, DownlinkKeyed
<1> QED  BY <1>1, WorkerGood, PTL

-----------------------------------------------------------------------------
(* The demo and the table of instances. *)

LEMMA LeastNatural ==
    ASSUME NEW S \in SUBSET Nat, S # {}
    PROVE  \E m \in S : \A n \in S : m <= n
<1>1. \E R : /\ \A x, y \in Nat : <<x, y>> \in R <=> x < y
             /\ \E m \in S : \A n \in S : ~(<<n, m>> \in R)
  <2>1. \E m \in S : \A n \in S : ~(<<n, m>> \in OpToRel(<, Nat))
    BY NatLessThanWellFounded, WFMin
  <2>2. \A x, y \in Nat : <<x, y>> \in OpToRel(<, Nat) <=> x < y
    BY DEF OpToRel
  <2>3. QED  BY <2>1, <2>2, Zenon
<1>2. PICK R : /\ \A x, y \in Nat : <<x, y>> \in R <=> x < y
               /\ \E m \in S : \A n \in S : ~(<<n, m>> \in R)
  BY <1>1
<1>3. PICK m \in S : \A n \in S : ~(<<n, m>> \in R)
  BY <1>2
<1>4. \A n \in S : ~(n < m)
  BY <1>2, <1>3
<1>5. QED  BY <1>4

-----------------------------------------------------------------------------
(* The search for a free place.  A search up to last looks only at searches *)
(* that end before last.                                                    *)

Middle(first, last) == first + (last - first) \div 2
LeftPart(g, first, last) == g[Middle(first, last) - 1][first + 1]
IdleBody(mem, g, last) ==
    [first \in 0 .. MaxInst |->
        IF first > last THEN -1
        ELSE IF mem[first] = Nobody THEN first
        ELSE IF mem[last] = Nobody THEN last
        ELSE IF mem[Middle(first, last)] = Nobody THEN Middle(first, last)
        ELSE IF LeftPart(g, first, last) > -1 THEN LeftPart(g, first, last)
        ELSE g[last - 1][LeftPart(g, first, last) + 1]]

LEMMA MiddleFacts ==
    ASSUME NEW first \in Nat, NEW last \in Int, first <= last
    PROVE  Middle(first, last) \in first .. last
<1>1. (last - first) \div 2 \in 0 .. last - first
  OBVIOUS
<1> QED  BY <1>1 DEF Middle

LEMMA IdleBodyLocal ==
    ASSUME NEW mem, NEW g, NEW h, NEW last \in Int, \A n \in -1 .. last - 1 : g[n] = h[n]
    PROVE  IdleBody(mem, g, last) = IdleBody(mem, h, last)
<1>1. ASSUME NEW first \in 0 .. MaxInst, first <= last
      PROVE  LeftPart(g, first, last) = LeftPart(h, first, last) /\ g[last - 1] = h[last - 1]
  <2>1. Middle(first, last) \in first .. last
    BY <1>1, MiddleFacts
  <2>2. Middle(first, last) - 1 \in -1 .. last - 1 /\ last - 1 \in -1 .. last - 1
    BY <1>1, <2>1
  <2> QED  BY <2>2 DEF LeftPart
<1>2. \A first \in 0 .. MaxInst : first > last \/ first <= last
  OBVIOUS
<1> QED  BY <1>1, <1>2 DEF IdleBody

LEMMA IdleExists ==
    ASSUME NEW mem, NEW N \in Nat
    PROVE  \E g : g = [n \in -1 .. N - 1 |-> IdleBody(mem, g, n)]
<1> DEFINE Fun(k, g) == g = [n \in -1 .. k - 1 |-> IdleBody(mem, g, n)]
           T == {k \in Nat : ~\E g : Fun(k, g)}
<1>1. SUFFICES ASSUME T # {} PROVE FALSE
  OBVIOUS
<1>2. PICK k \in T : \A y \in T : k <= y
  BY <1>1, LeastNatural
<1>3. CASE k = 0
  <2> DEFINE h == [n \in -1 .. -1 |-> IdleBody(mem, <<>>, n)]
  <2>1. ASSUME NEW n \in -1 .. -1  PROVE IdleBody(mem, <<>>, n) = IdleBody(mem, h, n)
    BY IdleBodyLocal
  <2>2. h = [n \in -1 .. -1 |-> IdleBody(mem, h, n)]
    BY <2>1
  <2> HIDE DEF h
  <2>3. Fun(0, h)
    BY <2>2
  <2> QED  BY <1>3, <2>3
<1>4. CASE k # 0
  <2>1. k - 1 \in Nat /\ k - 1 \notin T
    BY <1>2, <1>4
  <2>2. PICK g : Fun(k - 1, g)
    BY <2>1
  <2> DEFINE h == [n \in -1 .. k - 1 |-> IF n = k - 1 THEN IdleBody(mem, g, n) ELSE g[n]]
  <2>3. \A n \in -1 .. k - 2 : h[n] = g[n] /\ g[n] = IdleBody(mem, g, n)
    <3>1. k \in Nat /\ (k - 1) - 1 = k - 2
      OBVIOUS
    <3>2. \A n \in -1 .. k - 2 : h[n] = g[n]
      BY <3>1
    <3>3. g = [n \in -1 .. k - 2 |-> IdleBody(mem, g, n)]
      BY <2>2, <3>1
    <3> HIDE DEF h
    <3>4. \A n \in -1 .. k - 2 : g[n] = IdleBody(mem, g, n)
      BY <3>3
    <3> QED  BY <3>2, <3>4
  <2>4. h[k - 1] = IdleBody(mem, g, k - 1)
    BY <2>1
  <2>5. h = [n \in -1 .. k - 1 |-> h[n]]
    OBVIOUS
  <2> HIDE DEF h
  <2>6. ASSUME NEW n \in -1 .. k - 1  PROVE h[n] = IdleBody(mem, h, n)
    <3>1. h[n] = IdleBody(mem, g, n)
      BY <2>3, <2>4
    <3>2. \A i \in -1 .. n - 1 : g[i] = h[i]
      BY <2>3
    <3>3. IdleBody(mem, g, n) = IdleBody(mem, h, n)
      BY <3>2, IdleBodyLocal
    <3> QED  BY <3>1, <3>3
  <2>7. Fun(k, h)
    BY <2>5, <2>6
  <2> QED  BY <1>2, <2>7
<1> QED  BY <1>3, <1>4

LEMMA IdleFacts ==
    ASSUME NEW mem
    PROVE  \A n \in -1 .. MaxInst - 1 :
               FindGtpMemIdlePos(mem)[n] = IdleBody(mem, FindGtpMemIdlePos(mem), n)
<1> DEFINE Fun(g) == g = [n \in -1 .. MaxInst - 1 |-> IdleBody(mem, g, n)]
<1>1. FindGtpMemIdlePos(mem) = CHOOSE g : Fun(g)
  BY DEF FindGtpMemIdlePos, IdleBody, LeftPart, Middle
<1>2. \E g : Fun(g)
  BY IdleExists, InstancesAssumption
<1>3. Fun(CHOOSE g : Fun(g))
  BY <1>2
<1>4. Fun(FindGtpMemIdlePos(mem))
  BY <1>1, <1>3
<1> QED  BY <1>4

\* One call of the search, from what the calls it makes return.
LEMMA IdleStep ==
    ASSUME NEW mem, NEW last \in 0 .. MaxInst - 1, NEW first \in 0 .. last
    PROVE  LET find == FindGtpMemIdlePos(mem)
               mid == Middle(first, last)
           IN  /\ mid \in first .. last
               /\ \/ find[last][first] \in {first, last, mid} /\ mem[find[last][first]] = Nobody
                  \/ /\ find[mid - 1][first + 1] > -1
                     /\ find[last][first] = find[mid - 1][first + 1] /\ mem[last] # Nobody
                  \/ /\ ~(find[mid - 1][first + 1] > -1) /\ mem[last] # Nobody
                     /\ find[last][first] = find[last - 1][find[mid - 1][first + 1] + 1]
<1> DEFINE find == FindGtpMemIdlePos(mem)
           mid == Middle(first, last)
<1>1. MaxInst \in Nat /\ last \in -1 .. MaxInst - 1 /\ first \in 0 .. MaxInst /\ first <= last
  BY InstancesAssumption
<1>2. mid \in first .. last
  BY <1>1, MiddleFacts
<1>3. find[last] = IdleBody(mem, find, last)
  BY <1>1, IdleFacts
<1> HIDE DEF find
<1>4. find[last][first] =
        IF first > last THEN -1
        ELSE IF mem[first] = Nobody THEN first
        ELSE IF mem[last] = Nobody THEN last
        ELSE IF mem[mid] = Nobody THEN mid
        ELSE IF find[mid - 1][first + 1] > -1 THEN find[mid - 1][first + 1]
        ELSE find[last - 1][find[mid - 1][first + 1] + 1]
  BY <1>1, <1>3 DEF IdleBody, LeftPart
<1> HIDE DEF mid
<1>5. ~(first > last)
  BY <1>1
<1>6. \/ find[last][first] \in {first, last, mid} /\ mem[find[last][first]] = Nobody
      \/ /\ find[mid - 1][first + 1] > -1
         /\ find[last][first] = find[mid - 1][first + 1] /\ mem[last] # Nobody
      \/ /\ ~(find[mid - 1][first + 1] > -1) /\ mem[last] # Nobody
         /\ find[last][first] = find[last - 1][find[mid - 1][first + 1] + 1]
  BY <1>4, <1>5
<1> QED  BY <1>2, <1>6 DEF find, mid

Free(mem, r) == r = -1 \/ (r \in 0 .. MaxInst - 1 /\ mem[r] = Nobody)

LEMMA IdleEmpty ==
    ASSUME NEW mem, NEW last \in -1 .. MaxInst - 1, NEW first \in 0 .. MaxInst, first > last
    PROVE  FindGtpMemIdlePos(mem)[last][first] = -1
<1> DEFINE find == FindGtpMemIdlePos(mem)
<1>1. find[last] = IdleBody(mem, find, last)
  BY IdleFacts
<1> HIDE DEF find
<1>2. IdleBody(mem, find, last)[first] = -1
  BY DEF IdleBody
<1>3. find[last][first] = -1
  BY <1>1, <1>2
<1> QED  BY <1>3 DEF find

\* What the search finds is free.
LEMMA IdleFound ==
    ASSUME NEW mem, NEW last \in -1 .. MaxInst - 1, NEW first \in 0 .. MaxInst
    PROVE  Free(mem, FindGtpMemIdlePos(mem)[last][first])
<1> DEFINE find == FindGtpMemIdlePos(mem)
           Bad(l) == \E f \in 0 .. MaxInst : ~Free(mem, find[l][f])
           T == {k \in Nat : k \in 0 .. MaxInst /\ Bad(k - 1)}
<1>1. SUFFICES ASSUME T # {} PROVE FALSE
  <2>1. MaxInst \in Nat /\ last + 1 \in Nat /\ last + 1 \in 0 .. MaxInst /\ (last + 1) - 1 = last
    BY InstancesAssumption
  <2> HIDE DEF Bad
  <2>2. ~Bad(last)
    BY <1>1, <2>1
  <2> USE DEF Bad
  <2> HIDE DEF find
  <2> QED  BY <2>2 DEF find
<1> HIDE DEF Bad
<1>2. PICK k \in T : \A y \in T : k <= y
  BY <1>1, LeastNatural
<1> DEFINE l == k - 1
<1>3. k \in Nat /\ MaxInst \in Nat /\ l \in -1 .. MaxInst - 1 /\ Bad(l)
  BY <1>2, InstancesAssumption
<1>4. ASSUME NEW n \in -1 .. l - 1  PROVE ~Bad(n)
  <2>1. n + 1 \in Nat /\ n + 1 \in 0 .. MaxInst /\ (n + 1) - 1 = n /\ ~(k <= n + 1)
    BY <1>3
  <2> QED  BY <1>2, <2>1
<1> HIDE DEF l
<1>5. PICK f \in 0 .. MaxInst : ~Free(mem, find[l][f])
  BY <1>3 DEF Bad
<1>6. ASSUME NEW n \in -1 .. l - 1, NEW i \in 0 .. MaxInst  PROVE Free(mem, find[n][i])
  BY <1>4 DEF Bad
<1>7. f <= l
  <2>1. f > l => find[l][f] = -1
    BY <1>3, IdleEmpty
  <2> HIDE DEF find
  <2> QED  BY <1>3, <1>5, <2>1 DEF Free
<1>8. l \in 0 .. MaxInst - 1 /\ f \in 0 .. l
  BY <1>3, <1>7
<1> DEFINE mid == Middle(f, l)
<1>9. /\ mid \in f .. l
      /\ \/ find[l][f] \in {f, l, mid} /\ mem[find[l][f]] = Nobody
         \/ find[l][f] = find[mid - 1][f + 1]
         \/ /\ ~(find[mid - 1][f + 1] > -1)
            /\ find[l][f] = find[l - 1][find[mid - 1][f + 1] + 1]
  BY <1>8, IdleStep
<1> HIDE DEF find, mid
<1>10. mid - 1 \in -1 .. l - 1 /\ f + 1 \in 0 .. MaxInst /\ l - 1 \in -1 .. l - 1
  BY <1>3, <1>8, <1>9
<1>11. Free(mem, find[mid - 1][f + 1])
  BY <1>6, <1>10
<1>12. ~(find[mid - 1][f + 1] > -1) => find[mid - 1][f + 1] + 1 = 0
  BY <1>3, <1>11 DEF Free
<1>13. Free(mem, find[l - 1][0])
  BY <1>3, <1>6, <1>10
<1>14. ~(find[l][f] \in {f, l, mid} /\ mem[find[l][f]] = Nobody)
  <2>1. f \in 0 .. MaxInst - 1 /\ l \in 0 .. MaxInst - 1 /\ mid \in 0 .. MaxInst - 1
    BY <1>3, <1>8, <1>9
  <2> QED  BY <1>5, <2>1 DEF Free
<1> QED  BY <1>5, <1>9, <1>11, <1>12, <1>13, <1>14

\* From the first place on, it finds one when there is one.
LEMMA IdleComplete ==
    ASSUME NEW mem, NEW last \in -1 .. MaxInst - 1, FindGtpMemIdlePos(mem)[last][0] = -1
    PROVE  \A p \in 0 .. last : mem[p] # Nobody
<1> DEFINE find == FindGtpMemIdlePos(mem)
           Bad(l) == find[l][0] = -1 /\ \E p \in 0 .. l : mem[p] = Nobody
           T == {k \in Nat : k \in 0 .. MaxInst /\ Bad(k - 1)}
<1>1. SUFFICES ASSUME T # {} PROVE FALSE
  <2>1. MaxInst \in Nat /\ last + 1 \in Nat /\ last + 1 \in 0 .. MaxInst /\ (last + 1) - 1 = last
    BY InstancesAssumption
  <2> HIDE DEF Bad
  <2>2. ~Bad(last)
    BY <1>1, <2>1
  <2> USE DEF Bad
  <2> HIDE DEF find
  <2> QED  BY <2>2 DEF find
<1> HIDE DEF Bad
<1>2. PICK k \in T : \A y \in T : k <= y
  BY <1>1, LeastNatural
<1> DEFINE l == k - 1
<1>3. k \in Nat /\ MaxInst \in Nat /\ l \in -1 .. MaxInst - 1 /\ Bad(l)
  BY <1>2, InstancesAssumption
<1>4. ASSUME NEW n \in -1 .. l - 1  PROVE ~Bad(n)
  <2>1. n + 1 \in Nat /\ n + 1 \in 0 .. MaxInst /\ (n + 1) - 1 = n /\ ~(k <= n + 1)
    BY <1>3
  <2> QED  BY <1>2, <2>1
<1> HIDE DEF l
<1>5. PICK p \in 0 .. l : mem[p] = Nobody
  BY <1>3 DEF Bad
<1>6. l \in 0 .. MaxInst - 1 /\ 0 \in 0 .. l
  BY <1>3, <1>5
<1> DEFINE mid == Middle(0, l)
<1>7. /\ mid \in 0 .. l
      /\ \/ find[l][0] \in {0, l, mid}
         \/ find[mid - 1][0 + 1] > -1 /\ find[l][0] = find[mid - 1][0 + 1]
         \/ /\ ~(find[mid - 1][0 + 1] > -1) /\ mem[l] # Nobody
            /\ find[l][0] = find[l - 1][find[mid - 1][0 + 1] + 1]
  BY <1>6, IdleStep
<1>8. Free(mem, find[mid - 1][1])
  <2>1. mid - 1 \in -1 .. MaxInst - 1 /\ 1 \in 0 .. MaxInst
    BY <1>3, <1>6, <1>7
  <2> HIDE DEF mid
  <2> QED  BY <2>1, IdleFound
<1>9. find[l][0] = -1
  BY <1>3 DEF Bad
<1> HIDE DEF find, mid
<1>10. mem[l] # Nobody /\ find[l - 1][0] = -1
  <2>1. ~(find[l][0] \in {0, l, mid})
    BY <1>6, <1>7, <1>9
  <2>2. ~(find[mid - 1][1] > -1)
    BY <1>3, <1>7, <1>8, <1>9, <2>1 DEF Free
  <2>3. find[mid - 1][1] + 1 = 0
    BY <1>3, <1>8, <2>2 DEF Free
  <2> QED  BY <1>7, <1>9, <2>1, <2>2, <2>3
<1>11. p \in 0 .. l - 1
  BY <1>3, <1>5, <1>10
<1>12. Bad(l - 1)
  BY <1>5, <1>10, <1>11 DEF Bad
<1> QED  BY <1>3, <1>4, <1>6, <1>12

-----------------------------------------------------------------------------
(* The table.  Each instance belongs to an object, and the counter is right. *)

Used(x) == {p \in DOMAIN x.inst : x.inst[p] # Nobody}

TabOk(x) ==
    /\ x = [inst |-> x.inst, num |-> x.num]
    /\ x.inst \in [0 .. MaxInst - 1 -> Objects \cup {Nobody}]
    /\ x.num = Cardinality(Used(x))

LEMMA UsedFinite ==
    ASSUME NEW x, x.inst \in [0 .. MaxInst - 1 -> Objects \cup {Nobody}]
    PROVE  IsFiniteSet(Used(x)) /\ Cardinality(Used(x)) \in Nat
<1>1. IsFiniteSet(0 .. MaxInst - 1)
  BY FS_Interval, InstancesAssumption
<1>2. Used(x) \subseteq 0 .. MaxInst - 1
  BY DEF Used
<1> QED  BY <1>1, <1>2, FS_Subset, FS_CardinalityType

LEMMA EmptyTable == TabOk(InsLoadGtpModule)
<1> DEFINE x == InsLoadGtpModule
<1>1. x = [inst |-> [p \in 0 .. MaxInst - 1 |-> Nobody], num |-> 0]
  BY DEF InsLoadGtpModule
<1>2. Used(x) = {}
  BY <1>1 DEF Used
<1> HIDE DEF x
<1>3. x.num = Cardinality(Used(x))
  BY <1>1, <1>2, FS_EmptySet
<1>4. TabOk(x)
  BY <1>1, <1>3 DEF TabOk
<1> QED  BY <1>4 DEF x

\* A new instance takes a place that was free.
LEMMA CreateFacts ==
    ASSUME NEW x, TabOk(x), NEW t \in Objects, NEW ok \in BOOLEAN,
           NEW r, r = CreateGtpInstance(x, t, ok)
    PROVE  \/ r[1] = x /\ r[2] = InvalidHandler
           \/ /\ TabOk(r[1]) /\ r[2] \in 0 .. MaxInst - 1 /\ x.inst[r[2]] = Nobody
              /\ r[1].inst = [x.inst EXCEPT ![r[2]] = t]
<1> DEFINE pos == FindGtpMemIdlePos(x.inst)[MaxInst - 1][0]
           y == [inst |-> [x.inst EXCEPT ![pos] = t], num |-> x.num + 1]
<1>1. Free(x.inst, pos)
  <2>1. MaxInst - 1 \in -1 .. MaxInst - 1 /\ 0 \in 0 .. MaxInst
    BY InstancesAssumption
  <2> QED  BY <2>1, IdleFound
<1>2. r = IF ok /\ x.num < MaxInst /\ pos > -1 THEN <<y, pos>> ELSE <<x, InvalidHandler>>
  BY DEF CreateGtpInstance
<1> HIDE DEF pos
<1>3. CASE ok /\ x.num < MaxInst /\ pos > -1
  <2>1. r[1] = y /\ r[2] = pos
    BY <1>2, <1>3
  <2>2. pos \in 0 .. MaxInst - 1 /\ x.inst[pos] = Nobody
    BY <1>1, <1>3 DEF Free
  <2>3. y = [inst |-> [x.inst EXCEPT ![pos] = t], num |-> x.num + 1]
    OBVIOUS
  <2> HIDE DEF y
  <2>4. y.inst = [x.inst EXCEPT ![pos] = t] /\ y.num = x.num + 1
    BY <2>3
  <2>5. y.inst \in [0 .. MaxInst - 1 -> Objects \cup {Nobody}]
    BY <2>2, <2>4 DEF TabOk
  <2>6. Used(y) = Used(x) \cup {pos} /\ pos \notin Used(x)
    BY <2>2, <2>4, TestersAssumption DEF Used, TabOk
  <2>7. y.num = Cardinality(Used(y))
    <3>1. IsFiniteSet(Used(x)) /\ x.num = Cardinality(Used(x))
      BY UsedFinite DEF TabOk
    <3>2. Cardinality(Used(x) \cup {pos}) = Cardinality(Used(x)) + 1
      BY <2>6, <3>1, FS_AddElement
    <3> QED  BY <2>4, <2>6, <3>1, <3>2
  <2>8. TabOk(y)
    BY <2>3, <2>4, <2>5, <2>7 DEF TabOk
  <2> QED  BY <2>1, <2>2, <2>4, <2>8
<1>4. CASE ~(ok /\ x.num < MaxInst /\ pos > -1)
  BY <1>2, <1>4
<1> QED  BY <1>3, <1>4

LEMMA DeleteFacts ==
    ASSUME NEW x, TabOk(x), NEW H
    PROVE  /\ TabOk(DeleteGtpInstance(x, H))
           /\ \A p \in 0 .. MaxInst - 1 :
                DeleteGtpInstance(x, H).inst[p] = IF p \in H THEN Nobody ELSE x.inst[p]
<1> DEFINE gone == {p \in DOMAIN x.inst : p \in H /\ x.inst[p] # Nobody}
           c == Cardinality(gone)
           y == DeleteGtpInstance(x, H)
<1>1. y = [inst |-> [p \in DOMAIN x.inst |-> IF p \in gone THEN Nobody ELSE x.inst[p]],
           num |-> IF x.num > c THEN x.num - c ELSE 0]
  BY DEF DeleteGtpInstance
<1> HIDE DEF y, c
<1>2. /\ y = [inst |-> y.inst, num |-> y.num]
      /\ y.inst = [p \in DOMAIN x.inst |-> IF p \in gone THEN Nobody ELSE x.inst[p]]
      /\ y.num = IF x.num > c THEN x.num - c ELSE 0
  BY <1>1
<1>3. /\ x.inst \in [0 .. MaxInst - 1 -> Objects \cup {Nobody}] /\ DOMAIN x.inst = 0 .. MaxInst - 1
      /\ x.num = Cardinality(Used(x)) /\ IsFiniteSet(Used(x)) /\ x.num \in Nat
  BY UsedFinite DEF TabOk
<1>4. y.inst \in [0 .. MaxInst - 1 -> Objects \cup {Nobody}]
  BY <1>2, <1>3
<1>5. Used(y) = Used(x) \ gone /\ gone \subseteq Used(x) /\ Used(x) \cap gone = gone
  BY <1>2, <1>3 DEF Used
<1>6. Cardinality(Used(x) \ gone) = Cardinality(Used(x)) - Cardinality(Used(x) \cap gone)
  <2> HIDE DEF gone
  <2> QED  BY <1>3, FS_Difference
<1>7. c \in Nat /\ c <= x.num
  <2>1. IsFiniteSet(gone) /\ Cardinality(gone) <= Cardinality(Used(x))
    BY <1>3, <1>5, FS_Subset
  <2> QED  BY <1>3, <2>1, FS_CardinalityType DEF c
<1>8. y.num = Cardinality(Used(y))
  <2>1. y.num = x.num - c
    BY <1>2, <1>3, <1>7
  <2>2. c = Cardinality(gone)
    BY DEF c
  <2> HIDE DEF gone
  <2>3. Cardinality(Used(y)) = x.num - c
    BY <1>3, <1>5, <1>6, <2>2
  <2> QED  BY <2>1, <2>3
<1>9. TabOk(y)
  BY <1>2, <1>4, <1>8 DEF TabOk
<1>10. \A p \in 0 .. MaxInst - 1 : y.inst[p] = IF p \in H THEN Nobody ELSE x.inst[p]
  BY <1>2, <1>3
<1> QED  BY <1>9, <1>10 DEF y

-----------------------------------------------------------------------------
(* The objects.  A tester that says it has exited has no thread any more, so *)
(* that the commands, which wait for this, delete no object in use; only the *)
(* thread makes the instance, and only the deletion takes it away.           *)

ObjFields == {"th", "live", "id", "kind", "enable", "runned", "exited", "hdl", "fsm"}
Threads == {"none", "starting", "made", "loop", "over"}
Handlers == (0 .. MaxInst - 1) \cup {InvalidHandler}

ObjOk(o) ==
    /\ o = [f \in ObjFields |-> o[f]]
    /\ o.th \in Threads /\ o.hdl \in Handlers
    /\ o.exited => o.th \in {"none", "over"}
    /\ ~o.live => o.th = "none" /\ o.hdl = InvalidHandler
    /\ o.th = "starting" => o.hdl = InvalidHandler

\* Objects and table name each other.
Linked(os, x) ==
    /\ \A p \in 0 .. MaxInst - 1 : x.inst[p] # Nobody => os[x.inst[p]].hdl = p
    /\ \A t \in Objects : os[t].hdl # InvalidHandler => x.inst[os[t].hdl] = t

ObjsOk(os) == os = [t \in Objects |-> os[t]] /\ \A t \in Objects : ObjOk(os[t])

\* What a step does to one object, seen from the others.
LEMMA OneObject ==
    ASSUME NEW os, ObjsOk(os), NEW x, TabOk(x), Linked(os, x), NEW t \in Objects,
           NEW o, ObjOk(o), o.hdl = os[t].hdl, NEW ns, ns = [os EXCEPT ![t] = o]
    PROVE  ObjsOk(ns) /\ Linked(ns, x)
<1>1. ns = [u \in Objects |-> IF u = t THEN o ELSE os[u]]
  BY DEF ObjsOk
<1>2. \A u \in Objects : ns[u].hdl = os[u].hdl
  BY <1>1
<1>3. ObjsOk(ns)
  BY <1>1 DEF ObjsOk
<1>4. \A p \in 0 .. MaxInst - 1 : x.inst[p] # Nobody => x.inst[p] \in Objects
  BY DEF TabOk
<1> QED  BY <1>2, <1>3, <1>4 DEF Linked

LEMMA NoObjectFacts ==
    /\ NoObject = [f \in ObjFields |-> NoObject[f]]
    /\ NoObject.th = "none" /\ ~NoObject.live /\ ~NoObject.exited /\ NoObject.hdl = InvalidHandler
BY DEF NoObject, ObjFields

\* The fields that matter of an object some fields of which are set.
LEMMA SetField ==
    ASSUME NEW o, o = [f \in ObjFields |-> o[f]], NEW g \in ObjFields, NEW v
    PROVE  LET n == [o EXCEPT ![g] = v]
           IN  /\ n = [f \in ObjFields |-> n[f]]
               /\ \A f \in ObjFields : n[f] = IF f = g THEN v ELSE o[f]
OBVIOUS

LEMMA NewTesterFacts ==
    ASSUME NEW k
    PROVE  /\ NewTester(k) = [f \in ObjFields |-> NewTester(k)[f]]
           /\ NewTester(k).th = "none" /\ NewTester(k).live /\ ~NewTester(k).exited
           /\ NewTester(k).hdl = InvalidHandler
<1> DEFINE a == [NoObject EXCEPT !["live"] = TRUE]
           b == [a EXCEPT !["id"] = GenTesterId]
           c == [b EXCEPT !["kind"] = k]
<1>1. NewTester(k) = c
  BY DEF NewTester
<1>2. a = [f \in ObjFields |-> a[f]] /\ \A f \in ObjFields : a[f] = IF f = "live" THEN TRUE ELSE NoObject[f]
  BY NoObjectFacts, SetField DEF ObjFields
<1> HIDE DEF a
<1>3. b = [f \in ObjFields |-> b[f]] /\ \A f \in ObjFields : b[f] = IF f = "id" THEN GenTesterId ELSE a[f]
  BY <1>2, SetField DEF ObjFields
<1> HIDE DEF b
<1>4. c = [f \in ObjFields |-> c[f]] /\ \A f \in ObjFields : c[f] = IF f = "kind" THEN k ELSE b[f]
  BY <1>3, SetField DEF ObjFields
<1> HIDE DEF c
<1>5. c.th = "none" /\ c.live /\ ~c.exited /\ c.hdl = InvalidHandler
  BY <1>2, <1>3, <1>4, NoObjectFacts DEF ObjFields
<1> QED  BY <1>1, <1>4, <1>5

LEMMA EndedFacts ==
    ASSUME NEW o, ObjOk(o), o.live
    PROVE  ObjOk(Ended(o)) /\ Ended(o).hdl = o.hdl /\ Ended(o).live = o.live
<1> DEFINE a == [o EXCEPT !["th"] = "over"]
           b == [a EXCEPT !["enable"] = FALSE]
           c == [b EXCEPT !["runned"] = FALSE]
           d == [c EXCEPT !["exited"] = TRUE]
<1>1. Ended(o) = d
  BY DEF Ended
<1>2. a = [f \in ObjFields |-> a[f]] /\ \A f \in ObjFields : a[f] = IF f = "th" THEN "over" ELSE o[f]
  BY SetField DEF ObjOk, ObjFields
<1> HIDE DEF a
<1>3. b = [f \in ObjFields |-> b[f]] /\ \A f \in ObjFields : b[f] = IF f = "enable" THEN FALSE ELSE a[f]
  BY <1>2, SetField DEF ObjFields
<1> HIDE DEF b
<1>4. c = [f \in ObjFields |-> c[f]] /\ \A f \in ObjFields : c[f] = IF f = "runned" THEN FALSE ELSE b[f]
  BY <1>3, SetField DEF ObjFields
<1> HIDE DEF c
<1>5. d = [f \in ObjFields |-> d[f]] /\ \A f \in ObjFields : d[f] = IF f = "exited" THEN TRUE ELSE c[f]
  BY <1>4, SetField DEF ObjFields
<1> HIDE DEF d
<1>6. d.th = "over" /\ d.hdl = o.hdl /\ d.live = o.live
  BY <1>2, <1>3, <1>4, <1>5 DEF ObjFields
<1> QED  BY <1>1, <1>5, <1>6 DEF ObjOk, Threads

\* The objects the commands make, and what they do to one.
LEMMA StartingFacts ==
    ASSUME NEW k
    PROVE  LET o == [NewTester(k) EXCEPT !.enable = TRUE, !.th = "starting"]
           IN  ObjOk(o) /\ o.hdl = InvalidHandler /\ o.live
<1> DEFINE n == NewTester(k)
           a == [n EXCEPT !["enable"] = TRUE]
           b == [a EXCEPT !["th"] = "starting"]
<1>1. [NewTester(k) EXCEPT !.enable = TRUE, !.th = "starting"] = b
  OBVIOUS
<1>2. /\ n = [f \in ObjFields |-> n[f]] /\ n.th = "none" /\ n.live /\ ~n.exited
      /\ n.hdl = InvalidHandler
  BY NewTesterFacts
<1> HIDE DEF n
<1>3. a = [f \in ObjFields |-> a[f]] /\ \A f \in ObjFields : a[f] = IF f = "enable" THEN TRUE ELSE n[f]
  BY <1>2, SetField DEF ObjFields
<1> HIDE DEF a
<1>4. b = [f \in ObjFields |-> b[f]] /\ \A f \in ObjFields : b[f] = IF f = "th" THEN "starting" ELSE a[f]
  BY <1>3, SetField DEF ObjFields
<1> HIDE DEF b
<1>5. b.th = "starting" /\ b.live /\ ~b.exited /\ b.hdl = InvalidHandler
  BY <1>2, <1>3, <1>4 DEF ObjFields
<1>6. ObjOk(b)
  BY <1>4, <1>5 DEF ObjOk, Threads, Handlers
<1> QED  BY <1>1, <1>5, <1>6

LEMMA FailedFacts ==
    ASSUME NEW k, NEW g \in {"exited", "enable"}, NEW e \in BOOLEAN
    PROVE  LET o == [NewTester(k) EXCEPT ![g] = e]
           IN  ObjOk(o) /\ o.hdl = InvalidHandler /\ o.live
<1> DEFINE n == NewTester(k)
           a == [n EXCEPT ![g] = e]
<1>1. /\ n = [f \in ObjFields |-> n[f]] /\ n.th = "none" /\ n.live /\ ~n.exited
      /\ n.hdl = InvalidHandler
  BY NewTesterFacts
<1> HIDE DEF n
<1>2. a = [f \in ObjFields |-> a[f]] /\ \A f \in ObjFields : a[f] = IF f = g THEN e ELSE n[f]
  BY <1>1, SetField DEF ObjFields
<1> HIDE DEF a
<1>3. a.th = "none" /\ a.live /\ a.hdl = InvalidHandler
  BY <1>1, <1>2 DEF ObjFields
<1>4. ObjOk(a)
  BY <1>2, <1>3 DEF ObjOk, Threads, Handlers
<1> QED  BY <1>3, <1>4 DEF a, n

LEMMA StoppedFacts ==
    ASSUME NEW o, ObjOk(o), NEW g \in {"enable", "fsm"}, NEW v
    PROVE  /\ ObjOk([o EXCEPT ![g] = v]) /\ [o EXCEPT ![g] = v].hdl = o.hdl
           /\ [o EXCEPT ![g] = v].live = o.live
<1> DEFINE a == [o EXCEPT ![g] = v]
<1>1. a = [f \in ObjFields |-> a[f]] /\ \A f \in ObjFields : a[f] = IF f = g THEN v ELSE o[f]
  BY SetField DEF ObjOk, ObjFields
<1> HIDE DEF a
<1>2. a.th = o.th /\ a.live = o.live /\ a.hdl = o.hdl /\ a.exited = o.exited
  BY <1>1 DEF ObjFields
<1>3. ObjOk(a)
  BY <1>1, <1>2 DEF ObjOk
<1> QED  BY <1>2, <1>3 DEF a

\* An object whose tester has exited is empty once it is deleted.
LEMMA DeletedFacts ==
    ASSUME NEW th \in Threads, th \in {"none", "over"}
    PROVE  LET o == [NoObject EXCEPT !.th = IF th = "over" THEN "none" ELSE th]
           IN  ObjOk(o) /\ o.hdl = InvalidHandler /\ ~o.live
<1> DEFINE v == IF th = "over" THEN "none" ELSE th
           a == [NoObject EXCEPT !["th"] = v]
<1>1. v = "none"
  OBVIOUS
<1> HIDE DEF v
<1>2. a = [f \in ObjFields |-> a[f]] /\ \A f \in ObjFields : a[f] = IF f = "th" THEN v ELSE NoObject[f]
  BY NoObjectFacts, SetField DEF ObjFields
<1> HIDE DEF a
<1>3. a.th = "none" /\ a.hdl = InvalidHandler /\ ~a.live
  BY <1>1, <1>2, NoObjectFacts DEF ObjFields
<1>4. ObjOk(a)
  BY <1>2, <1>3 DEF ObjOk, Threads, Handlers
<1> QED  BY <1>3, <1>4 DEF a, v

\* The steps of the thread that are not its end.
LEMMA MadeFacts ==
    ASSUME NEW o, ObjOk(o), o.th = "starting", NEW h \in 0 .. MaxInst - 1
    PROVE  LET n == [o EXCEPT !.th = "made", !.hdl = h]
           IN  ObjOk(n) /\ n.hdl = h /\ n.live = o.live
<1> DEFINE a == [o EXCEPT !["th"] = "made"]
           b == [a EXCEPT !["hdl"] = h]
<1>1. [o EXCEPT !.th = "made", !.hdl = h] = b
  OBVIOUS
<1>2. a = [f \in ObjFields |-> a[f]] /\ \A f \in ObjFields : a[f] = IF f = "th" THEN "made" ELSE o[f]
  BY SetField DEF ObjOk, ObjFields
<1> HIDE DEF a
<1>3. b = [f \in ObjFields |-> b[f]] /\ \A f \in ObjFields : b[f] = IF f = "hdl" THEN h ELSE a[f]
  BY <1>2, SetField DEF ObjFields
<1> HIDE DEF b
<1>4. b.th = "made" /\ b.hdl = h /\ b.live = o.live /\ b.exited = o.exited
  BY <1>2, <1>3 DEF ObjFields
<1>5. ObjOk(b)
  BY <1>3, <1>4 DEF ObjOk, Threads, Handlers
<1> QED  BY <1>1, <1>4, <1>5

LEMMA LoopFacts ==
    ASSUME NEW o, ObjOk(o), o.th = "made"
    PROVE  LET n == [o EXCEPT !.th = "loop", !.runned = TRUE]
           IN  ObjOk(n) /\ n.hdl = o.hdl /\ n.live = o.live
<1> DEFINE a == [o EXCEPT !["th"] = "loop"]
           b == [a EXCEPT !["runned"] = TRUE]
<1>1. [o EXCEPT !.th = "loop", !.runned = TRUE] = b
  OBVIOUS
<1>2. a = [f \in ObjFields |-> a[f]] /\ \A f \in ObjFields : a[f] = IF f = "th" THEN "loop" ELSE o[f]
  BY SetField DEF ObjOk, ObjFields
<1> HIDE DEF a
<1>3. b = [f \in ObjFields |-> b[f]] /\ \A f \in ObjFields : b[f] = IF f = "runned" THEN TRUE ELSE a[f]
  BY <1>2, SetField DEF ObjFields
<1> HIDE DEF b
<1>4. b.th = "loop" /\ b.hdl = o.hdl /\ b.live = o.live /\ b.exited = o.exited
  BY <1>2, <1>3 DEF ObjFields
<1>5. ObjOk(b)
  BY <1>3, <1>4 DEF ObjOk, Threads, Handlers
<1> QED  BY <1>1, <1>4, <1>5

-----------------------------------------------------------------------------
(* The steps.  Up is the invariant of a process that is not going down. *)

Up == ObjsOk(obj) /\ TabOk(tab) /\ Linked(obj, tab) /\ list \in Seq(Objects) /\ cli.on \subseteq Objects

\* No step of a thread makes or deletes a tester.
SameLive == \A t \in Objects : obj'[t].live = obj[t].live

\* The list names each tester once and only testers that exist; a tester that is
\* being created is not in it yet, one that a command deletes is in it, or was
\* deleted by the handler of a signal.
InList(t) == \E i \in 1 .. Len(list) : list[i] = t

Listed ==
    /\ \A i, j \in 1 .. Len(list) : list[i] = list[j] => i = j
    /\ \A i \in 1 .. Len(list) : obj[list[i]].live
    /\ cli.op \in {"idle", "create", "delete", "deleteAll"}
    /\ cli.op \in {"create", "delete"} => \A t, u \in cli.on : t = u
    /\ cli.op = "idle" => cli.on = {}
    /\ cli.op = "create" => \A t \in cli.on : obj[t].live /\ ~InList(t)
    /\ cli.op \in {"delete", "deleteAll"} =>
          \A t \in cli.on : InList(t) \/ (~obj[t].live /\ sig # NoSignal)

TestersInv == cli.op # "down" => Up /\ Listed

LEMMA TestersStart == TestersInit => TestersInv
<1> SUFFICES ASSUME TestersInit PROVE TestersInv
  OBVIOUS
<1>1. obj = [t \in Objects |-> NoObject] /\ tab = InsLoadGtpModule /\ list = <<>> /\ cli = Idle
  BY DEF TestersInit
<1>2. ObjsOk(obj)
  <2>1. ObjOk(NoObject)
    BY NoObjectFacts DEF ObjOk, Threads, Handlers
  <2> QED  BY <1>1, <2>1 DEF ObjsOk
<1>3. TabOk(tab)
  BY <1>1, EmptyTable
<1>4. Linked(obj, tab)
  BY <1>1, NoObjectFacts DEF Linked, InsLoadGtpModule
<1>5. cli.on = {} /\ cli.op = "idle"
  BY <1>1 DEF Idle
<1>6. list \in Seq(Objects) /\ Len(list) = 0
  BY <1>1
<1>7. Listed
  BY <1>5, <1>6 DEF Listed
<1> QED  BY <1>2, <1>3, <1>4, <1>5, <1>6, <1>7 DEF TestersInv, Up

LEMMA IdleIs == Idle.op = "idle" /\ Idle.on = {}
BY DEF Idle

LEMMA ListedSame ==
    ASSUME Up, Listed, SameLive, UNCHANGED <<list, cli, sig>>
    PROVE  Listed'
<1>1. \A i \in 1 .. Len(list) : list[i] \in Objects
  BY DEF Up
<1>2. cli.on \subseteq Objects
  BY DEF Up
<1> QED  BY <1>1, <1>2 DEF Listed, SameLive, InList

\* An object that is not live is none the table knows: another may take its place.
LEMMA PlacedFacts ==
    ASSUME Up, NEW t \in Objects, ~obj[t].live, NEW o, ObjOk(o), o.hdl = InvalidHandler,
           obj' = [obj EXCEPT ![t] = o]
    PROVE  ObjsOk(obj') /\ Linked(obj', tab)
<1>1. obj[t].hdl = o.hdl
  BY DEF Up, ObjsOk, ObjOk
<1> DEFINE ns == obj'
<1>2. ns = [obj EXCEPT ![t] = o]
  OBVIOUS
<1> HIDE DEF ns
<1>3. ObjsOk(ns) /\ Linked(ns, tab)
  BY <1>1, <1>2, OneObject DEF Up
<1> QED  BY <1>3 DEF ns

\* What a new tester does to the list it is not in yet, or is the last of.
LEMMA CmdCreateKeeps ==
    ASSUME Up, Listed, NEW t \in Objects, NEW k, CmdCreate(t, k)
    PROVE  Up' /\ Listed'
<1>1. /\ ~obj[t].live /\ UNCHANGED <<list, sig, tab>>
      /\ obj' = [obj EXCEPT ![t] = [NewTester(k) EXCEPT !.enable = TRUE, !.th = "starting"]]
      /\ cli' = [op |-> "create", on |-> {t}]
  BY DEF CmdCreate
<1> DEFINE o == [NewTester(k) EXCEPT !.enable = TRUE, !.th = "starting"]
<1>2. ObjOk(o) /\ o.hdl = InvalidHandler /\ o.live
  BY StartingFacts
<1>3. obj' = [obj EXCEPT ![t] = o]
  BY <1>1
<1> HIDE DEF o
<1>4. ObjsOk(obj') /\ Linked(obj', tab)
  BY <1>1, <1>2, <1>3, PlacedFacts
<1>5. cli'.on = {t} /\ cli'.op = "create"
  BY <1>1
<1>6. Up'
  BY <1>1, <1>4, <1>5 DEF Up
<1>7. obj = [u \in Objects |-> obj[u]]
  BY DEF Up, ObjsOk
<1>8. obj'[t].live /\ \A u \in Objects : u # t => obj'[u] = obj[u]
  BY <1>2, <1>3, <1>7
<1>9. \A i \in 1 .. Len(list) : list[i] \in Objects /\ list[i] # t
  BY <1>1 DEF Up, Listed
<1> QED  BY <1>1, <1>5, <1>6, <1>8, <1>9 DEF Listed, InList

LEMMA AppendFacts ==
    ASSUME NEW l \in Seq(Objects), NEW t \in Objects
    PROVE  /\ Append(l, t) \in Seq(Objects) /\ Len(Append(l, t)) = Len(l) + 1 /\ Len(l) \in Nat
           /\ \A i \in 1 .. Len(l) + 1 : Append(l, t)[i] = IF i = Len(l) + 1 THEN t ELSE l[i]
OBVIOUS

LEMMA CmdCreateFailsKeeps ==
    ASSUME Up, Listed, NEW t \in Objects, NEW k, CmdCreateFails(t, k)
    PROVE  Up' /\ Listed'
<1>1. /\ ~obj[t].live /\ UNCHANGED <<cli, sig, tab>> /\ list' = Append(list, t) /\ cli.op = "idle"
      /\ \/ \E e \in BOOLEAN : obj' = [obj EXCEPT ![t] = [NewTester(k) EXCEPT !.exited = e]]
         \/ obj' = [obj EXCEPT ![t] = [NewTester(k) EXCEPT !.enable = TRUE]]
  BY DEF CmdCreateFails, CliRuns
<1>2. PICK g \in {"exited", "enable"}, e \in BOOLEAN :
         obj' = [obj EXCEPT ![t] = [NewTester(k) EXCEPT ![g] = e]]
  <2>1. CASE \E e \in BOOLEAN : obj' = [obj EXCEPT ![t] = [NewTester(k) EXCEPT !.exited = e]]
    BY <2>1, Zenon
  <2>2. CASE obj' = [obj EXCEPT ![t] = [NewTester(k) EXCEPT !.enable = TRUE]]
    BY <2>2, Zenon
  <2> QED  BY <1>1, <2>1, <2>2
<1> DEFINE o == [NewTester(k) EXCEPT ![g] = e]
<1>3. ObjOk(o) /\ o.hdl = InvalidHandler /\ o.live
  BY FailedFacts
<1>4. obj' = [obj EXCEPT ![t] = o]
  BY <1>2
<1> HIDE DEF o
<1>5. ObjsOk(obj') /\ Linked(obj', tab)
  BY <1>1, <1>3, <1>4, PlacedFacts
<1>6. /\ list' \in Seq(Objects) /\ Len(list') = Len(list) + 1 /\ Len(list) \in Nat
      /\ \A i \in 1 .. Len(list) + 1 : list'[i] = IF i = Len(list) + 1 THEN t ELSE list[i]
  BY <1>1, AppendFacts DEF Up
<1>7. Up'
  BY <1>1, <1>5, <1>6 DEF Up
<1>8. obj = [u \in Objects |-> obj[u]]
  BY DEF Up, ObjsOk
<1>9. obj'[t].live /\ \A u \in Objects : u # t => obj'[u] = obj[u]
  BY <1>3, <1>4, <1>8
<1>10. \A i \in 1 .. Len(list) : list[i] \in Objects /\ list[i] # t
  BY <1>1 DEF Up, Listed
<1>11. \A i, j \in 1 .. Len(list') : list'[i] = list'[j] => i = j
  BY <1>6, <1>10 DEF Listed
<1>12. \A i \in 1 .. Len(list') : obj'[list'[i]].live
  BY <1>6, <1>9, <1>10 DEF Listed
<1> QED  BY <1>1, <1>7, <1>11, <1>12 DEF Listed

LEMMA CmdCreatedKeeps ==
    ASSUME Up, Listed, CmdCreated
    PROVE  Up' /\ Listed'
<1>1. UNCHANGED <<obj, sig, tab>> /\ cli' = Idle /\ cli.op = "create"
  BY DEF CmdCreated, CliRuns
<1>2. PICK t \in cli.on : list' = Append(list, t)
  BY DEF CmdCreated
<1>3. t \in Objects /\ obj[t].live /\ \A i \in 1 .. Len(list) : list[i] # t
  BY <1>1 DEF Up, Listed, InList
<1>4. /\ list' \in Seq(Objects) /\ Len(list') = Len(list) + 1 /\ Len(list) \in Nat
      /\ \A i \in 1 .. Len(list) + 1 : list'[i] = IF i = Len(list) + 1 THEN t ELSE list[i]
  BY <1>2, <1>3, AppendFacts DEF Up
<1>5. Up'
  BY <1>1, <1>4, IdleIs DEF Up
<1>6. \A i, j \in 1 .. Len(list') : list'[i] = list'[j] => i = j
  BY <1>3, <1>4 DEF Listed
<1>7. \A i \in 1 .. Len(list') : obj'[list'[i]].live
  BY <1>1, <1>3, <1>4 DEF Listed
<1> QED  BY <1>1, <1>5, <1>6, <1>7, IdleIs DEF Listed

LEMMA StopKeeps ==
    ASSUME Up, NEW ts \in SUBSET Objects, StopTesters(ts)
    PROVE  ObjsOk(obj') /\ Linked(obj', tab) /\ SameLive
<1>1. obj' = [t \in Objects |-> IF t \in ts THEN [obj[t] EXCEPT !.enable = FALSE] ELSE obj[t]]
  BY DEF StopTesters
<1>2. ASSUME NEW t \in Objects
      PROVE  ObjOk(obj'[t]) /\ obj'[t].hdl = obj[t].hdl /\ obj'[t].live = obj[t].live
  <2> DEFINE o == obj[t]
             n == [o EXCEPT !["enable"] = FALSE]
  <2>1. ObjOk(o)
    BY DEF Up, ObjsOk
  <2>2. ObjOk(n) /\ n.hdl = o.hdl /\ n.live = o.live
    <3> HIDE DEF o
    <3> QED  BY <2>1, StoppedFacts
  <2>3. obj'[t] = n \/ obj'[t] = o
    BY <1>1
  <2> HIDE DEF n, o
  <2>4. ObjOk(obj'[t]) /\ obj'[t].hdl = o.hdl /\ obj'[t].live = o.live
    BY <2>1, <2>2, <2>3
  <2> QED  BY <2>4 DEF o
<1>3. obj' = [t \in Objects |-> obj'[t]]
  BY <1>1
<1>4. Linked(obj', tab)
  <2>1. \A p \in 0 .. MaxInst - 1 : tab.inst[p] # Nobody => tab.inst[p] \in Objects
    BY DEF Up, TabOk
  <2> QED  BY <1>2, <2>1 DEF Up, Linked
<1>5. ObjsOk(obj')
  BY <1>2, <1>3 DEF ObjsOk
<1> QED  BY <1>2, <1>4, <1>5 DEF SameLive

LEMMA ListFacts ==
    ASSUME Up
    PROVE  ToSet(list) \subseteq Objects /\ \A i \in DOMAIN list : list[i] \in Objects
BY DEF Up, ToSet

LEMMA DeleteKeeps ==
    ASSUME Up, NEW ts \in SUBSET Objects, Exited(ts), Delete(ts)
    PROVE  /\ ObjsOk(obj') /\ TabOk(tab') /\ Linked(obj', tab')
           /\ \A t \in ts : ~obj'[t].live
           /\ \A t \in Objects : t \notin ts => obj'[t] = obj[t]
<1> DEFINE H == {obj[t].hdl : t \in ts}
           x == DeleteGtpInstance(tab, H)
<1>1. /\ \A t \in ts : obj[t].exited /\ ObjOk(obj[t]) /\ t \in Objects
      /\ obj' = [t \in Objects |->
                   IF t \in ts THEN [NoObject EXCEPT !.th = IF obj[t].th = "over" THEN "none" ELSE obj[t].th]
                   ELSE obj[t]]
      /\ tab' = x
  BY DEF Exited, Delete, Up, ObjsOk
<1>2. TabOk(x) /\ \A p \in 0 .. MaxInst - 1 : x.inst[p] = IF p \in H THEN Nobody ELSE tab.inst[p]
  BY DeleteFacts DEF Up
<1>3. ASSUME NEW t \in ts  PROVE ObjOk(obj'[t]) /\ obj'[t].hdl = InvalidHandler /\ ~obj'[t].live
  <2> DEFINE th == obj[t].th
             o == [NoObject EXCEPT !.th = IF th = "over" THEN "none" ELSE th]
  <2>1. th \in Threads /\ th \in {"none", "over"}
    BY <1>1 DEF ObjOk
  <2>2. obj'[t] = o
    BY <1>1
  <2> HIDE DEF th
  <2>3. ObjOk(o) /\ o.hdl = InvalidHandler /\ ~o.live
    BY <2>1, DeletedFacts
  <2> QED  BY <2>2, <2>3
<1>4. ASSUME NEW t \in Objects, t \notin ts  PROVE obj'[t] = obj[t] /\ ObjOk(obj[t])
  BY <1>1, <1>4 DEF Up, ObjsOk
<1>5. ObjsOk(obj')
  <2>1. obj' = [t \in Objects |-> obj'[t]]
    BY <1>1
  <2> QED  BY <1>3, <1>4, <2>1 DEF ObjsOk
<1> HIDE DEF x
<1>6. ASSUME NEW p \in 0 .. MaxInst - 1, x.inst[p] # Nobody
      PROVE  obj'[x.inst[p]].hdl = p
  <2>1. p \notin H /\ x.inst[p] = tab.inst[p]
    BY <1>2, <1>6
  <2>2. tab.inst[p] \in Objects /\ obj[tab.inst[p]].hdl = p
    BY <1>6, <2>1 DEF Up, TabOk, Linked
  <2>3. tab.inst[p] \notin ts
    BY <2>1, <2>2
  <2> QED  BY <1>4, <2>1, <2>2, <2>3
<1>7. ASSUME NEW t \in Objects, obj'[t].hdl # InvalidHandler
      PROVE  x.inst[obj'[t].hdl] = t
  <2>1. t \notin ts /\ obj'[t] = obj[t] /\ ObjOk(obj[t])
    BY <1>3, <1>4, <1>7
  <2> DEFINE h == obj[t].hdl
  <2>2. h \in 0 .. MaxInst - 1 /\ tab.inst[h] = t
    BY <1>7, <2>1 DEF ObjOk, Handlers, Up, Linked
  <2>3. h \notin H
    <3>1. SUFFICES ASSUME NEW u \in ts, obj[u].hdl = h  PROVE FALSE
      OBVIOUS
    <3>2. tab.inst[h] = u
      BY <1>1, <1>7, <2>1, <3>1 DEF Up, Linked
    <3> QED  BY <2>1, <2>2, <3>2
  <2> QED  BY <1>2, <2>1, <2>2, <2>3
<1>9. Linked(obj', tab')
  BY <1>1, <1>6, <1>7 DEF Linked
<1> QED  BY <1>1, <1>2, <1>3, <1>4, <1>5, <1>9

LEMMA CmdDeleteKeeps ==
    ASSUME Up, Listed, CmdDelete
    PROVE  Up' /\ Listed'
<1>1. UNCHANGED <<list, sig, tab>>
  BY DEF CmdDelete
<1>2. list \in Seq(Objects) /\ DOMAIN list = 1 .. Len(list)
  BY DEF Up
<1>3. PICK ts \in SUBSET Objects, op \in {"delete", "deleteAll"} :
        /\ StopTesters(ts) /\ cli' = [op |-> op, on |-> ts] /\ \A t \in ts : InList(t)
        /\ op = "delete" => \A t, u \in ts : t = u
  <2>1. CASE \E i \in DOMAIN list : StopTesters({list[i]}) /\ cli' = [op |-> "delete", on |-> {list[i]}]
    <3>1. PICK i \in 1 .. Len(list) : StopTesters({list[i]}) /\ cli' = [op |-> "delete", on |-> {list[i]}]
      BY <1>2, <2>1
    <3>2. list[i] \in Objects /\ InList(list[i])
      BY <1>2 DEF InList
    <3>3. {list[i]} \in SUBSET Objects /\ \A t \in {list[i]} : InList(t)
      BY <3>2
    <3> QED  BY <3>1, <3>3
  <2>2. CASE StopTesters(ToSet(list)) /\ cli' = [op |-> "deleteAll", on |-> ToSet(list)]
    <3>1. ToSet(list) \in SUBSET Objects /\ \A t \in ToSet(list) : InList(t)
      BY <1>2 DEF ToSet, InList
    <3> QED  BY <2>2, <3>1
  <2> QED  BY <2>1, <2>2 DEF CmdDelete
<1>4. ObjsOk(obj') /\ Linked(obj', tab) /\ SameLive
  BY <1>3, StopKeeps
<1>5. cli'.on = ts /\ cli'.op = op
  BY <1>3
<1>6. Up'
  BY <1>1, <1>4, <1>5 DEF Up
<1>7. \A i \in 1 .. Len(list) : list[i] \in Objects
  BY <1>2
<1>8. \A t \in ts : InList(t)'
  BY <1>1, <1>3 DEF InList
<1>9. /\ \A i, j \in 1 .. Len(list') : list'[i] = list'[j] => i = j
      /\ \A i \in 1 .. Len(list') : obj'[list'[i]].live
  BY <1>1, <1>4, <1>7 DEF Listed, SameLive
<1> QED  BY <1>3, <1>5, <1>6, <1>8, <1>9 DEF Listed

LEMMA CmdDeletedKeeps ==
    ASSUME Up, Listed, CmdDeleted
    PROVE  Up' /\ Listed'
<1> DEFINE ts == cli.on
<1>1. /\ cli' = Idle /\ cli.op \in {"delete", "deleteAll"} /\ UNCHANGED sig
      /\ Exited(ts) /\ Delete(ts) /\ ts \in SUBSET Objects /\ \A t \in ts : obj[t].live
  BY DEF CmdDeleted, CliRuns, Up
<1>2. /\ ObjsOk(obj') /\ TabOk(tab') /\ Linked(obj', tab')
      /\ \A t \in Objects : t \notin ts => obj'[t] = obj[t]
  BY <1>1, DeleteKeeps
<1>3. list \in Seq(Objects) /\ DOMAIN list = 1 .. Len(list) /\ Len(list) \in Nat
  BY DEF Up
<1>4. /\ list' \in Seq(Objects)
      /\ \A i, j \in 1 .. Len(list') : list'[i] = list'[j] => i = j
      /\ \A i \in 1 .. Len(list') : obj'[list'[i]].live
  <2>1. CASE cli.op = "delete"
    <3>1. PICK i \in 1 .. Len(list) : list[i] \in ts /\ list' = RemoveAt(list, i)
      BY <1>3, <2>1 DEF CmdDeleted
    <3>2. list' = SubSeq(list, 1, i - 1) \o SubSeq(list, i + 1, Len(list))
      BY <3>1 DEF RemoveAt
    <3>3. /\ list' \in Seq(Objects) /\ Len(list') = Len(list) - 1
          /\ \A j \in 1 .. Len(list') : list'[j] = IF j < i THEN list[j] ELSE list[j + 1]
      <4> DEFINE a == SubSeq(list, 1, i - 1)
                 b == SubSeq(list, i + 1, Len(list))
      <4>1. a \in Seq(Objects) /\ Len(a) = i - 1 /\ \A j \in 1 .. i - 1 : a[j] = list[j]
        BY <1>3, <3>1
      <4>2. /\ b \in Seq(Objects) /\ Len(b) = Len(list) - i
            /\ \A j \in 1 .. Len(list) - i : b[j] = list[j + i]
        <5>1. \A j \in i + 1 .. Len(list) : list[j] \in Objects
          BY <1>3, <3>1
        <5>2. /\ b \in Seq(Objects)
              /\ Len(b) = IF i + 1 <= Len(list) THEN Len(list) - (i + 1) + 1 ELSE 0
              /\ \A j \in 1 .. Len(list) - (i + 1) + 1 : b[j] = list[i + 1 + j - 1]
          BY <1>3, <3>1, <5>1, SubSeqProperties
        <5> HIDE DEF b
        <5>3. Len(b) = Len(list) - i
          <6> DEFINE m == Len(list)
          <6>1. m \in Nat /\ i \in 1 .. m /\ Len(b) = IF i + 1 <= m THEN m - (i + 1) + 1 ELSE 0
            BY <1>3, <3>1, <5>2
          <6> HIDE DEF m
          <6>2. Len(b) = m - i
            BY <6>1
          <6> QED  BY <6>2 DEF m
        <5>4. ASSUME NEW j \in 1 .. Len(list) - i  PROVE b[j] = list[j + i]
          <6>1. j \in 1 .. Len(list) - (i + 1) + 1 /\ i + 1 + j - 1 = j + i
            BY <1>3, <3>1
          <6> QED  BY <5>2, <6>1
        <5> QED  BY <5>2, <5>3, <5>4
      <4> HIDE DEF a, b
      <4>3. /\ a \o b \in Seq(Objects) /\ Len(a \o b) = Len(a) + Len(b)
            /\ \A j \in 1 .. Len(a) + Len(b) : (a \o b)[j] = IF j <= Len(a) THEN a[j] ELSE b[j - Len(a)]
        BY <4>1, <4>2, ConcatProperties
      <4>4. list' = a \o b
        BY <3>2 DEF a, b
      <4>5. Len(list') = Len(list) - 1
        <5> DEFINE m == Len(list)
        <5>1. m \in Nat /\ i \in 1 .. m /\ Len(list') = (i - 1) + (m - i)
          BY <1>3, <3>1, <4>1, <4>2, <4>3, <4>4
        <5> HIDE DEF m
        <5>2. Len(list') = m - 1
          BY <5>1
        <5> QED  BY <5>2 DEF m
      <4>6. ASSUME NEW j \in 1 .. Len(list')
            PROVE  list'[j] = IF j < i THEN list[j] ELSE list[j + 1]
        <5>1. CASE j < i
          BY <1>3, <3>1, <4>1, <4>2, <4>3, <4>4, <4>5, <5>1
        <5>2. CASE j >= i
          <6>1. j - (i - 1) \in 1 .. Len(list) - i /\ j - (i - 1) + i = j + 1
            BY <1>3, <3>1, <4>5, <5>2
          <6>2. list'[j] = b[j - (i - 1)]
            BY <1>3, <3>1, <4>1, <4>2, <4>3, <4>4, <4>5, <5>2
          <6> QED  BY <3>1, <4>2, <5>2, <6>1, <6>2
        <5> QED  BY <1>3, <3>1, <4>5, <5>1, <5>2
      <4> QED  BY <4>3, <4>4, <4>5, <4>6
    <3>4. \A j \in 1 .. Len(list') :
             \E n \in 1 .. Len(list) : n # i /\ n = (IF j < i THEN j ELSE j + 1) /\ list'[j] = list[n]
      BY <1>3, <3>1, <3>3
    <3>5. \A n \in 1 .. Len(list) : n # i => list[n] \notin ts /\ list[n] \in Objects
      BY <1>3, <2>1, <3>1 DEF Listed
    <3>6. \A j, m \in 1 .. Len(list') : list'[j] = list'[m] => j = m
      BY <1>3, <3>1, <3>3, <3>4 DEF Listed
    <3>7. ASSUME NEW j \in 1 .. Len(list')  PROVE obj'[list'[j]].live
      <4>1. PICK n \in 1 .. Len(list) : n # i /\ list'[j] = list[n]
        BY <3>4
      <4>2. obj'[list[n]] = obj[list[n]] /\ obj[list[n]].live
        BY <1>2, <3>5, <4>1 DEF Listed
      <4> QED  BY <4>1, <4>2
    <3> QED  BY <3>3, <3>6, <3>7
  <2>2. CASE cli.op # "delete"
    <3>1. list' = <<>>
      BY <2>2 DEF CmdDeleted
    <3> QED  BY <3>1
  <2> QED  BY <2>1, <2>2
<1>5. Up'
  BY <1>1, <1>2, <1>4, IdleIs DEF Up
<1> QED  BY <1>1, <1>4, <1>5, IdleIs DEF Listed

\* The handler of a signal, beside whatever the command line is doing.
LEMMA RemoveTranKeeps ==
    ASSUME Up, Listed, RemoveTran
    PROVE  Up' /\ Listed'
<1>1. UNCHANGED <<list, cli, tab>> /\ StopTesters(ToSet(list)) /\ sig = NoSignal
  BY DEF RemoveTran
<1>2. ToSet(list) \in SUBSET Objects
  BY ListFacts
<1>3. ObjsOk(obj') /\ Linked(obj', tab) /\ SameLive
  BY <1>1, <1>2, StopKeeps
<1>4. Up'
  BY <1>1, <1>3 DEF Up
<1>5. (\A i \in 1 .. Len(list) : list[i] \in Objects) /\ cli.on \subseteq Objects
  BY DEF Up
<1> QED  BY <1>1, <1>3, <1>4, <1>5 DEF Listed, SameLive, InList

LEMMA RemoveTranDeletesKeeps ==
    ASSUME Up, Listed, RemoveTranDeletes
    PROVE  Up' /\ Listed'
<1>1. /\ Exited(ToSet(list)) /\ Delete(ToSet(list)) /\ list' = <<>> /\ UNCHANGED cli
      /\ sig' = [op |-> "deleted", by |-> sig.by]
  BY DEF RemoveTranDeletes
<1>2. ToSet(list) \in SUBSET Objects
  BY ListFacts
<1>3. /\ ObjsOk(obj') /\ TabOk(tab') /\ Linked(obj', tab')
      /\ \A t \in ToSet(list) : ~obj'[t].live
      /\ \A t \in Objects : t \notin ToSet(list) => obj'[t] = obj[t]
  BY <1>1, <1>2, DeleteKeeps
<1>4. Up'
  BY <1>1, <1>3 DEF Up
<1>5. sig' # NoSignal
  <2>1. sig'.op = "deleted" /\ NoSignal.op = "none"
    BY <1>1 DEF NoSignal
  <2> QED  BY <2>1
<1>6. Len(list') = 0
  BY <1>1
<1>7. \A t \in Objects : t \in ToSet(list) <=> InList(t)
  BY DEF ToSet, InList, Up
<1>8. cli.on \subseteq Objects
  BY DEF Up
<1> QED  BY <1>1, <1>3, <1>4, <1>5, <1>6, <1>7, <1>8 DEF Listed, InList

\* A thread that runs has its tester, and the table does not change.
LEMMA ThreadKeeps ==
    ASSUME Up, Listed, NEW t \in Objects, NEW o, ObjOk(o), o.hdl = obj[t].hdl, o.live = obj[t].live,
           obj' = [obj EXCEPT ![t] = o], UNCHANGED <<list, cli, sig, tab>>
    PROVE  Up' /\ Listed'
<1> DEFINE ns == obj'
<1>1. ns = [obj EXCEPT ![t] = o]
  OBVIOUS
<1> HIDE DEF ns
<1>2. ObjsOk(ns) /\ Linked(ns, tab)
  BY <1>1, OneObject DEF Up
<1>3. \A u \in Objects : ns[u].live = obj[u].live
  BY <1>1 DEF Up, ObjsOk
<1>4. SameLive
  BY <1>3 DEF ns, SameLive
<1> QED  BY <1>2, <1>4, ListedSame DEF ns, Up

LEMMA RunningFacts ==
    ASSUME Up, Listed, NEW t \in Objects, NEW th \in {"starting", "made", "loop"}, Runs(t, th)
    PROVE  ObjOk(obj[t]) /\ obj[t].th = th /\ obj[t].live
BY DEF Up, ObjsOk, Runs, ObjOk

LEMMA ExitKeeps ==
    ASSUME Up, Listed, NEW t \in Objects, ObjOk(obj[t]), obj[t].live, ExitThread(t),
           UNCHANGED <<list, cli, sig, tab>>
    PROVE  Up' /\ Listed'
<1> DEFINE o == Ended(obj[t])
<1>1. ObjOk(o) /\ o.hdl = obj[t].hdl /\ o.live = obj[t].live
  BY EndedFacts
<1>2. obj' = [obj EXCEPT ![t] = o]
  BY DEF ExitThread
<1> HIDE DEF o
<1> QED  BY <1>1, <1>2, ThreadKeeps

LEMMA CreateGtpInstKeeps ==
    ASSUME Up, Listed, NEW t \in Objects, CreateGtpInst(t)
    PROVE  Up' /\ Listed'
<1>1. ObjOk(obj[t]) /\ obj[t].th = "starting" /\ obj[t].live
  BY RunningFacts DEF CreateGtpInst
<1> DEFINE Made(r) == /\ tab' = r[1]
                      /\ IF r[2] # InvalidHandler
                         THEN obj' = [obj EXCEPT ![t] = [@ EXCEPT !.th = "made", !.hdl = r[2]]]
                         ELSE ExitThread(t)
<1>7. PICK ok \in BOOLEAN : Made(CreateGtpInstance(tab, t, ok))
  <2>1. \E ok \in BOOLEAN : \E r \in {CreateGtpInstance(tab, t, ok)} : Made(r)
    BY DEF CreateGtpInst
  <2> HIDE DEF Made
  <2> QED  BY <2>1
<1> DEFINE r == CreateGtpInstance(tab, t, ok)
<1>2. Made(r)
  BY <1>7
<1> HIDE DEF r
<1>3. UNCHANGED <<list, cli, sig>> /\ TabOk(tab)
  BY DEF CreateGtpInst, Up
<1>4. \/ r[1] = tab /\ r[2] = InvalidHandler
      \/ /\ TabOk(r[1]) /\ r[2] \in 0 .. MaxInst - 1 /\ tab.inst[r[2]] = Nobody
         /\ r[1].inst = [tab.inst EXCEPT ![r[2]] = t]
  <2>1. r = CreateGtpInstance(tab, t, ok)
    BY DEF r
  <2> QED  BY <1>3, <2>1, CreateFacts
<1>5. CASE r[2] = InvalidHandler
  <2>1. tab' = tab /\ ExitThread(t)
    BY <1>2, <1>4, <1>5, InstancesAssumption DEF InvalidHandler
  <2> QED  BY <1>1, <1>3, <2>1, ExitKeeps
<1>6. CASE r[2] # InvalidHandler
  <2> DEFINE h == r[2]
             o == [obj[t] EXCEPT !.th = "made", !.hdl = h]
             y == r[1]
  <2>1. /\ TabOk(y) /\ h \in 0 .. MaxInst - 1 /\ tab.inst[h] = Nobody
        /\ y.inst = [tab.inst EXCEPT ![h] = t] /\ tab' = y
    BY <1>2, <1>4, <1>6
  <2>2. obj' = [obj EXCEPT ![t] = o]
    BY <1>2, <1>6
  <2>3. ObjOk(o) /\ o.hdl = h /\ o.live = obj[t].live
    <3> HIDE DEF h
    <3>1. h \in 0 .. MaxInst - 1
      BY <2>1
    <3> QED  BY <1>1, <3>1, MadeFacts
  <2>4. obj = [u \in Objects |-> obj[u]] /\ \A u \in Objects : ObjOk(obj[u])
    BY DEF Up, ObjsOk
  <2> HIDE DEF o, y, h
  <2>5. obj' = [u \in Objects |-> IF u = t THEN o ELSE obj[u]]
    BY <2>2, <2>4
  <2>6. ObjsOk(obj')
    BY <2>3, <2>4, <2>5 DEF ObjsOk
  <2>7. DOMAIN tab.inst = 0 .. MaxInst - 1 /\ tab.inst \in [0 .. MaxInst - 1 -> Objects \cup {Nobody}]
    BY DEF Up, TabOk
  <2>8. obj[t].hdl = InvalidHandler
    BY <1>1 DEF ObjOk
  <2>9. ASSUME NEW p \in 0 .. MaxInst - 1, y.inst[p] # Nobody  PROVE obj'[y.inst[p]].hdl = p
    <3>1. CASE p = h
      BY <2>1, <2>3, <2>5, <2>7, <3>1
    <3>2. CASE p # h
      <4>1. y.inst[p] = tab.inst[p]
        BY <2>1, <2>7, <3>2
      <4>2. tab.inst[p] \in Objects /\ obj[tab.inst[p]].hdl = p
        BY <2>7, <2>9, <4>1 DEF Up, Linked
      <4>3. tab.inst[p] # t
        BY <2>8, <4>2, InstancesAssumption DEF InvalidHandler
      <4> QED  BY <2>5, <4>1, <4>2, <4>3
    <3> QED  BY <3>1, <3>2
  <2>10. ASSUME NEW u \in Objects, obj'[u].hdl # InvalidHandler  PROVE y.inst[obj'[u].hdl] = u
    <3>1. CASE u = t
      BY <2>1, <2>3, <2>5, <2>7, <3>1
    <3>2. CASE u # t
      <4>1. obj'[u] = obj[u]
        BY <2>5, <3>2
      <4>2. tab.inst[obj[u].hdl] = u /\ obj[u].hdl \in 0 .. MaxInst - 1
        BY <2>4, <2>10, <4>1 DEF Up, Linked, ObjOk, Handlers
      <4>3. obj[u].hdl # h
        BY <2>1, <4>2, TestersAssumption
      <4> QED  BY <2>1, <2>7, <4>1, <4>2, <4>3
    <3> QED  BY <3>1, <3>2
  <2>11. Linked(obj', tab')
    BY <2>1, <2>9, <2>10 DEF Linked
  <2>12. SameLive
    BY <2>3, <2>5 DEF SameLive
  <2> QED  BY <1>3, <2>1, <2>6, <2>11, <2>12, ListedSame DEF Up
<1> QED  BY <1>5, <1>6

LEMMA OpenSocketsKeeps ==
    ASSUME Up, Listed, NEW t \in Objects, OpenSockets(t)
    PROVE  Up' /\ Listed'
<1>1. ObjOk(obj[t]) /\ obj[t].th = "made" /\ obj[t].live
  BY RunningFacts DEF OpenSockets
<1>2. UNCHANGED <<list, cli, sig, tab>>
  BY DEF OpenSockets
<1>3. CASE obj' = [obj EXCEPT ![t] = [@ EXCEPT !.th = "loop", !.runned = TRUE]]
  <2> DEFINE o == [obj[t] EXCEPT !.th = "loop", !.runned = TRUE]
  <2>1. ObjOk(o) /\ o.hdl = obj[t].hdl /\ o.live = obj[t].live
    BY <1>1, LoopFacts
  <2>2. obj' = [obj EXCEPT ![t] = o]
    BY <1>3
  <2> HIDE DEF o
  <2> QED  BY <1>2, <2>1, <2>2, ThreadKeeps
<1>4. CASE ExitThread(t)
  BY <1>1, <1>2, <1>4, ExitKeeps
<1> QED  BY <1>3, <1>4 DEF OpenSockets

LEMMA ReceiveKeeps ==
    ASSUME Up, Listed, NEW t \in Objects, NEW f, Receive(t, f)
    PROVE  Up' /\ Listed'
<1>1. ObjOk(obj[t])
  BY RunningFacts DEF Receive
<1>2. UNCHANGED <<list, cli, sig, tab>>
  BY DEF Receive
<1> DEFINE u == obj[t]
           o == [u EXCEPT !["fsm"] = StateAfter(u["fsm"], f)]
<1>3. obj' = [obj EXCEPT ![t] = o]
  BY DEF Receive
<1>4. ObjOk(o) /\ o.hdl = obj[t].hdl /\ o.live = obj[t].live
  <2> DEFINE v == StateAfter(u["fsm"], f)
  <2>1. ObjOk(u)
    BY <1>1
  <2> HIDE DEF u, v
  <2>2. /\ ObjOk([u EXCEPT !["fsm"] = v]) /\ [u EXCEPT !["fsm"] = v].hdl = u.hdl
        /\ [u EXCEPT !["fsm"] = v].live = u.live
    BY <2>1, StoppedFacts
  <2> QED  BY <2>2 DEF v, u
<1> HIDE DEF o
<1> QED  BY <1>2, <1>3, <1>4, ThreadKeeps

LEMMA TestersStep == TestersInv /\ [TestersNext]_testersVars => TestersInv'
<1> SUFFICES ASSUME TestersInv, [TestersNext]_testersVars PROVE TestersInv'
  OBVIOUS
<1>1. CASE cli.op = "down"
  <2>1. cli' = cli
    BY <1>1 DEF TestersNext, CmdCreate, CmdCreateFails, CmdCreated, CmdDelete, CmdDeleted, CliRuns,
        CmdDeleteBreaks, RemoveTran, RemoveTranDeletes, RemoveTranEnds,
        CreateGtpInst, OpenSockets, LoopStopped, LoopFails, SendTest, SendFile,
        Receive, ServerReceive, Lose, testersVars
  <2> QED  BY <1>1, <2>1 DEF TestersInv
<1>2. CASE cli.op # "down"
  <2>1. Up /\ Listed
    BY <1>2 DEF TestersInv
  <2>2. SUFFICES cli'.op # "down" => Up' /\ Listed'
    BY DEF TestersInv
  <2>3. ASSUME NEW t \in Objects, NEW k, CmdCreate(t, k) \/ CmdCreateFails(t, k)  PROVE Up' /\ Listed'
    BY <2>1, <2>3, CmdCreateKeeps, CmdCreateFailsKeeps
  <2>4. ASSUME CmdCreated \/ CmdDelete \/ CmdDeleted  PROVE Up' /\ Listed'
    BY <2>1, <2>4, CmdCreatedKeeps, CmdDeleteKeeps, CmdDeletedKeeps
  <2>5. ASSUME RemoveTran \/ RemoveTranDeletes  PROVE Up' /\ Listed'
    BY <2>1, <2>5, RemoveTranKeeps, RemoveTranDeletesKeeps
  <2>6. ASSUME CmdDeleteBreaks \/ RemoveTranEnds  PROVE cli'.op = "down"
    <3>1. cli' = [op |-> "down", on |-> {}]
      BY <2>6 DEF CmdDeleteBreaks, RemoveTranEnds
    <3> QED  BY <3>1
  <2>7. ASSUME NEW t \in Objects, CreateGtpInst(t) \/ OpenSockets(t)  PROVE Up' /\ Listed'
    BY <2>1, <2>7, CreateGtpInstKeeps, OpenSocketsKeeps
  <2>8. ASSUME NEW t \in Objects, LoopStopped(t) \/ LoopFails(t)  PROVE Up' /\ Listed'
    <3>1. Runs(t, "loop") /\ ExitThread(t) /\ UNCHANGED <<list, cli, sig, tab>>
      BY <2>8 DEF LoopStopped, LoopFails
    <3>2. ObjOk(obj[t]) /\ obj[t].live
      BY <2>1, <3>1, RunningFacts
    <3> QED  BY <2>1, <3>1, <3>2, ExitKeeps
  <2>9. ASSUME NEW t \in Objects, NEW f, Receive(t, f)  PROVE Up' /\ Listed'
    BY <2>1, <2>9, ReceiveKeeps
  <2>10. ASSUME UNCHANGED <<obj, list, ids, cli, sig, tab>>  PROVE Up' /\ Listed'
    BY <2>1, <2>10 DEF Up, Listed, InList
  <2>11. ASSUME NEW t \in Objects, NEW f, SendTest(t) \/ SendFile(t) \/ ServerReceive(t, f) \/ Lose(t, f)
         PROVE  Up' /\ Listed'
    BY <2>10, <2>11 DEF SendTest, SendFile, ServerReceive, Lose
  <2>12. ASSUME UNCHANGED testersVars  PROVE Up' /\ Listed'
    BY <2>10, <2>12 DEF testersVars
  <2> QED  BY <2>3, <2>4, <2>5, <2>6, <2>7, <2>8, <2>9, <2>11, <2>12, Zenon DEF TestersNext
<1> QED  BY <1>1, <1>2

LEMMA TestersAlways == TestersSpec => []TestersInv
BY TestersStart, TestersStep, PTL DEF TestersSpec

\* For any number of testers and instances: until the process goes down, the
\* table holds exactly the instances of the testers that exist, under the
\* handlers they have, no thread runs whose tester was deleted, and no command
\* works with one that does not exist, whichever steps of starting a tester fail
\* and whenever commands stop it; a signal may come at any time, and only a
\* command that is deleting while its handler runs is excepted.
THEOREM EveryInstanceOwned == TestersSpec => []InstancesOwned
<1>1. TestersInv => InstancesOwned
  <2> SUFFICES ASSUME TestersInv, cli.op # "down"
               PROVE  /\ \A t \in Objects : obj[t].th \in {"starting", "made", "loop"} => obj[t].live
                      /\ \A t \in ToSet(list) : obj[t].live
                      /\ sig = NoSignal \/ cli.op = "create" => \A t \in cli.on : obj[t].live
                      /\ tab.num = Cardinality({p \in DOMAIN tab.inst : tab.inst[p] # Nobody})
                      /\ \A p \in DOMAIN tab.inst : tab.inst[p] # Nobody => obj[tab.inst[p]].hdl = p
                      /\ \A t \in Objects : obj[t].hdl # InvalidHandler => tab.inst[obj[t].hdl] = t
    BY DEF InstancesOwned
  <2>1. ObjsOk(obj) /\ TabOk(tab) /\ Linked(obj, tab) /\ Listed /\ list \in Seq(Objects)
    BY DEF TestersInv, Up
  <2>2. \A t \in Objects : obj[t].th \in {"starting", "made", "loop"} => obj[t].live
    BY <2>1 DEF ObjsOk, ObjOk
  <2>3. tab.num = Cardinality({p \in DOMAIN tab.inst : tab.inst[p] # Nobody})
    BY <2>1 DEF TabOk, Used
  <2>4. DOMAIN tab.inst = 0 .. MaxInst - 1
    BY <2>1 DEF TabOk
  <2>5. \A t \in ToSet(list) : obj[t].live
    BY <2>1 DEF Listed, ToSet
  <2>6. cli.op \in {"idle", "create", "delete", "deleteAll"}
    BY DEF TestersInv, Listed
  <2>7. sig = NoSignal \/ cli.op = "create" => \A t \in cli.on : obj[t].live
    BY <2>1, <2>6 DEF Listed, InList
  <2> QED  BY <2>1, <2>2, <2>3, <2>4, <2>5, <2>7 DEF Linked
<1> QED  BY <1>1, TestersAlways, PTL

\* The search of FindGtpMemIdlePos, although it goes on from the first place
\* where it means to go on behind the middle, finds a place whenever the counter
\* inst_num_ says that there is one: CreateGtpInstance fails only for want of
\* memory or at MAX_GTP_INST_NUM instances.
THEOREM FreePlaceFound ==
    TestersSpec => [](cli.op # "down" /\ tab.num < MaxInst
                        => FindGtpMemIdlePos(tab.inst)[MaxInst - 1][0] \in 0 .. MaxInst - 1)
<1> DEFINE pos == FindGtpMemIdlePos(tab.inst)[MaxInst - 1][0]
<1>1. TestersInv => (cli.op # "down" /\ tab.num < MaxInst => pos \in 0 .. MaxInst - 1)
  <2> SUFFICES ASSUME TestersInv, cli.op # "down", tab.num < MaxInst, pos \notin 0 .. MaxInst - 1
               PROVE  FALSE
    OBVIOUS
  <2>1. MaxInst \in Nat /\ MaxInst - 1 \in -1 .. MaxInst - 1 /\ 0 \in 0 .. MaxInst
    BY InstancesAssumption
  <2>2. Free(tab.inst, pos)
    BY <2>1, IdleFound
  <2>3. pos = -1
    <3> HIDE DEF pos
    <3> QED  BY <2>2 DEF Free
  <2>4. \A p \in 0 .. MaxInst - 1 : tab.inst[p] # Nobody
    BY <2>1, <2>3, IdleComplete
  <2>5. Used(tab) = 0 .. MaxInst - 1 /\ tab.num = Cardinality(Used(tab))
    <3> HIDE DEF pos
    <3> QED  BY <2>4 DEF TestersInv, Up, TabOk, Used
  <2>6. Cardinality(0 .. MaxInst - 1) = MaxInst
    <3>1. 0 \in Int /\ MaxInst - 1 \in Int
      BY <2>1
    <3>2. Cardinality(0 .. MaxInst - 1) = IF 0 > MaxInst - 1 THEN 0 ELSE MaxInst - 1 - 0 + 1
      BY <3>1, FS_Interval
    <3> QED  BY <2>1, <3>2
  <2> QED  BY <2>1, <2>5, <2>6
<1> QED  BY <1>1, TestersAlways, PTL
=============================================================================
