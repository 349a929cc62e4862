------------------------------ MODULE UdpProxy ------------------------------
(***************************************************************************)
(* The worker thread (pair_session_mgr) of the socks5 UDP proxy of         *)
(* socks5udpf/, which relays datagrams between clients and game servers,   *)
(* with or without GoodTP towards the client (fec).                        *)
(*                                                                         *)
(* w is the worker: the sessions (pair_session_info) by client address     *)
(* (game_client_relation_s_), the sessions by socket                       *)
(* (game_server_relation_s_, a session named by its client), its queues,   *)
(* its copy of the authorised users, the sockets the kernel has open, and  *)
(* pkg and key (fec_data_pkg_, fec_stream_key_): whether the datagram in   *)
(* the worker's buffer belongs to GoodTP, and its stream key.  Both are    *)
(* members that every datagram and every callback of the library           *)
(* overwrites; the handlers read them there.                               *)
(* A handler is an operator from a worker to the set of workers it may     *)
(* leave: what the kernel answers to a send, to epoll_ctl and to the       *)
(* creation of a socket is open.                                           *)
(***************************************************************************)
EXTENDS Naturals, Sequences, FiniteSetsExt

CONSTANTS
    Clients,     \* addresses of clients
    Listeners,   \* addresses the proxy may listen on
    Pwds,        \* passwords that identify users
    Lists,       \* contents of the users' file: functions from passwords to names
    KeysOf,      \* the stream keys of GoodTP each client uses; 0 is no key
    Kinds,       \* what a session relays: "udp", or an ICMP identifier
    Fds,         \* descriptors of game sockets, 1..n
    Timeout,     \* sock_timeout_s
    MaxQueue,    \* bound: datagrams queued per socket (the code has none)
    HeldTypes,   \* bound: types of datagrams the library may keep back
    EpollFails   \* sorts of sockets for which epoll_ctl may fail

ASSUME ProxyAssumption ==
    /\ "none" \notin Clients
    /\ \A c \in Clients : 0 \notin KeysOf[c]
    /\ 0 \notin Fds /\ Fds \subseteq Nat
    /\ Timeout \in Nat \ {0} /\ MaxQueue \in Nat
    /\ EpollFails \subseteq {"game", "listen"}
    /\ \A l \in Lists : DOMAIN l \subseteq Pwds

VARIABLES
    w,      \* the worker
    users,  \* the list sync_auth_info has published, and whether w has seen its stamp
    sync    \* the thread of sync_auth_info; "told": it has published in this round

vars == <<w, users, sync>>

NoFd == 0
None == "none"

(***************************************************************************)
(* A datagram of a client: plain or in a GoodTP packet, whose key may be   *)
(* missing (it is then dropped, whatever its type).  "odd" is an unknown   *)
(* command.  What check_game_client_data_valid_4_header refuses for its    *)
(* form changes nothing and is left out.                                   *)
(***************************************************************************)
Datagrams == {d \in [client : Clients, pwd : Pwds, kind : Kinds, fec : BOOLEAN,
                     key : {0} \cup UNION {KeysOf[c] : c \in Clients},
                     type : {"echo", "control", "odd", "data"}] :
                /\ d.key # 0 => d.fec /\ d.key \in KeysOf[d.client]
                /\ d.fec /\ d.key = 0 => d.type = "data"
                /\ d.type # "data" => d.kind = "udp"}

(* No session: the client is not in game_client_relation_s_. *)
NoSession == [on |-> FALSE, listener |-> None, kind |-> "udp", pwd |-> None, user |-> None,
              fd |-> NoFd, fec |-> FALSE, key |-> 0, age |-> 0, queue |-> 0, pollout |-> FALSE]

Init ==
    /\ w = [state |-> "new", listen |-> {}, lqueue |-> [l \in Listeners |-> <<>>], lpollout |-> {},
            client |-> [c \in Clients |-> NoSession], server |-> [f \in Fds |-> None],
            open |-> {}, list |-> <<>>, since |-> 0, pkg |-> FALSE, key |-> 0]
    /\ users = [list |-> <<>>, seen |-> TRUE]
    /\ sync = "new"

-----------------------------------------------------------------------------
(* Sockets and queues *)

(* What epoll_ctl may answer for a socket of this sort. *)
EpollOk(sort) == IF sort \in EpollFails THEN BOOLEAN ELSE {TRUE}

(* handle_game_server_close: the socket and its entry, not the session's *)
Close(x, c) ==
    IF x.client[c].fd = NoFd THEN x
    ELSE [x EXCEPT !.open = @ \ {x.client[c].fd},
                   !.server[x.client[c].fd] = None,
                   !.client[c].fd = NoFd, !.client[c].pollout = FALSE]

(* handle_game_server_send: the queue until the socket is full.  The result is the worker *)
(* and whether the session can go on.                                                     *)
FlushServer(x, c) ==
    IF x.client[c].queue = 0 THEN {<<x, TRUE>>}
    ELSE {<<[x EXCEPT !.client[c].queue = n], TRUE>> : n \in 1 .. x.client[c].queue}
         \cup {<<[x EXCEPT !.client[c].queue = 0, !.client[c].pollout = ~ok], ok>> : ok \in EpollOk("game")}

(* push_data_2_game_server that forgets to ask for EPOLLOUT. *)
PushServerSilent(x, c) == {<<[x EXCEPT !.client[c].queue = @ + 1], TRUE>>}

(* push_data_2_game_server *)
PushServer(x, c) ==
    {<<[x EXCEPT !.client[c].queue = @ + 1, !.client[c].pollout = @ \/ ok], ok>> : ok \in EpollOk("game")}

(* handle_game_server_send_immediate: the queue first, then the datagram, whether or not *)
(* the queue is empty now; it is sent or, when the socket is full, queued                *)
SendServer(x, c) ==
    UNION {IF f[2] /\ f[1].client[c].queue < MaxQueue THEN {f} \cup PushServer(f[1], c) ELSE {f} :
           f \in FlushServer(x, c)}

(* handle_game_client_send: entries of clients that are gone are dropped *)
FlushClient(x, l) ==
    IF x.lqueue[l] = <<>> THEN {x}
    ELSE {[x EXCEPT !.lqueue[l] = SubSeq(@, n, Len(@))] :
            n \in {m \in DOMAIN x.lqueue[l] : x.client[x.lqueue[l][m]].on}}
         \cup {[x EXCEPT !.lqueue[l] = <<>>, !.lpollout = IF ok THEN @ \ {l} ELSE @] : ok \in EpollOk("listen")}

(* push_data_2_game_client *)
PushClient(x, l, c) ==
    {[x EXCEPT !.lqueue[l] = Append(@, c), !.lpollout = IF ok THEN @ \cup {l} ELSE @] : ok \in EpollOk("listen")}

(* handle_game_client_send_immediate_inner_second: what cannot be sent now is queued; *)
(* failures are only logged                                                           *)
SendClient(x, l, c) ==
    UNION {IF Len(f.lqueue[l]) < MaxQueue THEN {f} \cup PushClient(f, l, c) ELSE {f} :
           f \in FlushClient(x, l)}

-----------------------------------------------------------------------------
(* Sessions *)

(* auth_pwd_and_user_name_custom *)
Authorised(x, s) == s.pwd \in DOMAIN x.list /\ x.list[s.pwd] = s.user

(* check_pair_session_info: the session still fits the datagram.  A command says nothing *)
(* about the kind of traffic.  The password stands for the other fields of the header    *)
(* that are compared in the same way (IP version, double line and its index).            *)
Fits(s, l, d) ==
    /\ s.fd # NoFd
    /\ d.type = "data" => s.kind = d.kind
    /\ s.pwd = d.pwd
    /\ s.listener = l

(* create_game_server_socket: <<worker, descriptor>>.  There is no socket; or there is one, *)
(* which is closed again when bind, getsockname or epoll_ctl fails for it.                  *)
CreateSocket(x) ==
    {<<x, NoFd>>} \cup
    UNION {{<<[x EXCEPT !.open = @ \cup {f}], f>>, <<[x EXCEPT !.open = (@ \cup {f}) \ {f}], NoFd>>} :
           f \in {g \in Fds \ x.open : \A h \in Fds \ x.open : g <= h}}

(* create_pair_session_and_init: without a socket neither relation gets an entry *)
CreatePair(x, l, d) ==
    {IF r[2] = NoFd THEN r[1]
     ELSE [r[1] EXCEPT !.client[d.client] =
                [on |-> TRUE, listener |-> l, kind |-> d.kind, pwd |-> d.pwd, user |-> x.list[d.pwd],
                 fd |-> r[2], fec |-> x.pkg, key |-> 0, age |-> 0, queue |-> 0, pollout |-> FALSE],
                       !.server[r[2]] = d.client] :
       r \in CreateSocket(x)}

(* A session is forgotten without closing its socket. *)
ForgetOpen(x, c) == {[x EXCEPT !.client[c] = NoSession]}

(* A session that does not fit loses its socket and its entry. *)
Forget(x, c) == {[y EXCEPT !.client[c] = NoSession] : y \in {Close(x, c)}}

(* get_game_client_pair_seesion: the session of the sender, replaced when it does not fit *)
GetPair(x, l, d) ==
    IF Fits(x.client[d.client], l, d)
    THEN {[x EXCEPT !.client[d.client].fec = x.pkg]}
    ELSE UNION {CreatePair(y, l, d) : y \in Forget(x, d.client)}

(* The worker's members now speak of this datagram. *)
Mark(x, pkg, key) == [x EXCEPT !.pkg = pkg, !.key = key]

(* fec::send_pdu, which may fail for want of memory, and, called back by the library,   *)
(* fec::send_fec_pdu_cb: by the listener of the client's session, or of the frame if it *)
(* has none                                                                             *)
FecSend(x, l, c, key) ==
    {x} \cup SendClient(Mark(x, TRUE, key), IF x.client[c].on THEN x.client[c].listener ELSE l, c)

(* process_yb_client_cmd, and the end of handle_game_server_recv *)
Reply(x, c) ==
    IF x.client[c].fec THEN FecSend(x, x.client[c].listener, c, x.client[c].key)
    ELSE SendClient(x, x.client[c].listener, c)

(* handle_game_client_data from the session on; one that cannot be served is closed *)
Serve(x, d) ==
    CASE d.type = "control" -> Reply(x, d.client)
      [] d.type = "odd"     -> {x}
      [] OTHER -> {IF r[2] THEN r[1] ELSE Close(r[1], d.client) : r \in SendServer(x, d.client)}

(* The session is marked as active and remembers the key. *)
Touch(x, d) ==
    IF x.client[d.client].on
    THEN [x EXCEPT !.client[d.client].age = 0,
                   !.client[d.client].key = IF x.key # 0 THEN x.key ELSE @]
    ELSE x

(* handle_game_client_data with check_game_client_data_valid_4_header and do_flag_echo *)
HandleClientData(x, l, d) ==
    CASE d.type = "echo" -> IF x.pkg THEN FecSend(x, l, d.client, x.key) ELSE SendClient(x, l, d.client)
      [] d.type # "echo" /\ d.pwd \notin DOMAIN x.list -> {x}
      [] OTHER -> UNION {IF y.client[d.client].on THEN Serve(y, d) ELSE {y} :
                         y \in {Touch(z, d) : z \in GetPair(x, l, d)}}

-----------------------------------------------------------------------------
(* GoodTP towards the client *)

(* fec::recv_pdu_cb *)
RecvPduCb(x, l, d) == HandleClientData(Mark(x, TRUE, d.key), l, d)

(* fec::recv_fec_pdu: a packet without a key is dropped, as is any packet when memory is *)
(* short.  The library hands a frame to recv_pdu_cb at once, drops it as a repeat, or    *)
(* keeps it until the frames before it are there.                                        *)
RecvFecPdu(x, l, d) == IF x.key = 0 THEN {x} ELSE {x} \cup RecvPduCb(x, l, d)

(* handle_listen_socket_recv that leaves the key as it is when the datagram has none. *)
ListenRecvKeeps(x, l, d) ==
    IF d.fec THEN RecvFecPdu(Mark(x, TRUE, IF d.key = 0 THEN x.key ELSE d.key), l, d)
    ELSE HandleClientData(Mark(x, FALSE, x.key), l, d)

(* handle_listen_socket_recv, one datagram; is_fec_pkg finds the key *)
ListenRecv(x, l, d) ==
    IF d.fec THEN RecvFecPdu(Mark(x, TRUE, d.key), l, d) ELSE HandleClientData(Mark(x, FALSE, 0), l, d)

(* What the library may keep back. *)
HeldFrames == {d \in Datagrams : d.key # 0 /\ d.type \in HeldTypes}

(* fec::fec_wheel: the library's timer hands over a frame it has kept, or sends something *)
(* again to a client of one of its sessions, which may outlive the one of the proxy (so   *)
(* that any keyed frame and any client may be meant, del_fec_session notwithstanding).    *)
FecWheel(x) ==
    {x} \cup UNION {(UNION {RecvPduCb(x, l, d) : d \in HeldFrames})
                    \cup (UNION {UNION {FecSend(x, l, c, k) : k \in KeysOf[c]} : c \in Clients}) : l \in x.listen}

-----------------------------------------------------------------------------
(* The worker's loop *)

Expired(x, s) == s.age >= Timeout \/ ~Authorised(x, s)

(* clear_game_server_socket_4_timeout for the sessions of the clients cs *)
ClearServers(x, cs) ==
    [x EXCEPT !.client = [c \in Clients |-> IF c \in cs THEN NoSession ELSE @[c]],
              !.server = [f \in Fds |-> IF @[f] \in cs THEN None ELSE @[f]],
              !.open = @ \ {x.client[c].fd : c \in cs}]

(* clear_game_client_socket_4_timeout: only as far as a session still has a socket *)
ClearClients(x, cs) ==
    [x EXCEPT !.client = [c \in Clients |-> IF c \in cs THEN NoSession ELSE @[c]]]

(* clear_socket_4_timeout *)
ClearSockets(x) ==
    UNION {{ClearClients(y, ds) : ds \in {{c \in Clients : y.client[c].fd # NoFd /\ Expired(y, y.client[c])}}} :
           y \in {ClearServers(x, cs) :
                    cs \in {{c \in Clients : x.client[c].fd # NoFd /\ x.server[x.client[c].fd] = c
                                               /\ Expired(x, x.client[c])}}}}

(* before_handle_epoll_wait that takes the new list and clears at the usual time only. *)
HousekeepingLazy(x) ==
    IF x.since >= (Timeout + 1) \div 2
    THEN UNION {ClearSockets(y) : y \in {[x EXCEPT !.since = 0, !.list = IF users.seen THEN @ ELSE users.list]}}
    ELSE {[x EXCEPT !.list = IF users.seen THEN @ ELSE users.list]}

(* What before_handle_epoll_wait does after the library's timer: a new list of users     *)
(* (update_auth_info_s_custom), or half the timeout since the last time, clears the      *)
(* sessions.                                                                             *)
Housekeeping(x) ==
    IF ~users.seen \/ x.since >= (Timeout + 1) \div 2
    THEN UNION {ClearSockets(y) : y \in {[x EXCEPT !.since = 0, !.list = IF users.seen THEN @ ELSE users.list]}}
    ELSE {x}

(* run, init_listen_socket, create_listen_socket: without any socket the thread ends *)
Start ==
    /\ w.state = "new"
    /\ \E ls \in SUBSET Listeners :
        w' = [w EXCEPT !.listen = ls, !.state = IF ls = {} THEN "stopped" ELSE "running"]
    /\ UNCHANGED <<users, sync>>

BeforeHandle ==
    /\ w.state = "running"
    /\ \E x \in FecWheel(w) : w' \in Housekeeping(x)
    /\ users' = [users EXCEPT !.seen = TRUE]
    /\ UNCHANGED sync

(* handle_listen_socket_events with EPOLLIN *)
RecvFromClient ==
    /\ w.state = "running"
    /\ \E l \in w.listen, d \in Datagrams : w' \in ListenRecv(w, l, d)
    /\ UNCHANGED <<users, sync>>

(* handle_game_server_recv, one datagram, which goes back to the client *)
RecvFromServer ==
    /\ w.state = "running"
    /\ \E f \in w.open :
        /\ w.server[f] # None
        /\ \E x \in {[w EXCEPT !.client[w.server[f]].age = 0]} : w' \in Reply(x, w.server[f])
    /\ UNCHANGED <<users, sync>>

(* handle_game_server_events with EPOLLOUT *)
ServerWritable ==
    /\ w.state = "running"
    /\ \E f \in w.open :
        /\ w.server[f] # None
        /\ w.client[w.server[f]].pollout
        /\ \E r \in FlushServer(w, w.server[f]) : w' = IF r[2] THEN r[1] ELSE Close(r[1], w.server[f])
    /\ UNCHANGED <<users, sync>>

(* handle_listen_socket_events with EPOLLOUT *)
ListenerWritable ==
    /\ w.state = "running"
    /\ \E l \in w.lpollout : w' \in FlushClient(w, l)
    /\ UNCHANGED <<users, sync>>

(* stop, wait_stop and the destructor *)
Stop ==
    /\ w.state = "running"
    /\ w' = [w EXCEPT !.state = "stopped", !.listen = {}, !.lqueue = [l \in Listeners |-> <<>>],
                      !.lpollout = {}, !.client = [c \in Clients |-> NoSession],
                      !.server = [f \in Fds |-> None], !.open = {}]
    /\ UNCHANGED <<users, sync>>

(* The time since the last datagram of a session that has a socket. *)
Older(s) == IF s.fd # NoFd THEN [s EXCEPT !.age = Min({s.age + 1, Timeout})] ELSE s

(* Time passes; the worker, which waits at most 500 ms, is not held up for the timeout. *)
Tick ==
    /\ w.state = "running"
    /\ w.since < Timeout
    /\ w' = [w EXCEPT !.since = @ + 1, !.client = [c \in Clients |-> Older(w.client[c])]]
    /\ UNCHANGED <<users, sync>>

-----------------------------------------------------------------------------
(* The thread of sync_auth_info *)

(* sync_auth_info_s: the users of the file, without those on lines that parse_auth_info *)
(* does not understand                                                                  *)
AuthInfo == UNION {{[p \in known |-> l[p]] : known \in SUBSET DOMAIN l} : l \in Lists}

(* auth_file_check_and_handle_change: the file is as it was, cannot be read, or gives a  *)
(* list, published under the mutex with the time the round began.  A second list of the  *)
(* same round has the stamp of the first, which the worker may have seen.                *)
Publish(round) ==
    \/ UNCHANGED users /\ sync' = round
    \/ /\ users' \in [list : AuthInfo, seen : {round = "told" /\ users.seen}]
       /\ sync' = "told"

(* run with init_fanotify, which may fail; the file is read in the first round *)
SyncStart ==
    /\ sync = "new"
    /\ \/ Publish("round")
       \/ sync' = "over" /\ UNCHANGED users
    /\ UNCHANGED w

(* before_handle_epoll_wait takes the time. *)
SyncRound ==
    /\ sync = "told"
    /\ sync' = "round"
    /\ UNCHANGED <<w, users>>

(* handle_fanotify_events, one event *)
SyncEvent ==
    /\ sync \in {"round", "told"}
    /\ Publish(sync)
    /\ UNCHANGED w

Next ==
    \/ Start \/ Stop \/ Tick
    \/ BeforeHandle \/ RecvFromClient \/ RecvFromServer \/ ServerWritable \/ ListenerWritable
    \/ SyncStart \/ SyncRound \/ SyncEvent

Spec == Init /\ [][Next]_vars

-----------------------------------------------------------------------------
(* Properties *)

(* The two relations and the kernel agree: every open game socket belongs to the session *)
(* of one client, and no other session holds a socket (create_pair_session_and_init,     *)
(* get_game_client_pair_seesion, handle_game_server_close, clear_socket_4_timeout).      *)
SocketsAccounted ==
    /\ w.open = {f \in Fds : w.server[f] # None}
    /\ \A f \in w.open : w.client[w.server[f]].on /\ w.client[w.server[f]].fd = f
    /\ \A c \in Clients : w.client[c].fd # NoFd => w.server[w.client[c].fd] = c

(* No socket is open for a user who is not in the worker's list under the same password, *)
(* whatever was changed, kept back by the library or created in between                  *)
(* (before_handle_epoll_wait, get_game_client_pair_seesion).                             *)
NoRevokedSession == \A f \in w.open : Authorised(w, w.client[w.server[f]])

(* Data that wait for a game server wait on a socket whose EPOLLOUT is asked for, so that *)
(* they are sent without further traffic (push_data_2_game_server,                        *)
(* handle_game_server_send).                                                              *)
QueuedArmed ==
    \A c \in Clients : w.client[c].fd # NoFd /\ w.client[c].queue > 0 => w.client[c].pollout

(* The stream key of a session is one its own client has sent, and a session that        *)
(* answers through GoodTP has one: whatever the member fec_stream_key_ was left at by    *)
(* datagrams of other clients, by answers and by the library's timer (recv_pdu_cb,       *)
(* send_fec_pdu_cb), no session answers in the stream of another client, nor writes the  *)
(* warning "fec_enable=1 but game_client_fec_stream_key=0 -> 5-tuple session!".          *)
DownlinkKeyed ==
    \A c \in Clients : /\ w.client[c].fec => w.client[c].key # 0
                       /\ w.client[c].key \in KeysOf[c] \cup {0}

=============================================================================
