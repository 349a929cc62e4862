------------------------------ MODULE Testers ------------------------------
(***************************************************************************)
(* The client process of the demo (tran.cpp): a command line thread        *)
(* creates and deletes testers (TranEpoll); every tester has a thread of   *)
(* its own with its own GoodTP instance and socket, and talks to a server  *)
(* through GoodTP.  A tester of kind "data" or "measure" first has the     *)
(* server create its record file and then asks for permission to send      *)
(* (state_machin_); one of kind "file" just sends.                         *)
(*                                                                         *)
(* GoodTP below the testers is a network that may lose, delay and reorder  *)
(* frames but repeats none.  What frames carry, the statistics and the     *)
(* files in which frames are recorded are left out.                        *)
(***************************************************************************)
EXTENDS Instances, SequencesExt

CONSTANTS
    Objects,     \* addresses TranEpoll objects can have
    TesterKinds, \* kinds of testers, of "data", "measure" and "file"
    IdBits,      \* bits of g_tester_id_bit_map
    MaxFlight,   \* bound: frames in flight per tester
    Failures     \* how Running may fail: "early", before the flags are set, or "thread"

ASSUME TestersAssumption ==
    /\ TesterKinds \subseteq {"data", "measure", "file"}
    /\ Nobody \notin Objects /\ "cli" \notin Objects /\ IdBits \in Nat /\ MaxFlight \in Nat \ {0}
    /\ Failures \subseteq {"early", "thread"}

VARIABLES
    obj,    \* the objects
    list,   \* g_epoll_thread_mgr.epoll_obj_
    ids,    \* bits set in g_tester_id_bit_map
    cli,    \* the command under way and the testers it waits for
    sig,    \* the handler of a signal and the thread it interrupts
    tab,    \* the table of GoodTP instances
    net     \* frames in flight between each tester and the server

testersVars == <<obj, list, ids, cli, sig, tab, net>>

ToServer == {"CrtFile", "ReqTranDt", "Data", "EchoReq", "FileTran"}
ToClient == {"CrtFileOk", "ResTranDt", "EchoRes"}

Idle == [op |-> "idle", on |-> {}]
NoSignal == [op |-> "none", by |-> "nobody"]

NoObject == [th |-> "none", live |-> FALSE, id |-> 0, kind |-> "data", enable |-> FALSE,
             runned |-> FALSE, exited |-> FALSE, hdl |-> InvalidHandler, fsm |-> "idle"]

(* InitTran of a client *)
TestersInit ==
    /\ obj = [t \in Objects |-> NoObject]
    /\ list = <<>> /\ ids = {} /\ cli = Idle /\ sig = NoSignal
    /\ tab = InsLoadGtpModule
    /\ net = [t \in Objects |-> {}]

-----------------------------------------------------------------------------
(* Commands *)

(* GenTesterId: the lowest clear bit; when there is none, an id that has no bit. *)
GenTesterId == CHOOSE i \in 1 .. IdBits + 1 : i \notin ids /\ \A j \in 1 .. i - 1 : j \in ids

(* The constructor, and Running as far as it is sure to come. *)
NewTester(k) == [NoObject EXCEPT !.live = TRUE, !.id = GenTesterId, !.kind = k]

(* The thread of the command line does not handle the signal. *)
CliRuns(op) == sig.by # "cli" /\ cli.op \in op

(* CmdCreateTester, CmdFileTranTester: the object, and Running until it waits. *)
CmdCreate(t, k) ==
    /\ CliRuns({"idle"})
    /\ ~obj[t].live
    /\ obj' = [obj EXCEPT ![t] = [NewTester(k) EXCEPT !.enable = TRUE, !.th = "starting"]]
    /\ cli' = [op |-> "create", on |-> {t}]
    /\ ids' = ids \cup ({GenTesterId} \cap 1 .. IdBits)
    /\ UNCHANGED <<list, sig, tab, net>>

(* Running fails, which the commands do not look at.  When it fails early the flags have *)
(* never been written.                                                                   *)
CmdCreateFails(t, k) ==
    /\ CliRuns({"idle"})
    /\ ~obj[t].live
    /\ \/ /\ "early" \in Failures
          /\ \E e \in BOOLEAN : obj' = [obj EXCEPT ![t] = [NewTester(k) EXCEPT !.exited = e]]
       \/ /\ "thread" \in Failures
          /\ obj' = [obj EXCEPT ![t] = [NewTester(k) EXCEPT !.enable = TRUE]]
    /\ list' = Append(list, t)
    /\ ids' = ids \cup ({GenTesterId} \cap 1 .. IdBits)
    /\ UNCHANGED <<cli, sig, tab, net>>

(* The end of Running and of the command. *)
CmdCreated ==
    /\ CliRuns({"create"})
    /\ \A t \in cli.on : obj[t].runned \/ obj[t].exited
    /\ \E t \in cli.on : list' = Append(list, t)
    /\ cli' = Idle
    /\ UNCHANGED <<obj, ids, sig, tab, net>>

(* TranEpoll::Stop for the testers ts *)
StopTesters(ts) ==
    obj' = [t \in Objects |-> IF t \in ts THEN [obj[t] EXCEPT !.enable = FALSE] ELSE obj[t]]

(* CmdDeleteTester: the first tester with this id, or all of them *)
CmdDelete ==
    /\ CliRuns({"idle"})
    /\ \/ \E i \in DOMAIN list :
            /\ \A j \in 1 .. i - 1 : obj[list[j]].id # obj[list[i]].id
            /\ StopTesters({list[i]})
            /\ cli' = [op |-> "delete", on |-> {list[i]}]
       \/ /\ list # <<>>
          /\ StopTesters(ToSet(list))
          /\ cli' = [op |-> "deleteAll", on |-> ToSet(list)]
    /\ UNCHANGED <<list, ids, sig, tab, net>>

(* An object is deleted without waiting for its thread. *)
ExitedAny(ts) == TRUE

(* The wait of CmdDeleteTester and RemoveTran. *)
Exited(ts) == \A t \in ts : obj[t].exited

(* The destructors of the testers ts; a thread is not ended by them *)
Delete(ts) ==
    /\ obj' = [t \in Objects |->
                 IF t \in ts THEN [NoObject EXCEPT !.th = IF obj[t].th = "over" THEN "none" ELSE obj[t].th]
                 ELSE obj[t]]
    /\ tab' = DeleteGtpInstance(tab, {obj[t].hdl : t \in ts})
    /\ net' = [t \in Objects |-> IF t \in ts THEN {} ELSE net[t]]

(* The end of CmdDeleteTester *)
CmdDeleted ==
    /\ CliRuns({"delete", "deleteAll"})
    /\ \A t \in cli.on : obj[t].live
    /\ Exited(cli.on)
    /\ Delete(cli.on)
    /\ IF cli.op = "delete"
       THEN \E i \in DOMAIN list : list[i] \in cli.on /\ list' = RemoveAt(list, i)
       ELSE list' = <<>>
    /\ ids' = IF cli.op = "deleteAll" THEN {} ELSE ids
    /\ cli' = Idle
    /\ UNCHANGED sig

(* CmdDeleteTester waits for, or deletes, a tester that RemoveTran has deleted meanwhile: *)
(* neither locks the list.  What happens then C++ leaves open; here the process ends.     *)
CmdDeleteBreaks ==
    /\ CliRuns({"delete", "deleteAll"})
    /\ \E t \in cli.on : ~obj[t].live
    /\ cli' = [op |-> "down", on |-> {}]
    /\ UNCHANGED <<obj, list, ids, sig, tab, net>>

-----------------------------------------------------------------------------
(* The handler of a signal, which runs at any time and on any thread *)

(* RemoveTran until it waits *)
RemoveTran ==
    /\ sig = NoSignal
    /\ cli.op # "down"
    /\ \E by \in {"main", "cli"} \cup {t \in Objects : obj[t].th \in {"starting", "made", "loop"}} :
         sig' = [op |-> "wait", by |-> by]
    /\ StopTesters(ToSet(list))
    /\ UNCHANGED <<list, ids, cli, tab, net>>

(* All testers that are in the list by now are deleted ... *)
RemoveTranDeletes ==
    /\ sig.op = "wait" /\ cli.op # "down"
    /\ Exited(ToSet(list))
    /\ Delete(ToSet(list))
    /\ list' = <<>>
    /\ sig' = [op |-> "deleted", by |-> sig.by]
    /\ UNCHANGED <<ids, cli>>

(* ... and the module is unloaded. *)
RemoveTranEnds ==
    /\ sig.op = "deleted"
    /\ cli.op # "down"
    /\ tab' = RmLoadGtpModule(tab)
    /\ cli' = [op |-> "down", on |-> {}]
    /\ UNCHANGED <<obj, list, ids, sig, net>>

-----------------------------------------------------------------------------
(* The thread of a tester: FileTranReceiveEntry, MeasureSpeedReceiveEnry, ReceiveEntry *)

(* The thread is not busy with the handler of a signal. *)
Runs(t, th) == cli.op # "down" /\ sig.by # t /\ obj[t].th = th

(* exit_thread_pos_: the socket is closed, exited_flag_ is the last thing that is written *)
Ended(o) == [o EXCEPT !.th = "over", !.enable = FALSE, !.runned = FALSE, !.exited = TRUE]
ExitThread(t) ==
    /\ obj' = [obj EXCEPT ![t] = Ended(@)]
    /\ net' = [net EXCEPT ![t] = @ \cap ToServer]

(* CreateGtpInst *)
CreateGtpInst(t) ==
    /\ Runs(t, "starting")
    /\ \E ok \in BOOLEAN : \E r \in {CreateGtpInstance(tab, t, ok)} :
        /\ tab' = r[1]
        /\ IF r[2] # InvalidHandler
           THEN obj' = [obj EXCEPT ![t] = [@ EXCEPT !.th = "made", !.hdl = r[2]]] /\ UNCHANGED net
           ELSE ExitThread(t)
    /\ UNCHANGED <<list, ids, cli, sig>>

(* epoll_create and CreateListenSocket, which may fail *)
OpenSockets(t) ==
    /\ Runs(t, "made")
    /\ \/ obj' = [obj EXCEPT ![t] = [@ EXCEPT !.th = "loop", !.runned = TRUE]] /\ UNCHANGED net
       \/ ExitThread(t)
    /\ UNCHANGED <<list, ids, cli, sig, tab>>

(* The loop is left when the tester is stopped ... *)
LoopStopped(t) ==
    /\ Runs(t, "loop")
    /\ ~obj[t].enable
    /\ ExitThread(t)
    /\ UNCHANGED <<list, ids, cli, sig, tab>>

(* ... or when epoll_wait fails. *)
LoopFails(t) ==
    /\ Runs(t, "loop")
    /\ ExitThread(t)
    /\ UNCHANGED <<list, ids, cli, sig, tab>>

(* A client that takes up no answer while it waits for the file. *)
FrameOfStuck(o) ==
    IF o.fsm # "run" THEN "CrtFile" ELSE IF o.kind = "data" THEN "Data" ELSE "EchoReq"

(* The frame that is due to a tester of kind "data" or "measure". *)
FrameOf(o) ==
    CASE o.fsm = "idle"      -> "CrtFile"
      [] o.fsm = "resCreate" -> "ReqTranDt"
      [] o.fsm = "run"       -> IF o.kind = "data" THEN "Data" ELSE "EchoReq"

Flying(frames, f) == IF Cardinality(frames) < MaxFlight THEN frames \cup {f} ELSE frames

(* sending_frame_ts_us_ has come *)
SendTest(t) ==
    /\ Runs(t, "loop")
    /\ obj[t].kind # "file"
    /\ net' = [net EXCEPT ![t] = Flying(@, FrameOf(obj[t]))]
    /\ UNCHANGED <<obj, list, ids, cli, sig, tab>>

(* The start and the end of a file are sent as type kFrameFileTran as well. *)
SendFile(t) ==
    /\ Runs(t, "loop")
    /\ obj[t].kind = "file"
    /\ net' = [net EXCEPT ![t] = Flying(@, "FileTran")]
    /\ UNCHANGED <<obj, list, ids, cli, sig, tab>>

(* ReceiveFrame at a tester in state fsm *)
StateAfter(fsm, f) ==
    CASE f = "CrtFileOk" -> "resCreate"
      [] f = "ResTranDt" -> "run"
      [] f = "EchoRes"   -> fsm

(* A packet arrives on the tester's socket and goes through GtpPacketReceive. *)
Receive(t, f) ==
    /\ Runs(t, "loop")
    /\ f \in net[t] \cap ToClient
    /\ net' = [net EXCEPT ![t] = @ \ {f}]
    /\ obj' = [obj EXCEPT ![t].fsm = StateAfter(@, f)]
    /\ UNCHANGED <<list, ids, cli, sig, tab>>

-----------------------------------------------------------------------------
(* The server and the network *)

(* The answer of ReceiveFrame. *)
Answers(f) ==
    CASE f = "CrtFile"   -> {"CrtFileOk"}
      [] f = "ReqTranDt" -> {"ResTranDt"}
      [] f = "EchoReq"   -> {"EchoRes"}
      [] OTHER           -> {}

(* ReceiveFrame at the server; what it sends to a socket that is closed is lost *)
ServerReceive(t, f) ==
    /\ cli.op # "down"
    /\ f \in net[t] \cap ToServer
    /\ net' = [net EXCEPT ![t] = (@ \ {f}) \cup (IF obj[t].th = "loop" THEN Answers(f) ELSE {})]
    /\ UNCHANGED <<obj, list, ids, cli, sig, tab>>

Lose(t, f) ==
    /\ cli.op # "down"
    /\ f \in net[t]
    /\ net' = [net EXCEPT ![t] = @ \ {f}]
    /\ UNCHANGED <<obj, list, ids, cli, sig, tab>>

TestersNext ==
    \/ \E t \in Objects, k \in TesterKinds : CmdCreate(t, k) \/ CmdCreateFails(t, k)
    \/ CmdCreated \/ CmdDelete \/ CmdDeleted \/ CmdDeleteBreaks
    \/ RemoveTran \/ RemoveTranDeletes \/ RemoveTranEnds
    \/ \E t \in Objects :
        \/ CreateGtpInst(t) \/ OpenSockets(t) \/ LoopStopped(t) \/ LoopFails(t)
        \/ SendTest(t) \/ SendFile(t)
        \/ \E f \in net[t] : Receive(t, f) \/ ServerReceive(t, f) \/ Lose(t, f)

(* Threads run, and in neither direction the network loses everything for ever. *)
Fairness ==
    \A t \in Objects :
        /\ WF_testersVars(SendTest(t))
        /\ SF_testersVars(\E f \in ToClient : Receive(t, f))
        /\ SF_testersVars(\E f \in ToServer : ServerReceive(t, f))

TestersSpec == TestersInit /\ [][TestersNext]_testersVars /\ Fairness

-----------------------------------------------------------------------------
(* Properties *)

(* Until the process goes down the table holds exactly the instances of the testers that *)
(* exist, each under the handler its tester has; every thread still has its tester; and  *)
(* what the list names exists, as does the tester a command works with, unless the       *)
(* handler of a signal runs beside CmdDeleteTester, which it may, deleting the same      *)
(* tester.  So no thread and no command works with an object or an instance that was     *)
(* deleted or given to another, and no failure leaves an instance behind                 *)
(* (CreateGtpInstance, DeleteGtpInstance, CmdDeleteTester, RemoveTran, ~TranEpoll).      *)
InstancesOwned ==
    cli.op # "down" =>
        /\ \A t \in Objects : obj[t].th \in {"starting", "made", "loop"} => obj[t].live
        /\ \A t \in ToSet(list) : obj[t].live
        /\ sig = NoSignal \/ cli.op = "create" => \A t \in cli.on : obj[t].live
        /\ tab.num = Cardinality({p \in DOMAIN tab.inst : tab.inst[p] # Nobody})
        /\ \A p \in DOMAIN tab.inst : tab.inst[p] # Nobody => obj[tab.inst[p]].hdl = p
        /\ \A t \in Objects : obj[t].hdl # InvalidHandler => tab.inst[obj[t].hdl] = t

(* A tester that is left running comes to send its data and goes on doing so: answers to *)
(* a command it has sent before, which arrive late and take it back a state              *)
(* (ReceiveFrame, kFrameCmdCrtFileOk), run out.                                          *)
Settles ==
    \A t \in Objects :
        <>[](Runs(t, "loop") /\ obj[t].enable /\ obj[t].kind # "file")
            => <>[](obj[t].fsm = "run")
=============================================================================
