----------------------------- MODULE Instances -----------------------------
(***************************************************************************)
(* The table of GoodTP instances of a process (g_goodtp_inst_mgr).  A      *)
(* table tab has in tab.inst the owner of every position and in tab.num    *)
(* the counter inst_num_.  A handler is the position of its instance; the  *)
(* random base that the code adds, and runing_flag_, which only delays     *)
(* RmLoadGtpModule by 100 ms, are left out.  Creating and deleting happen  *)
(* under the spin lock, so that each is one step.                          *)
(***************************************************************************)
EXTENDS Integers, FiniteSets

CONSTANT MaxInst    \* MAX_GTP_INST_NUM

ASSUME InstancesAssumption == MaxInst \in Nat \ {0}

Nobody == "nobody"
InvalidHandler == -1

(* InsLoadGtpModule *)
InsLoadGtpModule == [inst |-> [p \in 0 .. MaxInst - 1 |-> Nobody], num |-> 0]

(* When the left part is full the search goes on from pos + 1 with pos = -1, *)
(* that is from the beginning and not behind the middle.                     *)
FindGtpMemIdlePos(mem) ==
    LET find[last \in -1 .. MaxInst - 1] ==
            [first \in 0 .. MaxInst |->
                LET mid == first + (last - first) \div 2
                    left == find[mid - 1][first + 1]
                IN IF first > last THEN -1
                   ELSE IF mem[first] = Nobody THEN first
                   ELSE IF mem[last] = Nobody THEN last
                   ELSE IF mem[mid] = Nobody THEN mid
                   ELSE IF left > -1 THEN left
                   ELSE find[last - 1][left + 1]]
    IN  find

(* CreateGtpInstance for owner o: the table and the handler.  ok: there is memory, and *)
(* GoodTp::Init can set up its pools.                                                  *)
CreateGtpInstance(tab, o, ok) ==
    LET pos == FindGtpMemIdlePos(tab.inst)[MaxInst - 1][0]
    IN IF ok /\ tab.num < MaxInst /\ pos > -1
       THEN <<[inst |-> [tab.inst EXCEPT ![pos] = o], num |-> tab.num + 1], pos>>
       ELSE <<tab, InvalidHandler>>

(* DeleteGtpInstance for each of the handlers hdls; GtpHandlerToObj finds nothing under *)
(* one that is not in use.                                                             *)
DeleteGtpInstance(tab, hdls) ==
    LET gone == {p \in DOMAIN tab.inst : p \in hdls /\ tab.inst[p] # Nobody}
    IN  [inst |-> [p \in DOMAIN tab.inst |-> IF p \in gone THEN Nobody ELSE tab.inst[p]],
         num |-> IF tab.num > Cardinality(gone) THEN tab.num - Cardinality(gone) ELSE 0]

(* RmLoadGtpModule *)
RmLoadGtpModule(tab) == InsLoadGtpModule
=============================================================================
