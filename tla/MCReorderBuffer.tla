-------------------------- MODULE MCReorderBuffer --------------------------
(* The reorder buffer with every number sent once and sent again. *)
EXTENDS ReorderBuffer

\* First transmissions of every sequence number, and retransmissions that
\* come Lag numbers later.
CONSTANT Lag

MCPackets == {[sn |-> s, first |-> s] : s \in SN}
             \cup {[sn |-> s, first |-> Dist(s, Lag)] : s \in SN}
=============================================================================
