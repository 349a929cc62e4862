----------------------------- MODULE MCUdpProxy -----------------------------
EXTENDS UdpProxy, TLC

(* The password is that of one user, or of nobody. *)
MCLists == {[p \in Pwds |-> "ann"]}

(* Each client has one stream key of its own. *)
MCKeysOf == [c \in Clients |-> {c}]

(* Clients differ in nothing but their address. *)
ClientSymmetry == Permutations(Clients)
=============================================================================
