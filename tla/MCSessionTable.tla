--------------------------- MODULE MCSessionTable ---------------------------
(* Two five-tuples whose numbers collide; streams without key over both,   *)
(* and one stream with a key that is seen from both.                       *)
EXTENDS SessionTable

MCAddrs == {"a", "b"}
MCAddrKey == [x \in MCAddrs |-> 7]
MCFlows == [addr : {"a", "b"}, key : {0, 1}, token : {0}]
=============================================================================
