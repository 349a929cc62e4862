--------------------------- MODULE MCPacketMemory ---------------------------
(* Pools for PacketMemory: two classes, the first with two words of its      *)
(* bitmap, so that the search leaves the word of the position freed last and *)
(* then the class.                                                           *)
EXTENDS PacketMemory

MCSizes == <<2, 1>>
=============================================================================
