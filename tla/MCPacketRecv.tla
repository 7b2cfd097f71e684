---------------------------- MODULE MCPacketRecv ----------------------------
(* Instances of PacketRecv for TLC: streams whose headers repeat every     *)
(* Period bytes, with every choice of sizes.                               *)
EXTENDS PacketRecv

CONSTANT Period

MCStreams == {[o \in 0..MaxStream |-> p[o % Period]] :
                p \in [0..(Period - 1) -> HeaderSize..(BufferSize - 1)]}
=============================================================================
