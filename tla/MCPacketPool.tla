---------------------------- MODULE MCPacketPool ----------------------------
(* PacketPool with memory for four buffers (MCPacketPool.cfg). *)
EXTENDS PacketPool

=============================================================================
