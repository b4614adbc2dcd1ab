---------------------------- MODULE MCPacketQueue ----------------------------
(* PacketQueue with four packet buffers and two queues (MCPacketQueue.cfg). *)
EXTENDS PacketQueue

=============================================================================
