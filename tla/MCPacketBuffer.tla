--------------------------- MODULE MCPacketBuffer ---------------------------
EXTENDS PacketBufferAPI

\* Number 0 (rejected) to 7: twice round a ring of 3 and past it.
MCArgs == 0 .. 7
=============================================================================
