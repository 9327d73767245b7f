------------------------------ MODULE RcopyFSM ------------------------------
(***************************************************************************)
(* One attempt of rcopy: the states FNAME_RECV to DONE of transferFile in  *)
(* rcopy-program3/rcopy.c, after start_state has sent the FNAME packet.    *)
(* rstate is the variable `state' of its loop; each action is one call of  *)
(* a state function.  An attempt that falls back to START is over: rcopy   *)
(* closes its socket and asks again from a new one.                        *)
(***************************************************************************)
EXTENDS PacketBuffer, Channel

VARIABLES rstate,       \* state of the loop
          pb,           \* buffer.c's global `pb'
          expectedSeqNum,
          output,       \* chunks written to the destination file
          gotEof        \* history: END_OF_FILE was accepted ("File done")

rcopyVars == <<rstate, pb, expectedSeqNum, output, gotEof>>

RcopyStates == {"START", "FNAME_RECV", "FILE_OK", "RECV_DATA", "DONE"}

RcopyInit ==
  /\ rstate = "FNAME_RECV"
  /\ pb = NullBuffer
  /\ expectedSeqNum = 1
  /\ output = <<>>
  /\ gotEof = FALSE

-----------------------------------------------------------------------------

\* The attempt ends in the given state and its socket is closed.
Leave(state) ==
  /\ rstate' = state
  /\ sockets' = sockets \ {"client"}
  /\ toClient' = <<>>

\* recvBuff returned packet m; the sends of the step are accounted elsewhere.
Take(r) ==
  /\ toClient' = r.rest
  /\ UNCHANGED sockets

(***************************************************************************)
(* fnameRecv, with processSelect.  Any packet that is not FNAME_BAD, data  *)
(* included, counts as "the file exists"; it is not kept.                  *)
(***************************************************************************)

FnameAnswer ==
  /\ rstate = "FNAME_RECV"
  /\ \E r \in Receives("client", toClient) :
       /\ r.packet.flag \notin {"CRC_ERROR", "FNAME_BAD"}
       /\ Take(r)
       /\ Spend(r.cost)
  /\ rstate' = "FILE_OK"
  /\ UNCHANGED <<pb, expectedSeqNum, output, gotEof, toServer>>

FnameRefused ==
  /\ rstate = "FNAME_RECV"
  /\ \E r \in Receives("client", toClient) :
       /\ r.packet.flag \in {"CRC_ERROR", "FNAME_BAD"}
       /\ Leave(IF r.packet.flag = "CRC_ERROR" THEN "START" ELSE "DONE")
       /\ Spend(r.cost)
  /\ UNCHANGED <<pb, expectedSeqNum, output, gotEof, toServer>>

FnameTimeout ==
  /\ rstate = "FNAME_RECV"
  /\ Leave("START")
  /\ UNCHANGED <<pb, expectedSeqNum, output, gotEof, toServer, faults>>

(***************************************************************************)
(* file_ok                                                                 *)
(***************************************************************************)

FileOpened ==
  /\ rstate = "FILE_OK"
  /\ pb' = InitPacketBuffer(pb)
  /\ rstate' = "RECV_DATA"
  /\ UNCHANGED <<expectedSeqNum, output, gotEof, channelVars>>

FileOpenFails ==
  /\ rstate = "FILE_OK"
  /\ env.ioErrors
  /\ Leave("DONE")
  /\ UNCHANGED <<pb, expectedSeqNum, output, gotEof, toServer, faults>>

-----------------------------------------------------------------------------
(***************************************************************************)
(* recvData                                                                *)
(***************************************************************************)

\* "Timeout after 10 seconds, server must be gone."
RecvTimeout ==
  /\ rstate = "RECV_DATA"
  /\ Leave("DONE")
  /\ UNCHANGED <<pb, expectedSeqNum, output, gotEof, toServer, faults>>

IsData(m) == m.flag \in DataFlags

\* A packet with a bad checksum, or one already written: no answer.
RecvIgnored ==
  /\ rstate = "RECV_DATA"
  /\ \E r \in Receives("client", toClient) :
       /\ \/ r.packet.flag = "CRC_ERROR"
          \/ IsData(r.packet) /\ r.packet.seqNum < expectedSeqNum
       /\ Take(r)
       /\ Spend(r.cost)
  /\ UNCHANGED <<rcopyVars, toServer>>

\* END_OF_FILE ends the transfer whatever is still missing.
RecvEof ==
  /\ rstate = "RECV_DATA"
  /\ \E r \in Receives("client", toClient) :
       /\ r.packet.flag = "END_OF_FILE"
       /\ TransmitToServer(Packet("EOF_ACK", expectedSeqNum, Blank), r.cost)
  /\ pb' = FreePacketBuffer(pb)
  /\ gotEof' = TRUE
  /\ Leave("DONE")
  /\ UNCHANGED <<expectedSeqNum, output>>

\* A packet past the expected one: buffer it if there is room, ask for the
\* expected one.
RecvAhead ==
  /\ rstate = "RECV_DATA"
  /\ \E r \in Receives("client", toClient) :
       /\ IsData(r.packet) /\ r.packet.seqNum > expectedSeqNum
       /\ BufferOpen(pb) => ~AddPacketFails(pb, r.packet.seqNum)
       /\ pb' = IF BufferOpen(pb)
                THEN AddPacket(pb, r.packet.data, r.packet.seqNum) ELSE pb
       /\ Take(r)
       /\ TransmitToServer(Packet("SREJ", expectedSeqNum, Blank), r.cost)
  /\ UNCHANGED <<rstate, expectedSeqNum, output, gotEof>>

\* "Failed to add packet to buffer": rcopy stops without a word.
RecvUnbufferable ==
  /\ rstate = "RECV_DATA"
  /\ \E r \in Receives("client", toClient) :
       /\ IsData(r.packet) /\ r.packet.seqNum > expectedSeqNum
       /\ BufferOpen(pb) /\ AddPacketFails(pb, r.packet.seqNum)
       /\ Spend(r.cost)
  /\ Leave("DONE")
  /\ UNCHANGED <<pb, expectedSeqNum, output, gotEof, toServer>>

\* Faulty variant: a packet already written is written again.
MutRecvRewrites ==
  /\ rstate = "RECV_DATA"
  /\ ~NeedFlush(pb)
  /\ \E r \in Receives("client", toClient) :
       /\ IsData(r.packet) /\ r.packet.seqNum <= expectedSeqNum
       /\ output' = Append(output, r.packet.data)
       /\ expectedSeqNum' = r.packet.seqNum + 1
       /\ Take(r)
       /\ TransmitToServer(Packet("ACK_RR", r.packet.seqNum, Blank), r.cost)
  /\ UNCHANGED <<rstate, pb, gotEof>>

\* The expected packet with an empty buffer: write it.
RecvInOrder ==
  /\ rstate = "RECV_DATA"
  /\ ~NeedFlush(pb)
  /\ \E r \in Receives("client", toClient) :
       /\ IsData(r.packet) /\ r.packet.seqNum = expectedSeqNum
       /\ output' = Append(output, r.packet.data)
       /\ Take(r)
       /\ TransmitToServer(Packet("ACK_RR", expectedSeqNum, Blank), r.cost)
  /\ expectedSeqNum' = expectedSeqNum + 1
  /\ UNCHANGED <<rstate, pb, gotEof>>

RecvWriteFails ==
  /\ rstate = "RECV_DATA"
  /\ ~NeedFlush(pb)
  /\ env.ioErrors
  /\ \E r \in Receives("client", toClient) :
       /\ IsData(r.packet) /\ r.packet.seqNum = expectedSeqNum
       /\ Spend(r.cost)
  /\ Leave("DONE")
  /\ UNCHANGED <<pb, expectedSeqNum, output, gotEof, toServer>>

\* The writes of a flush that may succeed.
FlushWrites == IF env.ioErrors THEN 0 .. Run(pb) ELSE {Run(pb)}

\* Faulty variant: the number expected next is acknowledged.
MutFlushAcksNext ==
  /\ rstate = "RECV_DATA"
  /\ NeedFlush(pb)
  /\ \E r \in Receives("client", toClient), n \in FlushWrites :
       /\ IsData(r.packet) /\ r.packet.seqNum = expectedSeqNum
       /\ output' = output \o Flushed(pb, n)
       /\ pb' = FlushBuffer(pb, n)
       /\ expectedSeqNum' = GetNextSeqNum(pb')
       /\ Take(r)
       /\ TransmitToServer(Packet("ACK_RR", expectedSeqNum', Blank), r.cost)
  /\ UNCHANGED <<rstate, gotEof>>

\* The expected packet with packets buffered: flush the buffer and take its
\* word for what to expect next.  The packet itself is not written, and the
\* result of flushBuffer is ignored.
RecvFlush ==
  /\ rstate = "RECV_DATA"
  /\ NeedFlush(pb)
  /\ \E r \in Receives("client", toClient), n \in FlushWrites :
       /\ IsData(r.packet) /\ r.packet.seqNum = expectedSeqNum
       /\ output' = output \o Flushed(pb, n)
       /\ pb' = FlushBuffer(pb, n)
       /\ expectedSeqNum' = GetNextSeqNum(pb')
       /\ Take(r)
       /\ TransmitToServer(Packet("ACK_RR", expectedSeqNum' - 1, Blank), r.cost)
  /\ UNCHANGED <<rstate, gotEof>>

\* Any other flag: "received unexpected flag", and rcopy stops.
RecvUnexpected ==
  /\ rstate = "RECV_DATA"
  /\ \E r \in Receives("client", toClient) :
       /\ r.packet.flag \notin DataFlags \cup {"CRC_ERROR", "END_OF_FILE"}
       /\ Spend(r.cost)
  /\ Leave("DONE")
  /\ UNCHANGED <<pb, expectedSeqNum, output, gotEof, toServer>>

-----------------------------------------------------------------------------

\* The steps that do not depend on time passing in selectCall.
RcopyStep ==
  \/ FnameAnswer \/ FnameRefused
  \/ FileOpened \/ FileOpenFails
  \/ RecvIgnored \/ RecvEof \/ RecvAhead \/ RecvUnbufferable
  \/ RecvInOrder \/ RecvWriteFails \/ RecvFlush \/ RecvUnexpected

\* selectCall waited its second, or its ten seconds, and returned 0.
RcopyTimeout == FnameTimeout \/ RecvTimeout
=============================================================================
