------------------------------- MODULE Session -------------------------------
(***************************************************************************)
(* One transfer attempt of rcopy-program3: the server child of ServerFSM   *)
(* and the rcopy of RcopyFSM over the two directions of Channel.  The two  *)
(* are processes on different hosts: their steps interleave freely.        *)
(*                                                                         *)
(* A packet in a direction is in flight or in the socket, so selectCall    *)
(* may time out beside a non-empty direction: the packet was late.  In a   *)
(* timely environment the network is faster than every timeout: a second   *)
(* is long enough for a packet to arrive and be answered, and rcopy's      *)
(* timers only expire once the server child is gone.                       *)
(***************************************************************************)
EXTENDS ServerFSM, RcopyFSM

vars == <<serverVars, rcopyVars, channelVars, env>>

Init ==
  /\ ServerInit
  /\ RcopyInit
  /\ ChannelInit

-----------------------------------------------------------------------------

NothingInFlight == toClient = <<>> /\ toServer = <<>>

Server ==
  /\ \/ ServerStep
     \/ ServerTimeout /\ (env.timely => NothingInFlight)
  /\ UNCHANGED <<rcopyVars, env>>

Rcopy ==
  /\ \/ RcopyStep
     \/ RcopyTimeout /\ (env.timely => NothingInFlight /\ sstate = "EXITED")
  /\ UNCHANGED <<serverVars, env>>

\* Both processes have exited, or rcopy starts over with another child.
Over == sstate = "EXITED" /\ rstate \in {"START", "DONE"}

Finished == Over /\ UNCHANGED vars

Next == Server \/ Rcopy \/ Finished

Spec == Init /\ [][Next]_vars

\* Each process runs on: select returns when its time is up, and neither
\* process waits for anything else.
FairSpec == Spec /\ WF_vars(Server) /\ WF_vars(Rcopy)

-----------------------------------------------------------------------------
(***************************************************************************)
(* Safety on a network that loses and corrupts packets.                    *)
(***************************************************************************)

SessionTypeOK ==
  /\ ServerType
  /\ rstate \in RcopyStates
  /\ pb.live \in BOOLEAN /\ pb.nextSeqNum \in Nat /\ pb.storedPackets \in Int
  /\ expectedSeqNum \in Nat
  /\ output \in Seq(1 .. NumPackets)
  /\ gotEof \in BOOLEAN
  /\ sockets \subseteq Ends
  /\ env \in Environments
  /\ faults \in 0 .. env.limit

InTransit(q) == {q[i] : i \in DOMAIN q}

DataInTransit == {m \in InTransit(toClient) : m.flag \in DataFlags}

\* Every data packet on its way, first sent, asked for again or repeated after
\* a timeout, carries the chunk of its own sequence number.  sendPacket numbers
\* chunks from nextToSend and panes by window.curr; handleFeedback rewrites
\* nextToSend in between: the two numberings never drift apart.
WireFaithful == \A m \in DataInTransit : m.data = m.seqNum

\* The number sendPacket will use is the one addPane will accept, until
\* END_OF_FILE takes a number that has no pane.  This is what makes it safe to
\* ignore addPane's result.
NextIsCurr ==
  win.live => nextToSend = win.curr + (IF eofSent THEN 1 ELSE 0)

\* The server never lets go of a packet rcopy still expects: whatever arrives
\* late, twice or out of order, an acknowledgement only ever covers packets
\* below expectedSeqNum.
NeverSlidPast == win.live => win.lower <= expectedSeqNum

\* A data packet on its way fits the receiver's window.
FitsReceiver == \A m \in DataInTransit : m.seqNum < expectedSeqNum + WinSize

\* The environments that do to rcopy's packets what sendto_Err does, and no more.
LossyOnly ==
  /\ {f \in env.faults : f[1] = "client"} \subseteq {"client"} \X {"drop", "flip"}
  /\ ~env.ioErrors

\* recvData: "should always be open here but just in case rcopy can't buffer".
\* Unless packets overtake each other, whenever a packet past the expected one
\* is next the buffer has room and addPacket takes it, so rcopy never gives up
\* over a full or badly based buffer.
CanBuffer ==
  LossyOnly /\ rstate = "RECV_DATA" =>
    \A r \in Receives("client", toClient) :
      IsData(r.packet) /\ r.packet.seqNum > expectedSeqNum =>
        BufferOpen(pb) /\ ~AddPacketFails(pb, r.packet.seqNum)

\* handleFeedback: "its not an ACK_RR or SREJ or EOF_ACK flag (this should
\* never happen)", and its EOF_ACK branch is as unreachable: a server that
\* still sends data never has an EOF_ACK coming.
FeedbackExpected ==
  sstate = "HANDLE_FEEDBACK" =>
    \A m \in InTransit(toServer) : m.flag \in {"ACK_RR", "SREJ", "CRC_ERROR"}

\* The server child takes the transfer for complete only after rcopy has: its
\* step from WAIT_EOF_ACK to DONE comes after rcopy's "File done".
CompletionIsShared ==
  [][sstate = "WAIT_EOF_ACK" /\ sstate' = "DONE" => gotEof]_vars

\* Both processes exit, whatever is lost and however late packets are.
Termination == <>Over

-----------------------------------------------------------------------------
(***************************************************************************)
(* The copy itself.                                                        *)
(***************************************************************************)

\* The destination file is a prefix of the source file: no chunk is missing,
\* doubled or out of place.
OutputIsPrefix == \A i \in DOMAIN output : output[i] = i

\* When rcopy prints "File done" every chunk has been received in order.
DoneMeansAllReceived == gotEof => expectedSeqNum = NumPackets + 1

\* "rcopy sends an ACK_RR for the last in-order packet it received": in
\* particular, for a packet the server has sent.
AckedWasSent ==
  win.live => \A m \in InTransit(toServer) :
                m.flag = "ACK_RR" => m.seqNum < win.curr

\* Nothing ends the transfer early but packets that come too late, if any do.
OnlyLossToServer ==
  /\ env.timely /\ ~env.ioErrors /\ env.requests = {"found"}
  /\ env.faults \subseteq {<<"server", "drop">>} /\ env.limit <= 1

\* On a timely network that loses no more than one packet from rcopy the
\* transfer is eventually done at both ends: an acknowledgement stands for all
\* before it.
Completion == OnlyLossToServer => <>(gotEof /\ sstate = "EXITED")

\* Packets towards rcopy arrive, in order and once, however late.
ArrivesWhole == \A f \in env.faults : f[1] # "client"

Copy == INSTANCE FileCopy WITH
  FileLen <- NumPackets,
  copied  <- IF ArrivesWhole THEN output ELSE <<>>,
  status  <- CASE ArrivesWhole /\ gotEof -> "done"
               [] ArrivesWhole /\ ~gotEof /\ rstate \in {"START", "DONE"} -> "failed"
               [] OTHER -> "copying"

\* As long as packets towards rcopy arrive, whatever happens to its answers and
\* however late they are, the transfer implements a file copy: chunks are
\* written in order, each once, and "File done" means the whole file.
ImplementsFileCopy == Copy!Spec
=============================================================================
