------------------------------ MODULE TcpEcho -------------------------------
(***************************************************************************)
(* The TCP echo programs of socket-programming/handin: cclient sends each  *)
(* line as a PDU, two bytes of length and the line, and the server sends   *)
(* it back.  TCP is a stream: it keeps the bytes in order and delivers     *)
(* them in any pieces.  The PDU layer, the poll set and the send and recv  *)
(* wrappers are the ones the chat programs use; this module is about the   *)
(* bytes that ChatNet takes for whole PDUs.                                *)
(*                                                                         *)
(* The server is one process: while recv waits for the rest of a PDU, it   *)
(* serves nobody else.  Send buffers never fill up here.                   *)
(***************************************************************************)
EXTENDS Integers, FiniteSets, Sequences, SequencesExt

CONSTANTS Clients,      \* runs of the client program
          Lines,        \* what readFromStdin may return to each client: a line
                        \* and a zero byte
          MaxLines,     \* how many lines each user types
          ClientFds     \* the server's descriptors for clients

ListenFd == 3
Nobody == "nobody"

ASSUME TcpEchoAssumption ==
  /\ MaxLines \in [Clients -> Nat]
  /\ ClientFds \subseteq Nat \ 0 .. ListenFd /\ IsFiniteSet(ClientFds)
  /\ Cardinality(ClientFds) >= Cardinality(Clients)    \* descriptors suffice
  /\ IsFiniteSet(Clients) /\ Nobody \notin Clients
  /\ Lines \in [Clients -> SUBSET Seq(0 .. 255)]
  /\ \A c \in Clients : \A line \in Lines[c] : Len(line) \in 1 .. 1024

Idle == -1

VARIABLES client,       \* each client: "new", "up" or "gone"
          sent, echoed, \* history: the lines a client has sent and got back
          up, down,     \* the streams from and to each client
          broken,       \* clients whose connection is known to be broken
          backlog,      \* connections not yet accepted
          peer,         \* the server's descriptors for clients
          pollSet,      \* pollFileDescriptors: the fd of each entry
          stdinOpen,    \* the server's standard input has not hung up
          serving       \* descriptor whose PDU is being received, or Idle;
                        \* "exited" once the server has ended

vars == <<client, sent, echoed, up, down, broken, backlog, peer, pollSet,
          stdinOpen, serving>>

Exited == -2
Entries == 0 .. ListenFd \cup ClientFds

\* A stream: bytes on the wire, bytes in the receiver's buffer, and whether the
\* end follows.
NewStream == [wire |-> << >>, buffer |-> << >>, ended |-> FALSE]
Written(stream, bytes) == [stream EXCEPT !.wire = @ \o bytes]
Deliveries(stream) ==
  {[stream EXCEPT !.wire = SubSeq(@, n + 1, Len(@)),
                  !.buffer = @ \o SubSeq(stream.wire, 1, n)] :
     n \in 1 .. Len(stream.wire)}

\* A sender that goes away with bytes on the wire may lose the last of them.
Endings(stream) ==
  {[stream EXCEPT !.wire = SubSeq(@, 1, n), !.ended = TRUE] :
     n \in 0 .. Len(stream.wire)}

Readable(stream) ==
  stream.buffer # << >> \/ (stream.ended /\ stream.wire = << >>)

-----------------------------------------------------------------------------
(***************************************************************************)
(* pdu.c                                                                   *)
(***************************************************************************)

PDU(data) == <<(Len(data) + 2) \div 256, (Len(data) + 2) % 256>> \o data

\* Faulty variant: recv does not see that the stream has ended.
MutWaits(stream, n) == Len(stream.buffer) < n

\* recv with MSG_WAITALL returns n bytes, or those before the end.
Waits(stream, n) ==
  Len(stream.buffer) < n /\ ~(stream.ended /\ stream.wire = << >>)

PayloadLength(stream) == 256 * stream.buffer[1] + stream.buffer[2] - 2

\* Faulty variant: without MSG_WAITALL, the payload is what has arrived of it.
MutRecvWaits(stream) ==
  Waits(stream, 2) \/ (Len(stream.buffer) >= 2 /\ Waits(stream, 3))

RecvWaits(stream) ==
  \/ Waits(stream, 2)
  \/ Len(stream.buffer) >= 2 /\ Waits(stream, 2 + PayloadLength(stream))

\* Faulty variant: the length that arrived is not compared.
MutRecvPDU(stream) ==
  LET have == Len(stream.buffer)
      got  == IF have - 2 < PayloadLength(stream) THEN have - 2
              ELSE PayloadLength(stream)
  IN  IF have <= 2 THEN [len |-> 0, data |-> << >>]
      ELSE [len |-> got, data |-> SubSeq(stream.buffer, 3, 2 + got)]

\* What recvPDU returns: length 0 for the end of the stream, -1 for an error.  Its
\* check that the length fits the buffer is left out: every PDU is a line of 1 to
\* MAXBUF bytes or the beginning of one (TcpEchoAssumption), and passes it.
RecvPDU(stream) ==
  LET have == Len(stream.buffer)
      got  == IF have <= 2 THEN 0
              ELSE IF have - 2 < PayloadLength(stream) THEN have - 2
              ELSE PayloadLength(stream)
  IN  CASE have = 0 \/ (have >= 2 /\ got = 0) -> [len |-> 0, data |-> << >>]
        [] have = 1 \/ (have > 2 /\ got # PayloadLength(stream)) ->
             [len |-> -1, data |-> << >>]
        [] OTHER -> [len |-> got, data |-> SubSeq(stream.buffer, 3, 2 + got)]

Received(stream, n) == [stream EXCEPT !.buffer = SubSeq(@, 2 + n + 1, Len(@))]

-----------------------------------------------------------------------------
(***************************************************************************)
(* pollLib.c: an entry that is not in use has fd 0, standard input         *)
(***************************************************************************)

AddToPollSet(set, fd) == [set EXCEPT ![fd] = fd]

\* Faulty variant: the entry stays.
MutRemoveFromPollSet(set, fd) == set

RemoveFromPollSet(set, fd) == [set EXCEPT ![fd] = 0]

FdReady(fd) ==
  CASE fd = 0        -> ~stdinOpen
    [] fd = ListenFd -> backlog # << >>
    [] OTHER         -> peer[fd] = Nobody \/ Readable(up[peer[fd]])

ReadyEntries == {i \in Entries : FdReady(pollSet[i])}

\* pollCall reports the lowest entry.
PollCall == CHOOSE i \in ReadyEntries : \A j \in ReadyEntries : i <= j

-----------------------------------------------------------------------------

Init ==
  /\ client = [c \in Clients |-> "new"]
  /\ sent = [c \in Clients |-> << >>]
  /\ echoed = [c \in Clients |-> << >>]
  /\ up = [c \in Clients |-> NewStream]
  /\ down = [c \in Clients |-> NewStream]
  /\ broken = {}
  /\ backlog = << >>
  /\ peer = [fd \in ClientFds |-> Nobody]
  /\ pollSet = AddToPollSet([i \in Entries |-> 0], ListenFd)
  /\ stdinOpen = TRUE
  /\ serving = Idle

\* tcpClientSetup
Connect(c) ==
  /\ client[c] = "new" /\ serving # Exited
  /\ client' = [client EXCEPT ![c] = "up"]
  /\ backlog' = Append(backlog, c)
  /\ UNCHANGED <<sent, echoed, up, down, broken, peer, pollSet, stdinOpen, serving>>

\* processStdin of a client: a line, then sendPDU.  Standard input comes first
\* in its poll set, so this may happen whatever has arrived.
ProcessStdin(c) ==
  /\ client[c] = "up" /\ serving # Exited
  /\ Len(sent[c]) < MaxLines[c]
  /\ \E line \in Lines[c] :
       /\ sent' = [sent EXCEPT ![c] = Append(@, line)]
       /\ up' = [up EXCEPT ![c] = Written(@, PDU(line))]
  /\ UNCHANGED <<client, echoed, down, broken, backlog, peer, pollSet,
                 stdinOpen, serving>>

\* processMsgFromServer: an echo is printed; anything else ends the client.
ProcessMsgFromServer(c) ==
  /\ client[c] = "up" /\ Readable(down[c]) /\ ~RecvWaits(down[c])
  /\ LET r == RecvPDU(down[c])
     IN  IF r.len > 0
         THEN /\ echoed' = [echoed EXCEPT ![c] = Append(@, r.data)]
              /\ down' = [down EXCEPT ![c] = Received(@, r.len)]
              /\ UNCHANGED client
         ELSE /\ client' = [client EXCEPT ![c] = "gone"]
              /\ UNCHANGED <<echoed, down>>
  /\ UNCHANGED <<sent, up, broken, backlog, peer, pollSet, stdinOpen, serving>>

\* The user interrupts a client.
Interrupted(c) ==
  /\ client[c] = "up"
  /\ client' = [client EXCEPT ![c] = "gone"]
  /\ \E end \in Endings(up[c]) : up' = [up EXCEPT ![c] = end]
  /\ broken' = IF down[c].wire \o down[c].buffer = << >> THEN broken
               ELSE broken \cup {c}
  /\ down' = [down EXCEPT ![c] = NewStream]
  /\ UNCHANGED <<sent, echoed, backlog, peer, pollSet, stdinOpen, serving>>

\* TCP delivers.
Deliver(c) ==
  /\ \/ /\ \E s \in Deliveries(up[c]) : up' = [up EXCEPT ![c] = s]
        /\ UNCHANGED down
     \/ /\ client[c] = "up"
        /\ \E s \in Deliveries(down[c]) : down' = [down EXCEPT ![c] = s]
        /\ UNCHANGED up
  /\ UNCHANGED <<client, sent, echoed, broken, backlog, peer, pollSet,
                 stdinOpen, serving>>

-----------------------------------------------------------------------------
(***************************************************************************)
(* The server                                                              *)
(***************************************************************************)

\* exit, or a signal: every connection ends.
ServerExits ==
  /\ serving' = Exited
  /\ \E ends \in [Clients -> UNION {Endings(down[c]) : c \in Clients}] :
       /\ \A c \in Clients : ends[c] \in Endings(down[c])
       /\ down' = ends
  /\ UNCHANGED <<client, sent, echoed, up, broken, backlog, peer, pollSet, stdinOpen>>

StdinHangsUp ==
  /\ stdinOpen
  /\ stdinOpen' = FALSE
  /\ UNCHANGED <<client, sent, echoed, up, down, broken, backlog, peer, pollSet, serving>>

FreeFds == {fd \in ClientFds : peer[fd] = Nobody}

\* accept returns the lowest free descriptor.
TcpAccept == CHOOSE f \in FreeFds : \A g \in FreeFds : f <= g

AddNewSocket ==
  /\ serving = Idle /\ ReadyEntries # {} /\ PollCall = ListenFd
  /\ peer' = [peer EXCEPT ![TcpAccept] = Head(backlog)]
  /\ pollSet' = AddToPollSet(pollSet, TcpAccept)
  /\ backlog' = Tail(backlog)
  /\ UNCHANGED <<client, sent, echoed, up, down, broken, stdinOpen, serving>>

\* serverControl exits when pollCall returns 0; a descriptor that is closed, or
\* standard input in place of an entry's own, makes recv fail.
PolledInVain ==
  /\ serving = Idle /\ ReadyEntries # {}
  /\ PollCall # ListenFd
  /\ PollCall \in ClientFds => peer[PollCall] = Nobody
  /\ ServerExits

PolledClient ==
  /\ serving = Idle /\ ReadyEntries # {}
  /\ PollCall \in ClientFds /\ peer[PollCall] # Nobody
  /\ serving' = PollCall
  /\ UNCHANGED <<client, sent, echoed, up, down, broken, backlog, peer, pollSet, stdinOpen>>

\* processClient: the PDU is complete and goes back.
Echo ==
  /\ serving \in ClientFds /\ ~RecvWaits(up[peer[serving]])
  /\ LET c == peer[serving]
         r == RecvPDU(up[c])
     IN  /\ r.len > 0
         /\ up' = [up EXCEPT ![c] = Received(@, r.len)]
         /\ IF client[c] = "up"
            THEN down' = [down EXCEPT ![c] = Written(@, PDU(r.data))] /\ UNCHANGED broken
            ELSE broken' = broken \cup {c} /\ UNCHANGED down
  /\ serving' = Idle
  /\ UNCHANGED <<client, sent, echoed, backlog, peer, pollSet, stdinOpen>>

\* The same to a client whose connection is known to be broken: safeSend exits.
EchoKills ==
  /\ serving \in ClientFds /\ ~RecvWaits(up[peer[serving]])
  /\ RecvPDU(up[peer[serving]]).len > 0
  /\ peer[serving] \in broken
  /\ ServerExits

CleanupClient ==
  /\ serving \in ClientFds /\ ~RecvWaits(up[peer[serving]])
  /\ RecvPDU(up[peer[serving]]).len <= 0
  /\ pollSet' = RemoveFromPollSet(pollSet, serving)
  /\ peer' = [peer EXCEPT ![serving] = Nobody]
  /\ \E end \in Endings(down[peer[serving]]) :
       down' = [down EXCEPT ![peer[serving]] = end]
  /\ serving' = Idle
  /\ UNCHANGED <<client, sent, echoed, up, broken, backlog, stdinOpen>>

-----------------------------------------------------------------------------

\* clientControl's loop.
Client(c) == ProcessStdin(c) \/ ProcessMsgFromServer(c)

\* serverControl's.
Server ==
  AddNewSocket \/ PolledInVain \/ PolledClient \/ Echo \/ EchoKills \/ CleanupClient

Next ==
  \/ \E c \in Clients :
       Connect(c) \/ Client(c) \/ Interrupted(c) \/ Deliver(c)
  \/ StdinHangsUp
  \/ Server

Spec == Init /\ [][Next]_vars

\* Programs that can run do; TCP gets there in the end.
FairSpec ==
  /\ Spec
  /\ WF_vars(Server)
  /\ \A c \in Clients : WF_vars(ProcessMsgFromServer(c)) /\ WF_vars(Deliver(c))

-----------------------------------------------------------------------------
(***************************************************************************)
(* What the PDU layer and the poll loop promise.                           *)
(***************************************************************************)

\* However TCP cuts the streams, and whoever leaves in the middle of a PDU, a
\* client gets back its own lines, whole and in order: what ChatNet takes for
\* granted of sendPDU and recvPDU.
EchoesExact == \A c \in Clients : IsPrefix(echoed[c], sent[c])

\* A client that has not ended keeps its connection as long as the server runs:
\* a PDU that arrives in pieces is never taken for a broken one.
NobodyDropped ==
  serving # Exited =>
    \A c \in Clients :
      client[c] = "up" => c \in ToSet(backlog) \/ \E fd \in ClientFds : peer[fd] = c

\* The server only ends because its standard input has hung up, which an unused
\* entry of the poll set reports, or because it has written to a client after
\* the end of that client was known.
DeathExplained == serving = Exited => ~stdinOpen \/ broken # {}

\* A line that has been sent is echoed, unless its client or the server ends: no
\* client that lives, nor one that left half a PDU behind, blocks the server.
Answered ==
  \A c \in Clients : \A n \in 1 .. MaxLines[c] :
    Len(sent[c]) >= n ~>
      (Len(echoed[c]) >= n \/ client[c] = "gone" \/ serving = Exited)
=============================================================================
