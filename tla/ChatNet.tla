------------------------------- MODULE ChatNet -------------------------------
(***************************************************************************)
(* The TCP connections between the chat server and its clients, as the     *)
(* programs of chat-program2 use them.  sendPDU and recvPDU move whole     *)
(* PDUs: a PDU is one send, and recv waits for all of it (MSG_WAITALL).    *)
(*                                                                         *)
(* A client is one run of cclient and makes one connection.  The server's  *)
(* descriptors are reused, lowest first.                                   *)
(***************************************************************************)
EXTENDS Naturals, FiniteSets, Sequences, SequencesExt

CONSTANTS Clients,      \* runs of the client program
          Fds           \* the server's descriptors for clients

Nobody == "nobody"

ASSUME NetAssumption ==
  /\ Fds \subseteq Nat \ {0} /\ IsFiniteSet(Fds)
  /\ Cardinality(Fds) >= Cardinality(Clients)     \* descriptors suffice
  /\ IsFiniteSet(Clients) /\ Nobody \notin Clients

VARIABLES serverUp,     \* the server process is running
          backlog,      \* connections not yet accepted
          peer,         \* descriptor -> client at the other end, or Nobody
          toServer,     \* client -> PDUs it sent, not yet received
          toClient,     \* client -> PDUs sent to it, not yet received
          gone,         \* clients whose process has ended
          reset         \* those of them whose connection the server's side
                        \* knows to be broken

netVars == <<serverUp, backlog, peer, toServer, toClient, gone, reset>>

\* tcpServerSetup has returned: the server listens.
NetInit ==
  /\ serverUp = TRUE
  /\ backlog = <<>>
  /\ peer = [fd \in Fds |-> Nobody]
  /\ toServer = [c \in Clients |-> <<>>]
  /\ toClient = [c \in Clients |-> <<>>]
  /\ gone = {}
  /\ reset = {}

Connected(c) == \/ c \in ToSet(backlog)
                \/ \E fd \in Fds : peer[fd] = c

FreeFds == {fd \in Fds : peer[fd] = Nobody}

\* accept returns the lowest descriptor that is not open.
TcpAccept == CHOOSE fd \in FreeFds : \A other \in FreeFds : fd <= other

\* tcpClientSetup succeeds once the server listens, accepted or not.
TcpClientSetup(c) == serverUp /\ backlog' = Append(backlog, c)

\* A message to send: a PDU and the descriptor it goes to.
Send(fd, pdu) == [fd |-> fd, pdu |-> pdu]

\* sendPDU with a length of -1: memcpy faults.
Faults(send) == send.pdu = << >>

\* The server process does not survive writing to a connection known to be
\* broken: send raises SIGPIPE, and safeSend exits on any error, such as a
\* descriptor that is closed.  The first write after the client has gone is
\* what makes it known.
MayKill(sends, i) ==
  LET c == peer[sends[i].fd]
  IN  \/ Faults(sends[i])
      \/ c = Nobody
      \/ c \in gone /\ (c \in reset \/ \E j \in 1 .. i - 1 : sends[j].fd = sends[i].fd)

PdusFor(c, sends) ==
  FlattenSeq([i \in DOMAIN sends |->
                IF peer[sends[i].fd] = c THEN <<sends[i].pdu>> ELSE << >>])

\* The server's sendPDU calls of one step, in order: all of them, or up to the
\* one that ends the process.
SendAll(sends) ==
  \E all \in {sends} : \E k \in 0 .. Len(all) :
    /\ k < Len(all) => MayKill(all, k + 1)
    /\ \A i \in 1 .. k : ~Faults(all[i])
    /\ serverUp' = (k = Len(all))
    /\ \E sent \in {SubSeq(all, 1, k)} :
         /\ toClient' = [c \in Clients |->
                           IF c \in gone THEN toClient[c]
                           ELSE toClient[c] \o PdusFor(c, sent)]
         /\ reset' = reset \cup {c \in gone : PdusFor(c, sent) # <<>>}

\* A client process ends.  What it has not read is lost, and breaks the
\* connection at once.
Exit(c) ==
  /\ gone' = gone \cup {c}
  /\ reset' = IF toClient[c] # <<>> THEN reset \cup {c} ELSE reset
  /\ toClient' = [toClient EXCEPT ![c] = <<>>]
=============================================================================
