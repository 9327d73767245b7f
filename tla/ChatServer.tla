------------------------------ MODULE ChatServer ------------------------------
(***************************************************************************)
(* The chat server, chat-program2/server.c: one loop over poll.  Each      *)
(* action is one turn of serverControl's loop.                             *)
(***************************************************************************)
EXTENDS ChatNet, ChatPdu

VARIABLES table,        \* the handle table
          pollSet       \* descriptors of clients in the poll set

serverVars == <<table, pollSet>>

ServerInit == table = <<>> /\ pollSet = {}

-----------------------------------------------------------------------------

Ready(fd) ==
  fd \in pollSet /\ (toServer[peer[fd]] # <<>> \/ peer[fd] \in gone)

\* pollCall returns the lowest ready descriptor, and the listening socket is
\* lower than any client's.
Polled(fd) ==
  /\ serverUp
  /\ backlog = <<>>
  /\ Ready(fd)
  /\ \A other \in pollSet : other < fd => ~Ready(other)

\* The PDU recvPDU returns is taken off the connection.
Consume(fd) == toServer' = [toServer EXCEPT ![peer[fd]] = Tail(@)]

\* pollLib.c
AddToPollSet(fd) == pollSet' = pollSet \cup {fd}
RemoveFromPollSet(fd) == pollSet' = pollSet \ {fd}

\* addNewSocket
AddNewSocket ==
  /\ serverUp
  /\ backlog # <<>>
  /\ peer' = [peer EXCEPT ![TcpAccept] = Head(backlog)]
  /\ AddToPollSet(TcpAccept)
  /\ backlog' = Tail(backlog)
  /\ UNCHANGED <<serverUp, toServer, toClient, gone, reset, table>>

\* Faulty variant: the handle stays in the table.
MutCleanupClient(fd) ==
  /\ RemoveFromPollSet(fd)
  /\ peer' = [peer EXCEPT ![fd] = Nobody]
  /\ toServer' = [toServer EXCEPT ![peer[fd]] = <<>>]
  /\ UNCHANGED table

\* cleanupClient; what the client sent and the server has not read is lost.
CleanupClient(fd) ==
  /\ table' = RemoveHandle(table, fd)
  /\ RemoveFromPollSet(fd)
  /\ peer' = [peer EXCEPT ![fd] = Nobody]
  /\ toServer' = [toServer EXCEPT ![peer[fd]] = <<>>]

\* recvPDU returns 0.
Disconnected(fd) ==
  /\ Polled(fd)
  /\ toServer[peer[fd]] = <<>>
  /\ CleanupClient(fd)
  /\ UNCHANGED <<serverUp, backlog, toClient, gone, reset>>

\* recvPDU returns -1: the PDU is longer than the buffer.  "Error receiving
\* message": the client is dropped without an answer.
ReceiveError(fd) ==
  /\ Polled(fd)
  /\ toServer[peer[fd]] # <<>>
  /\ Len(Head(toServer[peer[fd]])) > MAXBUF
  /\ CleanupClient(fd)
  /\ UNCHANGED <<serverUp, backlog, toClient, gone, reset>>

\* Entries 0 to 2 of the poll set are not in use and have descriptor 0.  When
\* standard input hangs up, poll reports the first of them, pollCall returns 0, which
\* is neither the listener nor a client, and serverControl exits.
StdinHangsUp ==
  /\ serverUp
  /\ serverUp' = FALSE
  /\ UNCHANGED <<backlog, peer, toServer, toClient, gone, reset, serverVars>>

-----------------------------------------------------------------------------
(***************************************************************************)
(* processClient: packet m was received from fd.                           *)
(***************************************************************************)

\* The steps that answer or forward and keep the sender.
Dispatch(fd, sends) ==
  /\ SendAll(sends)
  /\ Consume(fd)
  /\ UNCHANGED <<backlog, peer, gone, pollSet>>

Register(fd, m) ==
  /\ FlagOf(m) = 1
  /\ ~AddRefused(table, SrcHandle(m))
  /\ table' = AddHandle(table, SrcHandle(m), fd)
  /\ Dispatch(fd, <<Send(fd, <<2>>)>>)

\* Faulty variant: the refused client is dropped without an answer.
MutRefuse(fd, m) ==
  /\ FlagOf(m) = 1
  /\ AddRefused(table, SrcHandle(m))
  /\ CleanupClient(fd)
  /\ UNCHANGED <<serverUp, toClient, reset, backlog, gone>>

\* The refused client is answered and dropped.
Refuse(fd, m) ==
  /\ FlagOf(m) = 1
  /\ AddRefused(table, SrcHandle(m))
  /\ SendAll(<<Send(fd, <<3>>)>>)
  /\ CleanupClient(fd)
  /\ UNCHANGED <<backlog, gone>>

\* Faulty variant: the sender is not left out.
MutBroadcast(fd, m) ==
  /\ FlagOf(m) = 4
  /\ Dispatch(fd, [i \in DOMAIN table |-> Send(table[i].socket, m)])
  /\ UNCHANGED table

\* To every handle but the sender's, in table order.
Broadcast(fd, m) ==
  /\ FlagOf(m) = 4
  /\ Dispatch(fd, FlattenSeq([i \in DOMAIN table |->
                     LET socket == LookupHandle(table, GetHandles(table)[i])
                     IN  IF socket = fd THEN << >> ELSE <<Send(socket, m)>>]))
  /\ UNCHANGED table

\* buildErrPacket refuses an empty handle and one of the greatest length, and
\* nothing is sent.
NoSuchHandle(fd, handle) ==
  IF Len(handle) \notin 1 .. MAX_HANDLE_LENGTH - 1 THEN << >>
  ELSE <<Send(fd, BuildErrPacket(handle))>>

Message(fd, m) ==
  /\ FlagOf(m) = 5
  /\ LET dest == FirstDest(m)
         socket == LookupHandle(table, dest)
     IN  Dispatch(fd, IF socket = NoSocket THEN NoSuchHandle(fd, dest)
                      ELSE <<Send(socket, m)>>)
  /\ UNCHANGED table

\* For a destination nobody has, the error PDU names the sender.
Multicast(fd, m) ==
  /\ FlagOf(m) = 6
  /\ Dispatch(fd, FlattenSeq([i \in DOMAIN DestHandles(m) |->
                     LET socket == LookupHandle(table, DestHandles(m)[i])
                     IN  IF socket = NoSocket THEN NoSuchHandle(fd, SrcHandle(m))
                         ELSE <<Send(socket, m)>>]))
  /\ UNCHANGED table

\* Faulty variant: the client that asks is counted and not listed.
MutListReplies(fd) ==
  LET others == SelectSeq(table, LAMBDA e : e.socket # fd)
  IN  <<Send(fd, <<11, Len(table)>>)>>
      \o [i \in DOMAIN others |-> Send(fd, BuildHandleListReq(others[i].handle))]
      \o <<Send(fd, <<13>>)>>

ListReplies(fd) ==
  <<Send(fd, <<11, Len(table)>>)>>
  \o [i \in DOMAIN table |-> Send(fd, BuildHandleListReq(GetHandles(table)[i]))]
  \o <<Send(fd, <<13>>)>>

ListHandles(fd, m) ==
  /\ FlagOf(m) = 10
  /\ Dispatch(fd, ListReplies(fd))
  /\ UNCHANGED table

ProcessClient(fd) ==
  /\ Polled(fd)
  /\ toServer[peer[fd]] # <<>>
  /\ Len(Head(toServer[peer[fd]])) <= MAXBUF
  /\ \E m \in {Head(toServer[peer[fd]])} :
       \/ Register(fd, m) \/ Refuse(fd, m)
       \/ Broadcast(fd, m) \/ Message(fd, m) \/ Multicast(fd, m)
       \/ ListHandles(fd, m)

\* One turn of serverControl's loop.
ServerTurn ==
  \/ AddNewSocket
  \/ \E fd \in Fds : Disconnected(fd) \/ ReceiveError(fd) \/ ProcessClient(fd)
=============================================================================
