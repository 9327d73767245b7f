--------------------------------- MODULE Chat ---------------------------------
(***************************************************************************)
(* chat-program2: the server of ChatServer, the clients of ChatClient and  *)
(* their users, over the connections of ChatNet.  Clients come, are        *)
(* killed, and come back under the same handle in any order; the server's  *)
(* standard input may hang up at any time.                                 *)
(***************************************************************************)
EXTENDS ChatServer, ChatClient

vars == <<netVars, serverVars, clientVars>>

Init == NetInit /\ ServerInit /\ ClientInit

Server == ServerTurn /\ UNCHANGED clientVars

\* What a client program does by itself.
Client(c) == ClientTurn(c) /\ UNCHANGED serverVars

\* What its user does: start it, type, kill it.
User(c) ==
  /\ \/ Start(c) \/ HandleTooLong(c) \/ ConnectFails(c)
     \/ ProcessStdin(c) \/ PacketFaults(c) \/ InvalidCommand(c) \/ Interrupted(c)
  /\ UNCHANGED serverVars

\* Every client has come and gone, and a server that still runs has dropped
\* them all.
Over ==
  /\ \A c \in Clients : phase[c] = "exited"
  /\ serverUp => backlog = <<>> /\ pollSet = {}

Finished == Over /\ UNCHANGED vars

\* Whoever started the server goes away.
HangUp == StdinHangsUp /\ UNCHANGED clientVars

Next == Server \/ HangUp \/ (\E c \in Clients : Client(c) \/ User(c)) \/ Finished

Spec == Init /\ [][Next]_vars

\* The server is a loop that takes a turn whenever poll reports something.
\* Nothing is assumed of the clients and their users.
FairSpec == Spec /\ WF_vars(Server)

-----------------------------------------------------------------------------

Flags == {1, 2, 3, 4, 5, 6, 7, 10, 11, 12, 13}

\* Type and range of every variable; the table never exceeds MAX_HANDLES.
ChatTypeOK ==
  /\ serverUp \in BOOLEAN
  /\ ToSet(backlog) \subseteq Clients
  /\ peer \in [Fds -> Clients \cup {Nobody}]
  /\ \A c \in Clients :
       \A m \in ToSet(toServer[c]) \cup ToSet(toClient[c]) : FlagOf(m) \in Flags
  /\ reset \subseteq gone /\ gone = {c \in Clients : phase[c] = "exited"}
  /\ Len(table) <= MaxHandles /\ \A e \in ToSet(table) : e.socket \in Fds
  /\ pollSet \subseteq Fds
  /\ phase \in [Clients -> {"new", "running", "exited"}]
  /\ remainingHandles \in [Clients -> Nat]
  /\ refused \subseteq Clients /\ oversize \subseteq Clients /\ typed \in 0 .. MaxCommands

\* The handle table is a one-to-one relation between strings and connections: no
\* string twice, no connection twice, and each entry's socket is one the server polls
\* and leads to the client that registered it, whose handle the string is, but for
\* what addHandle does to a handle of the greatest length (Stored).  So a handle that
\* is shorter is had by one client at most.  Descriptors are reused, so an entry that
\* outlived its connection would name somebody else's.
TableSound ==
  /\ \A i, j \in DOMAIN table :
       i # j => /\ table[i].handle # table[j].handle
                /\ table[i].socket # table[j].socket
  /\ \A e \in ToSet(table) :
       /\ e.socket \in pollSet
       /\ peer[e.socket] # Nobody
       /\ e.handle = Stored(clientHandle[peer[e.socket]], e.socket)

\* Nobody receives what was meant for another, and nobody reads what was not
\* typed: a message on its way to a client will be printed with the handle of
\* its sender and with the text of a command that sender types; a message or
\* multicast comes only to clients whose handle that command names, and a
\* broadcast never to the one who sent it, whoever has held the handle or the
\* descriptor in the meantime.
AddressedOnly ==
  \A c \in Clients : \A m \in ToSet(toClient[c]) :
    FlagOf(m) \in {4, 5, 6} =>
      \E sender \in Clients : \E line \in Lines[sender] :
        LET cmd == Command[line]
        IN  /\ cmd.flag = FlagOf(m)
            /\ Printed(m) = [src |-> clientHandle[sender], text |-> cmd.text]
            /\ IF cmd.flag = 4 THEN clientHandle[sender] # clientHandle[c]
               ELSE clientHandle[c] \in ToSet(cmd.dests)

\* A client the running server has hung up on has been told why: when it finds
\* the connection at its end it has had its "Handle already exists or handle
\* table is full", so "Server has terminated" is never its only news.  The exception
\* is a client that has sent a PDU that does not fit recvPDU's buffer, which %C with
\* long handles can: it is dropped without a word.
DropExplained ==
  \A c \in Clients :
    /\ phase[c] = "running" /\ toClient[c] = <<>>
    /\ serverUp /\ ~Connected(c)
    => c \in refused \cup oversize

\* processMsgFromServer: "Expected %d handles, but received none".  When the end of
\* a handle list arrives, exactly the announced number of handles has been printed,
\* whatever messages, registrations and departures come in between: no client is
\* stopped at the end of its list.  (One may be stopped before: ListedTooLong.)
ListComplete ==
  \A c \in Clients :
    toClient[c] # <<>> /\ FlagOf(Head(toClient[c])) = 13 =>
      expectingHandleList[c] /\ remainingHandles[c] = 0

\* Who has which handle, as the server knows it.
Registration ==
  INSTANCE Registry WITH
    holds     <- {<<peer[e.socket], clientHandle[peer[e.socket]]>> : e \in ToSet(table)},
    left      <- gone \cup oversize,
    up        <- serverUp,
    Exclusive <- {h \in UNION {Names[c] : c \in Clients} : Len(h) < MAX_HANDLE_LENGTH},
    Limit     <- MaxHandles

\* With the handle table read as who is called what: a client keeps its handle until
\* it ends or sends what the server cannot receive, a handle is given to a client
\* that asked for it, and by then is nobody's unless it has the greatest length.
ImplementsRegistry == Registration!Spec

\* The handle of a client that is gone is free again in time: unless the server
\* has died there is always a later moment at which every entry of the table
\* belongs to a client that lives.
HandleFreed ==
  []<>(serverUp => \A e \in ToSet(table) : peer[e.socket] \notin gone \cup {Nobody})
=============================================================================
