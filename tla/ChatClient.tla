------------------------------ MODULE ChatClient ------------------------------
(***************************************************************************)
(* The chat client, chat-program2/cclient.c: registration, then one loop   *)
(* over the keyboard and the server.                                       *)
(***************************************************************************)
EXTENDS ChatNet, ChatPdu

CONSTANTS Names,        \* client -> the handles it may be started with
          Lines,        \* client -> the lines its user may type
          MaxCommands   \* bound on the commands sent by all users together

ASSUME UsersAssumption ==
  /\ Names \in [Clients -> SUBSET Seq(Nat)]
  /\ Lines \in [Clients ->
                  SUBSET [letter : STRING, number : Nat, words : Seq(Seq(Nat))]]
  /\ MaxCommands \in Nat

NoHandle == <<>>

VARIABLES phase,        \* client -> "new", "running", "exited"
          clientHandle, \* client -> the handle given on its command line
          expectingHandleList,
          remainingHandles,
          refused,      \* history: clients told that they are not registered
          oversize,     \* history: clients that sent a PDU longer than MAXBUF
          typed         \* commands sent so far

clientVars == <<phase, clientHandle, expectingHandleList, remainingHandles,
                refused, oversize, typed>>

listVars == <<expectingHandleList, remainingHandles>>
historyVars == <<refused, oversize>>

ClientInit ==
  /\ phase = [c \in Clients |-> "new"]
  /\ clientHandle = [c \in Clients |-> NoHandle]
  /\ expectingHandleList = [c \in Clients |-> FALSE]
  /\ remainingHandles = [c \in Clients |-> 0]
  /\ refused = {}
  /\ oversize = {}
  /\ typed = 0

-----------------------------------------------------------------------------

\* What the lines mean.
Command == [line \in UNION {Lines[c] : c \in Clients} |-> ParseUserCmd(line)]

\* The connection is made and regHandle sends the handle.
Start(c) ==
  /\ phase[c] = "new"
  /\ TcpClientSetup(c)
  /\ phase' = [phase EXCEPT ![c] = "running"]
  /\ \E handle \in Names[c] :
       /\ Len(handle) <= MAX_HANDLE_LENGTH
       /\ clientHandle' = [clientHandle EXCEPT ![c] = handle]
       /\ toServer' = [toServer EXCEPT ![c] = <<(<<1>> \o HandleField(handle))>>]
  /\ UNCHANGED <<serverUp, peer, toClient, gone, reset, listVars, historyVars, typed>>

\* regHandle finds the handle too long: the server sees a connection that ends
\* without a word.
HandleTooLong(c) ==
  /\ phase[c] = "new"
  /\ TcpClientSetup(c)
  /\ \E handle \in Names[c] : Len(handle) > MAX_HANDLE_LENGTH
  /\ Exit(c)
  /\ phase' = [phase EXCEPT ![c] = "exited"]
  /\ UNCHANGED <<serverUp, peer, toServer, clientHandle, listVars, historyVars, typed>>

\* The packet of a command.
PacketOf(c, cmd) ==
  CASE cmd.flag = 10                     -> <<10>>
    [] Unbuildable(clientHandle[c], cmd) -> NoPacket
    [] OTHER                             -> BuildMsgPacket(clientHandle[c], cmd)

\* processStdin: a valid command.  What is sent to a connection the server has
\* closed is lost.  buildMsgPacket has no check against the packet's size: one that
\* is too long may be sent all the same.
ProcessStdin(c) ==
  /\ phase[c] = "running"
  /\ typed < MaxCommands
  /\ \E line \in Lines[c] :
       LET cmd == Command[line]
       IN  /\ cmd # Invalid
           /\ PacketOf(c, cmd) # NoPacket
           /\ toServer' = IF serverUp /\ Connected(c)
                          THEN [toServer EXCEPT ![c] = Append(@, PacketOf(c, cmd))]
                          ELSE toServer
           /\ oversize' = IF Len(PacketOf(c, cmd)) > MAXBUF THEN oversize \cup {c}
                          ELSE oversize
  /\ typed' = typed + 1
  /\ UNCHANGED <<serverUp, backlog, peer, toClient, gone, reset,
                 phase, clientHandle, listVars, refused>>

\* The user kills the client, or it stops by itself.
Stop(c) ==
  /\ Exit(c)
  /\ phase' = [phase EXCEPT ![c] = "exited"]
  /\ UNCHANGED <<serverUp, backlog, peer, toServer,
                 clientHandle, listVars, historyVars, typed>>

\* connect is refused.
ConnectFails(c) == phase[c] = "new" /\ ~serverUp /\ Stop(c)

Interrupted(c) == phase[c] = "running" /\ Stop(c)

\* buildMsgPacket's -1 is taken for a length by sendPDU, or the packet runs over
\* the end of its array.
PacketFaults(c) ==
  /\ phase[c] = "running"
  /\ \E line \in Lines[c] :
       LET cmd == Command[line]
       IN  /\ cmd # Invalid
           /\ PacketOf(c, cmd) = NoPacket \/ Len(PacketOf(c, cmd)) > MAXBUF
  /\ Stop(c)

\* "Please enter a valid command": nothing is sent.
InvalidCommand(c) ==
  /\ phase[c] = "running"
  /\ \E line \in Lines[c] : Command[line] = Invalid
  /\ UNCHANGED <<netVars, clientVars>>

\* recvPDU returns 0: "Server has terminated".
ServerTerminated(c) ==
  /\ phase[c] = "running"
  /\ toClient[c] = <<>>
  /\ ~serverUp \/ ~Connected(c)
  /\ Stop(c)

\* The list ends before every handle it announced.
ListCutShort(c) ==
  /\ phase[c] = "running"
  /\ toClient[c] # <<>>
  /\ FlagOf(Head(toClient[c])) = 13
  /\ expectingHandleList[c] /\ remainingHandles[c] # 0
  /\ Stop(c)

\* A handle in the list is longer than a handle may be.
ListedTooLong(c) ==
  /\ phase[c] = "running"
  /\ toClient[c] # <<>>
  /\ FlagOf(Head(toClient[c])) = 12
  /\ expectingHandleList[c] /\ At(Head(toClient[c]), 1) > MAX_HANDLE_LENGTH
  /\ Stop(c)

-----------------------------------------------------------------------------
(***************************************************************************)
(* processMsgFromServer, the PDUs the client goes on after.                *)
(***************************************************************************)

Take(c, m) ==
  /\ phase[c] = "running"
  /\ toClient[c] # <<>>
  /\ m = Head(toClient[c])
  /\ toClient' = [toClient EXCEPT ![c] = Tail(@)]
  /\ UNCHANGED <<serverUp, backlog, peer, toServer, gone, reset,
                 phase, clientHandle, oversize, typed>>

\* The answer to the registration; a refusal is printed and the loop goes on.
Answered(c, m) ==
  /\ FlagOf(m) \in {2, 3}
  /\ refused' = IF FlagOf(m) = 3 THEN refused \cup {c} ELSE refused
  /\ UNCHANGED listVars

\* Messages and errors are printed; so is a list packet out of place.
Shown(c, m) ==
  /\ \/ FlagOf(m) \in {4, 5, 6, 7}
     \/ FlagOf(m) \in {12, 13} /\ ~expectingHandleList[c]
  /\ UNCHANGED <<listVars, refused>>

HandleCount(c, m) ==
  /\ FlagOf(m) = 11
  /\ expectingHandleList' = [expectingHandleList EXCEPT ![c] = TRUE]
  /\ remainingHandles' = [remainingHandles EXCEPT ![c] = At(m, 1)]
  /\ UNCHANGED refused

HandleListed(c, m) ==
  /\ FlagOf(m) = 12
  /\ expectingHandleList[c] /\ At(m, 1) <= MAX_HANDLE_LENGTH
  /\ remainingHandles' = [remainingHandles EXCEPT ![c] = IF @ > 0 THEN @ - 1 ELSE 0]
  /\ UNCHANGED <<expectingHandleList, refused>>

ListFinished(c, m) ==
  /\ FlagOf(m) = 13
  /\ expectingHandleList[c] /\ remainingHandles[c] = 0
  /\ expectingHandleList' = [expectingHandleList EXCEPT ![c] = FALSE]
  /\ remainingHandles' = [remainingHandles EXCEPT ![c] = 0]
  /\ UNCHANGED refused

ProcessMsgFromServer(c) ==
  \E m \in {toClient[c][i] : i \in DOMAIN toClient[c]} :
    /\ Take(c, m)
    /\ \/ Answered(c, m) \/ Shown(c, m)
       \/ HandleCount(c, m) \/ HandleListed(c, m) \/ ListFinished(c, m)

\* What a client does by itself, without its user.
ClientTurn(c) ==
  \/ ServerTerminated(c) \/ ListCutShort(c) \/ ListedTooLong(c)
  \/ ProcessMsgFromServer(c)
=============================================================================
