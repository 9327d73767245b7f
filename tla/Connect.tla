------------------------------ MODULE Connect -------------------------------
(***************************************************************************)
(* How a transfer of rcopy-program3 is set up: rcopies that ask, ask again *)
(* from a new socket and give up; the server process, which forks a child  *)
(* for every request that reaches it intact; the children, which answer    *)
(* and serve; SIGCHLD and its handler.  The transfer itself is Session's:  *)
(* here a child that serves sends one data packet, and ends at some time,  *)
(* and so does an rcopy that receives.                                     *)
(*                                                                         *)
(* A UDP address is a pair <<rcopy, number of its socket>>; the children   *)
(* are numbered in the order of their forks.  Datagrams overtake each      *)
(* other: what is on its way is a bag of them.                             *)
(***************************************************************************)
EXTENDS SendErr

CONSTANTS Rcopies,      \* the rcopy processes
          Cases,        \* what may go wrong, and the names asked for
          MaxTries      \* MAX_TRIES of srej.h

Faults == {"drop", "flip", "dup", "lookup", "open"}

Case == [faults : SUBSET Faults,      \* what may happen
         limit  : Nat,                \* bound on how often
         timely : BOOLEAN,            \* a request is answered within a second
         length : [Rcopies -> Nat],   \* of the name each rcopy asks for
         found  : BOOLEAN]            \* the server has the files

ASSUME ConnectAssumption == Cases \subseteq Case /\ MaxTries \in Nat \ {0}

VARIABLES case,         \* this run's case; never changes
          rcopy,        \* each rcopy: state, socket, retryCnt, server->remote
          lib,          \* the server process's libcpe464
          child,        \* the children forked so far
          sigchld,      \* "none", "pending" or, in reapZombies, "reaping"
          again,        \* SIGCHLD once more, while it is handled
          toServer,     \* requests on their way to the server's port
          toRcopy,      \* packets of the children on their way
          faults        \* faults so far

vars == <<case, rcopy, lib, child, sigchld, again, toServer, toRcopy, faults>>

serverVars == <<lib, child, sigchld, again>>

MAX_FNAME_LEN == 101
WIN_BUFF_LEN == 8
BUFF_SIZE == 4

ServerPort == 0         \* server->remote before a child has answered
Address(r) == <<r, rcopy[r].socket>>
Children == DOMAIN child

Init ==
  /\ case \in Cases
  /\ rcopy = [r \in Rcopies |->
       [state |-> "START", socket |-> 0, retryCnt |-> 0, remote |-> ServerPort]]
  /\ lib = SendErrInit(Loaded(NoOverrides, 0), 0, TRUE, TRUE, TRUE, 1)
  /\ child = << >>
  /\ sigchld = "none"
  /\ again = FALSE
  /\ toServer = EmptyBag
  /\ toRcopy = EmptyBag
  /\ faults = 0

Spend(cost) ==
  /\ faults + cost <= case.limit
  /\ faults' = faults + cost

Once(m) == SetToBag({m})

\* What becomes of packet m on its way, and the faults that costs.
Fates(m) ==
  {[out |-> Once(m), cost |-> 0]} \cup
  {[out |-> CASE f = "drop" -> EmptyBag
              [] f = "flip" -> Once([m EXCEPT !.flag = "CRC_ERROR"])
              [] f = "dup"  -> Once(m) (+) Once(m),
    cost |-> 1] : f \in case.faults \cap {"drop", "flip", "dup"}}

-----------------------------------------------------------------------------
(***************************************************************************)
(* rcopy                                                                   *)
(***************************************************************************)

\* close: what is on its way to the socket goes nowhere.
Closed(r) == [m \in {n \in DOMAIN toRcopy : n.to # Address(r)} |-> toRcopy[m]]

NameTooLong(r) ==
  /\ rcopy[r].state = "START"
  /\ case.length[r] >= MAX_FNAME_LEN
  /\ rcopy' = [rcopy EXCEPT ![r].state = "DONE"]
  /\ UNCHANGED <<case, serverVars, toServer, toRcopy, faults>>

\* Faulty variant: the socket of the attempt before is used again.
MutNewSocket(r) == 1

\* udpClientSetup: a socket of its own for every attempt.
NewSocket(r) == rcopy[r].socket + 1

StartState(r) ==
  /\ rcopy[r].state = "START"
  /\ case.length[r] < MAX_FNAME_LEN
  /\ rcopy' = [rcopy EXCEPT ![r].state = "FNAME_RECV", ![r].socket = NewSocket(r),
                            ![r].remote = ServerPort]
  /\ \E fate \in Fates([flag |-> "FNAME", from |-> <<r, NewSocket(r)>>,
                        len |-> WIN_BUFF_LEN + case.length[r]]) :
       /\ toServer' = toServer (+) fate.out
       /\ Spend(fate.cost)
  /\ toRcopy' = Closed(r)
  /\ UNCHANGED <<case, serverVars>>

\* gethostbyname6 finds nothing.
StartUnresolved(r) ==
  /\ rcopy[r].state = "START"
  /\ case.length[r] < MAX_FNAME_LEN
  /\ "lookup" \in case.faults
  /\ Spend(1)
  /\ rcopy' = [rcopy EXCEPT ![r].state = "DONE", ![r].socket = NewSocket(r),
                            ![r].remote = ServerPort]
  /\ toRcopy' = Closed(r)
  /\ UNCHANGED <<case, serverVars, toServer>>

\* A packet for r is taken from its socket; its sender is whom r answers.
Take(r, m, state) ==
  /\ rcopy' = [rcopy EXCEPT ![r].state = state, ![r].retryCnt = 0,
                            ![r].remote = m.from]
  /\ toRcopy' = toRcopy (-) Once(m)

Received(r) == {m \in DOMAIN toRcopy : m.to = Address(r)}

AfterAnswer(flag) ==
  CASE flag = "CRC_ERROR" -> "START"
    [] flag = "FNAME_BAD" -> "DONE"
    [] OTHER              -> "FILE_OK"

FnameRecv(r) ==
  /\ rcopy[r].state = "FNAME_RECV"
  /\ rcopy[r].retryCnt < MaxTries
  /\ \E m \in Received(r) : Take(r, m, AfterAnswer(m.flag))
  /\ UNCHANGED <<case, serverVars, toServer, faults>>

\* The request, or what answers it, is still on its way.
UnderWay(r) ==
  \/ Received(r) # {}
  \/ \E m \in DOMAIN toServer : m.from = Address(r)
  \/ \E k \in Children : child[k].pc = "filename" /\ child[k].client = Address(r)

\* Faulty variant: retryCnt starts anew with every attempt.
MutTried(r) == 0

\* processSelect counts the call; the counter is static in fnameRecv.
Tried(r) == rcopy[r].retryCnt + 1

FnameTimeout(r) ==
  /\ rcopy[r].state = "FNAME_RECV"
  /\ rcopy[r].retryCnt < MaxTries
  /\ case.timely => ~UnderWay(r)
  /\ rcopy' = [rcopy EXCEPT ![r].state = "START", ![r].retryCnt = Tried(r)]
  /\ UNCHANGED <<case, serverVars, toServer, toRcopy, faults>>

\* One more request has been sent than answers are waited for.
FnameGivesUp(r) ==
  /\ rcopy[r].state = "FNAME_RECV"
  /\ rcopy[r].retryCnt >= MaxTries
  /\ rcopy' = [rcopy EXCEPT ![r].state = "DONE", ![r].retryCnt = Tried(r)]
  /\ toRcopy' = Closed(r)
  /\ UNCHANGED <<case, serverVars, toServer, faults>>

FileOk(r) ==
  /\ rcopy[r].state = "FILE_OK"
  /\ \/ rcopy' = [rcopy EXCEPT ![r].state = "RECV_DATA"] /\ UNCHANGED faults
     \/ /\ "open" \in case.faults
        /\ rcopy' = [rcopy EXCEPT ![r].state = "DONE"]
        /\ Spend(1)
  /\ UNCHANGED <<case, serverVars, toServer, toRcopy>>

\* recvData: an unexpected flag, a second FNAME_OK among them, is the end.
RecvData(r) ==
  /\ rcopy[r].state = "RECV_DATA"
  /\ \E m \in Received(r) :
       Take(r, m, IF m.flag \in {"DATA", "CRC_ERROR"} THEN "RECV_DATA" ELSE "DONE")
  /\ UNCHANGED <<case, serverVars, toServer, faults>>

\* END_OF_FILE, ten seconds without a packet, or an error.
TransferEnds(r) ==
  /\ rcopy[r].state = "RECV_DATA"
  /\ rcopy' = [rcopy EXCEPT ![r].state = "DONE"]
  /\ toRcopy' = Closed(r)
  /\ UNCHANGED <<case, serverVars, toServer, faults>>

-----------------------------------------------------------------------------
(***************************************************************************)
(* The server process                                                      *)
(***************************************************************************)

\* One turn of serverTransfer.  The flag is not looked at.
ServerTransfer ==
  /\ sigchld = "none"
  /\ \E m \in DOMAIN toServer :
       /\ toServer' = toServer (-) Once(m)
       /\ IF m.flag = "CRC_ERROR" THEN UNCHANGED <<child, lib>>
          ELSE /\ child' = Append(child,
                    [pc |-> "filename", client |-> m.from, recvLen |-> m.len,
                     seed |-> ForkedChild(lib).seed, sent |-> FALSE])
               /\ lib' = ForkedParent(lib)
  /\ UNCHANGED <<case, rcopy, sigchld, again, toRcopy, faults>>

\* The handler is called; further signals wait until it returns.
Signalled ==
  /\ sigchld = "pending"
  /\ sigchld' = "reaping"
  /\ UNCHANGED <<case, rcopy, lib, child, again, toServer, toRcopy, faults>>

Zombies == {k \in Children : child[k].pc = "zombie"}

AfterReturn == IF again THEN "pending" ELSE "none"

\* Faulty variant: one waitpid for each signal.
MutReaped(k) == AfterReturn

\* waitpid has returned a child: the loop goes on.
Reaped(k) == "reaping"

ReapZombies ==
  /\ sigchld = "reaping"
  /\ \/ \E k \in Zombies :
          /\ child' = [child EXCEPT ![k].pc = "gone"]
          /\ sigchld' = Reaped(k)
          /\ again' = (again /\ sigchld' = "reaping")
     \/ /\ Zombies = {}
        /\ sigchld' = AfterReturn
        /\ again' = FALSE
        /\ UNCHANGED child
  /\ UNCHANGED <<case, rcopy, lib, toServer, toRcopy, faults>>

-----------------------------------------------------------------------------
(***************************************************************************)
(* The children                                                            *)
(***************************************************************************)

\* exit: a zombie, and a signal, which is one however many there are.
Exits(k) ==
  /\ child' = [child EXCEPT ![k].pc = "zombie"]
  /\ IF sigchld = "reaping" THEN again' = TRUE /\ UNCHANGED sigchld
     ELSE sigchld' = "pending" /\ UNCHANGED again

SocketOpen(address) ==
  rcopy[address[1]].socket = address[2] /\ rcopy[address[1]].state # "DONE"

\* sendBuff of child k; a packet to a closed socket vanishes.
Answer(k, flag) ==
  IF ~SocketOpen(child[k].client) THEN UNCHANGED <<toRcopy, faults>>
  ELSE \E fate \in Fates([flag |-> flag, from |-> k, to |-> child[k].client]) :
         /\ toRcopy' = toRcopy (+) fate.out
         /\ Spend(fate.cost)

\* Faulty variant: off by one.
MutNameDoesNotFit(recvLen) == recvLen - BUFF_SIZE >= 100

\* "filename is greater than 100 characters": the packet carries two fields of
\* BUFF_SIZE bytes before the name.
NameDoesNotFit(recvLen) == recvLen - BUFF_SIZE > 100

FilenameTooLong(k) ==
  /\ child[k].pc = "filename"
  /\ NameDoesNotFit(child[k].recvLen)
  /\ Exits(k)
  /\ UNCHANGED <<case, rcopy, lib, toServer, toRcopy, faults>>

FilenameMissing(k) ==
  /\ child[k].pc = "filename"
  /\ ~NameDoesNotFit(child[k].recvLen) /\ ~case.found
  /\ Answer(k, "FNAME_BAD")
  /\ Exits(k)
  /\ UNCHANGED <<case, rcopy, lib, toServer>>

FilenameFound(k) ==
  /\ child[k].pc = "filename"
  /\ ~NameDoesNotFit(child[k].recvLen) /\ case.found
  /\ Answer(k, "FNAME_OK")
  /\ child' = [child EXCEPT ![k].pc = "serving"]
  /\ UNCHANGED <<case, rcopy, lib, sigchld, again, toServer>>

SendData(k) ==
  /\ child[k].pc = "serving"
  /\ ~child[k].sent
  /\ Answer(k, "DATA")
  /\ child' = [child EXCEPT ![k].sent = TRUE]
  /\ UNCHANGED <<case, rcopy, lib, sigchld, again, toServer>>

\* EOF_ACK, MAX_TRIES timeouts, or an error.
ServiceEnds(k) ==
  /\ child[k].pc = "serving"
  /\ Exits(k)
  /\ UNCHANGED <<case, rcopy, lib, toServer, toRcopy, faults>>

-----------------------------------------------------------------------------

Rcopy(r) ==
  \/ NameTooLong(r) \/ StartState(r) \/ StartUnresolved(r) \/ FnameRecv(r)
  \/ FnameTimeout(r) \/ FnameGivesUp(r) \/ FileOk(r) \/ RecvData(r)
  \/ TransferEnds(r)

ServerProcess == ServerTransfer \/ Signalled \/ ReapZombies

Child(k) ==
  \/ FilenameTooLong(k) \/ FilenameMissing(k) \/ FilenameFound(k)
  \/ SendData(k) \/ ServiceEnds(k)

Next ==
  \/ \E r \in Rcopies : Rcopy(r)
  \/ ServerProcess
  \/ \E k \in Children : Child(k)

Spec == Init /\ [][Next]_vars

\* Every process runs on.
FairSpec ==
  /\ Spec
  /\ \A r \in Rcopies : WF_vars(Rcopy(r))
  /\ WF_vars(ServerProcess)
  /\ WF_vars(\E k \in Children : Child(k))

-----------------------------------------------------------------------------
(***************************************************************************)
(* What setting up a transfer promises.                                    *)
(***************************************************************************)

\* A request that is repeated while a child of an earlier one still runs makes a
\* second child; but each serves a socket of its own, so rcopy, which answers
\* whoever sent the last packet, hears one child only, the one of its last
\* request.  Only a network that duplicates the request breaks this.
OneChildPerSocket ==
  "dup" \notin case.faults =>
    /\ \A k, l \in Children : child[k].client = child[l].client => k = l
    /\ \A r \in Rcopies :
         rcopy[r].remote # ServerPort => child[rcopy[r].remote].client = Address(r)

\* rcopy asks MAX_TRIES + 1 times, and as often again for each answer that is
\* corrupted (of the faults counted here), and no more.
RequestsBounded ==
  \A r \in Rcopies : rcopy[r].socket <= (MaxTries + 1) * (1 + faults)

\* network-hooks.c: "so any child forked will have a different seed value".
ChildSeedsDistinct ==
  \A k, l \in Children : child[k].seed = child[l].seed => k = l

\* SIGCHLD is not counted, yet no child that has exited is forgotten.
ZombiesNoticed == Zombies # {} => sigchld # "none"

Perfect == case.faults = {} /\ case.timely /\ case.found

\* A name of up to 96 characters is answered, and the transfer begins, on a network
\* that is quick and loses nothing.
NamesAnswered ==
  \A r \in Rcopies :
    Perfect /\ case.length[r] <= 96 => <>(rcopy[r].state = "RECV_DATA")

\* server.c:201: "filename is greater than 100 characters, this should never
\* happen!".  rcopy sends no name that is longer (NameTooLong), so the branch is
\* never taken.
LongNameNeverHappens ==
  \A k \in Children : child[k].pc = "filename" => ~NameDoesNotFit(child[k].recvLen)
=============================================================================
