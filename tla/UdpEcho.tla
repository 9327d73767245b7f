------------------------------ MODULE UdpEcho -------------------------------
(***************************************************************************)
(* The UDP lab: an echo server and its clients, stop and wait without a    *)
(* timeout, every datagram through sendto_Err.  Each program is started    *)
(* with an error rate and, possibly, CPE464_OVERRIDE_ variables: its       *)
(* set-up, chosen once.  All of them run on one host, where the network    *)
(* loses nothing by itself.                                                *)
(***************************************************************************)
EXTENDS SendErr

CONSTANTS Clients,      \* the clients (rcopy.c of the lab)
          Server,       \* the server
          Setups,       \* how the programs may be started
          Texts,        \* the lines a user types, as sequences of bytes
          MAXBUF        \* of rcopy.c

Programs == Clients \cup {Server}

Setup == [clients : SUBSET Clients,          \* the clients that are started
          lines   : 0 .. Byte - 1,           \* bound on the lines of one user
          rate    : [Programs -> Nat],       \* error-rate arguments
          set     : [Programs -> [seed : Seq(Int), rate : Seq(Nat),
                                  drop : Seq(Seq(Int)), flip : Seq(Seq(Int))]]]

ASSUME UdpEchoAssumption ==
  /\ Server \notin Clients /\ IsFiniteSet(Clients)
  /\ Setups \subseteq Setup
  /\ Texts \subseteq Seq(ByteValue)
  /\ MAXBUF \in Nat \ 0 .. 1

VARIABLES setup,
          lib,          \* each program's libcpe464
          rand,         \* the draws that are known, by seed
          client,       \* each client's pc, next sequence number and last PDU,
                        \* and what is left of a line typed: <<rest>> or << >>
          toServer,     \* datagrams for the server, with the sender's address
          toClient,     \* datagrams for each client
          sends,        \* history: datagrams each program has tried to send
          lost          \* history: those that were dropped: program, number, client

vars == <<setup, lib, rand, client, toServer, toClient, sends, lost>>

\* createPDU: sequence number, checksum, flag, the line and its terminator.
HeaderLen == 5
ChksumPos == 3
Flag == Byte - 2
CreatePDU(seq, line) == Sealed(<<0, seq, 0, 0, Flag>> \o line \o <<0>>, ChksumPos)

\* The longest datagram, 85 bytes in the code, is one whose sum in_cksum can fold
\* to a word: it has no more words than a word has values.
ASSUME MaxBufAssumption == HeaderLen + MAXBUF <= 2 * Word

\* printPDU: what is printed of a datagram; the line ends at its first zero.
Corrupted == [flag |-> 0]
PrintPDU(bytes) ==
  IF ~Accepted(bytes) THEN Corrupted
  ELSE [flag |-> bytes[HeaderLen], seq |-> bytes[2],
        payload |-> LET rest == Append(SubSeq(bytes, HeaderLen + 1, Len(bytes)), 0)
                    IN  SubSeq(rest, 1, SelectInSeq(rest, LAMBDA b : b = 0) - 1)]

\* Faulty variant: random seeds, and the programs start in different seconds.
MutStarted(s, p) ==
  SendErrInit(Loaded(s.set[p], 0), s.rate[p], TRUE, TRUE, TRUE,
              IF p = Server THEN 1 ELSE 2)

\* main of both programs: RSEED_OFF, so the clock does not matter.
Started(s, p) == SendErrInit(Loaded(s.set[p], 0), s.rate[p], TRUE, TRUE, FALSE, 1)

\* The seeds the programs start with are among those that can occur.
ASSUME SeedsAssumption ==
  \A s \in Setups : \A p \in Programs : Started(s, p).seed \in Seeds

Init ==
  /\ setup \in Setups
  /\ lib = [p \in Programs |-> Started(setup, p)]
  /\ rand = [s \in Seeds |-> << >>]
  /\ client = [c \in Clients |->
       [pc |-> IF c \in setup.clients THEN "setup" ELSE "done", seq |-> 0,
        pdu |-> << >>, keys |-> << >>]]
  /\ toServer = << >>
  /\ toClient = [c \in Clients |-> << >>]
  /\ sends = [p \in Programs |-> 0]
  /\ lost = {}

\* Outcome o of a send of program p, in the conversation with client c.
Account(p, c, o) ==
  /\ lib' = [lib EXCEPT ![p] = o.lib]
  /\ rand' = o.rand
  /\ sends' = [sends EXCEPT ![p] = @ + 1]
  /\ lost' = IF o.out # << >> THEN lost ELSE lost \cup {<<p, sends[p] + 1, c>>}

-----------------------------------------------------------------------------

\* setupUdpClientToServer: the server's host may be unknown.
SetupUdpClientToServer(c) ==
  /\ client[c].pc = "setup"
  /\ \E pc \in {"typing", "done"} : client' = [client EXCEPT ![c].pc = pc]
  /\ UNCHANGED <<setup, lib, rand, toServer, toClient, sends, lost>>

\* readFromStdin, when `keys' is what it will find up to the newline.  A line of
\* MAXBUF - 1 characters or more leaves the rest, be it only the newline, to the
\* next call.
ReadFromStdin(keys) ==
  IF Len(keys) < MAXBUF - 1 THEN [line |-> keys, keys |-> << >>]
  ELSE [line |-> SubSeq(keys, 1, MAXBUF - 1),
        keys |-> <<SubSeq(keys, MAXBUF, Len(keys))>>]

\* What a client may read next.
Reads(c) ==
  {ReadFromStdin(keys) :
     keys \in IF client[c].keys = << >> THEN Texts ELSE ToSet(client[c].keys)}

\* "."
Dot == Byte - 1
Quits(line) == line # << >> /\ line[1] = Dot

\* talkToServer up to its safeRecvfrom: a line is read and sent.
SendLine(c) ==
  /\ client[c].pc = "typing"
  /\ client[c].seq < setup.lines
  /\ \E read \in Reads(c) :
       LET pdu == CreatePDU(client[c].seq, read.line)
       IN  /\ ~Quits(read.line)
           /\ \E o \in SendtoErr(lib[c], rand, pdu) :
                /\ Account(c, c, o)
                /\ toServer' = toServer \o
                     [i \in DOMAIN o.out |-> [from |-> c, bytes |-> o.out[i]]]
                /\ client' = [client EXCEPT ![c].pc = "waiting", ![c].pdu = pdu,
                                            ![c].keys = read.keys]
  /\ UNCHANGED <<setup, toClient>>

\* A line, or the rest of one, that starts with "." ends the client.
Quit(c) ==
  /\ client[c].pc = "typing"
  /\ \E read \in Reads(c) : Quits(read.line)
  /\ client' = [client EXCEPT ![c].pc = "done"]
  /\ UNCHANGED <<setup, lib, rand, toServer, toClient, sends, lost>>

\* The echo, or whatever comes: it is printed or called corrupted, and the
\* sequence number moves on either way.
ReceiveEcho(c) ==
  /\ client[c].pc = "waiting"
  /\ toClient[c] # << >>
  /\ toClient' = [toClient EXCEPT ![c] = Tail(@)]
  /\ client' = [client EXCEPT ![c].pc = "typing", ![c].seq = @ + 1]
  /\ UNCHANGED <<setup, lib, rand, toServer, sends, lost>>

\* Faulty variant: the echo goes to the client that was heard last of all.
MutReplyTo(m) == toServer[Len(toServer)].from

\* processClient answers the address recvfrom has just filled in.
ReplyTo(m) == m.from

\* One turn of processClient: the datagram is printed, or called corrupted, and
\* goes back as it came.
Echo ==
  /\ toServer # << >>
  /\ LET m == Head(toServer)
         c == ReplyTo(m)
     IN  \E o \in SendtoErr(lib[Server], rand, m.bytes) :
           /\ Account(Server, c, o)
           /\ toClient' = [toClient EXCEPT ![c] = @ \o o.out]
  /\ toServer' = Tail(toServer)
  /\ UNCHANGED <<setup, client>>

Next ==
  \/ \E c \in Clients :
       SetupUdpClientToServer(c) \/ SendLine(c) \/ Quit(c) \/ ReceiveEcho(c)
  \/ Echo

Spec == Init /\ [][Next]_vars

\* The programs run on; the user need not type.
FairSpec == Spec /\ WF_vars(Echo) /\ \A c \in Clients : WF_vars(ReceiveEcho(c))

-----------------------------------------------------------------------------
(***************************************************************************)
(* What the lab promises.                                                  *)
(***************************************************************************)

\* What the server prints of a datagram it takes for good is what the client has
\* printed when it sent it, the line its user typed: errorFlipBits never gets
\* past in_cksum, wherever the byte is, the odd last one included.
ServerShowsSent ==
  \A i \in DOMAIN toServer :
    PrintPDU(toServer[i].bytes) \in
      {Corrupted, PrintPDU(client[toServer[i].from].pdu)}

\* The lab as its README starts it: one client, one rate, nothing overridden.
InStep ==
  /\ Cardinality(setup.clients) = 1
  /\ \A p, q \in Programs : setup.rate[p] = setup.rate[q]
  /\ \A p \in Programs : setup.set[p] = NoOverrides

\* RSEED_OFF makes both programs throw the same dice, and stop and wait keeps
\* them in step: the server drops nothing it has received, and flips the very
\* byte the client's library flipped.  Whatever reaches the client is intact,
\* though the server saw it corrupted.
EchoRestored ==
  InStep => /\ \A c \in setup.clients : \A i \in DOMAIN toClient[c] :
                 toClient[c][i] = client[c].pdu
            /\ \A l \in lost : l[1] # Server

ListedSends(p) ==
  {n \in 1 .. sends[p] : IsSet(setup.set[p].drop)
                         /\ n \in Numbers(setup.set[p].drop[1])}

HasList(p) == IsSet(setup.set[p].drop) /\ Numbers(setup.set[p].drop[1]) # {}

\* CPE464_OVERRIDE_ERR_DROP names transmissions: with a list, whatever the rate,
\* exactly the sends of its numbers are lost, a lost send counting like any
\* other; they are also the ones that infoSeqNo's report of "Msgs (Total)"
\* misses.
DropListExact ==
  \A p \in Programs :
    /\ lib[p].reported = sends[p] - Cardinality(ListedSends(p))
    /\ HasList(p) =>
         {l[2] : l \in {k \in lost : k[1] = p}} = ListedSends(p)

\* A client without an answer on its way to it or from it has had a datagram
\* dropped: with nobody to repeat it, it waits for ever; and that is the only
\* reason it ever does.
StuckMeansDropped ==
  \A c \in Clients :
    client[c].pc = "waiting" =>
      (\/ toClient[c] # << >>
       \/ \E i \in DOMAIN toServer : toServer[i].from = c)
      # (\E l \in lost : l[3] = c)

\* Drops are switched off: every program is started with a drop list that names
\* no transmission, "0".  A rate of 0 is not enough, a draw may be 0 too.
Lossless == \A p \in Programs : HasList(p) /\ Numbers(setup.set[p].drop[1]) = {0}

\* Then every line is answered, with any number of clients and whatever is
\* flipped.
Answered ==
  \A c \in Clients : (Lossless /\ client[c].pc = "waiting") ~> (client[c].pc = "typing")
=============================================================================
