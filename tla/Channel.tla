------------------------------- MODULE Channel -------------------------------
(***************************************************************************)
(* The two UDP directions between a server child and one rcopy.            *)
(*                                                                         *)
(* A direction is the sequence of packets that are in flight or in the     *)
(* receiver's socket.  sendBuff goes through sendto_Err, which drops the   *)
(* packet, inverts one byte of it, or sends it; the network below may also *)
(* duplicate and reorder.  in_cksum detects every inverted byte, so a      *)
(* flipped packet is only a packet that recvBuff reports as CRC_ERROR.     *)
(*                                                                         *)
(* What may go wrong is the environment `env', which is chosen once for a  *)
(* transfer: the error rates of the two programs are independent, and a    *)
(* run is one choice of command lines, files and network.  `faults' counts *)
(* what has gone wrong; env.limit bounds it, where the number of faults of *)
(* sendto_Err is random and unbounded.                                     *)
(***************************************************************************)
EXTENDS Naturals, Sequences, SequencesExt

Ends == {"client", "server"}

FaultKinds == {"drop", "flip", "dup", "reorder"}

CONSTANT Environments   \* the environments a transfer may meet

Environment ==
  [faults   : SUBSET (Ends \X FaultKinds), \* what may happen, towards which end
   limit    : Nat,                         \* bound on how often
   timely   : BOOLEAN,                     \* no packet is later than a timeout
   ioErrors : BOOLEAN,                     \* open, read and write may fail
   requests : SUBSET {"found", "missing", "too_long"}] \* the name asked for

ASSUME EnvironmentsAssumption == \A e \in Environments : e \in Environment

VARIABLES env,          \* this transfer's environment; never changes
          toClient,     \* server child -> rcopy
          toServer,     \* rcopy -> server child
          sockets,      \* the ends that can still receive
          faults        \* faults so far

channelVars == <<toClient, toServer, sockets, faults>>

\* srej.h enum FLAG, without FNAME (see Session: the connection is set up).
DataFlags == {"DATA", "SREJ_DATA", "TIMEOUT_DATA"}
ServerFlags == DataFlags \cup {"FNAME_OK", "FNAME_BAD", "END_OF_FILE"}
ClientFlags == {"ACK_RR", "SREJ", "EOF_ACK"}

Packet(flag, seq, data) == [flag |-> flag, seqNum |-> seq, data |-> data]

Flipped(m) == [m EXCEPT !.flag = "CRC_ERROR"]

AfterFault(kind, q, m) ==
  CASE kind = "drop" -> q
    [] kind = "flip" -> Append(q, Flipped(m))
    [] kind = "dup"  -> q \o <<m, m>>

\* What sendBuff can make of queue q towards end dst, and the faults each
\* outcome costs.  A packet to a closed socket vanishes.
Sends(dst, q, m) ==
  IF dst \notin sockets THEN {[queue |-> q, cost |-> 0]}
  ELSE {[queue |-> Append(q, m), cost |-> 0]}
       \cup {[queue |-> AfterFault(f[2], q, m), cost |-> 1] :
               f \in {g \in env.faults : g[1] = dst /\ g[2] # "reorder"}}

\* What recvBuff at end dst can take from queue q: the oldest packet, or a
\* later one that overtook it.
Receives(dst, q) ==
  {[packet |-> q[i], rest |-> RemoveAt(q, i), cost |-> IF i = 1 THEN 0 ELSE 1] :
     i \in {k \in DOMAIN q : k = 1 \/ <<dst, "reorder">> \in env.faults}}

Spend(cost) ==
  /\ faults + cost <= env.limit
  /\ faults' = faults + cost

\* One packet, or none, towards rcopy, after a receive that cost recvCost.
TransmitToClient(packets, recvCost) ==
  IF packets = {} THEN UNCHANGED toClient /\ Spend(recvCost)
  ELSE \E m \in packets : \E s \in Sends("client", toClient, m) :
         /\ toClient' = s.queue
         /\ Spend(recvCost + s.cost)

TransmitToServer(m, recvCost) ==
  \E s \in Sends("server", toServer, m) :
    /\ toServer' = s.queue
    /\ Spend(recvCost + s.cost)

ChannelInit ==
  /\ env \in Environments
  /\ toClient = <<>>
  /\ toServer = <<>>
  /\ sockets = Ends
  /\ faults = 0
=============================================================================
