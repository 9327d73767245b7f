--------------------------- MODULE ConnectProofs ----------------------------
(***************************************************************************)
(* The server process, its children and the rcopies, for any number of     *)
(* rcopies, any names, any faults and any number of attempts: no child     *)
(* that has exited is forgotten, no two children throw the same dice, each *)
(* child serves a socket of its own, and rcopy does not ask for ever.      *)
(***************************************************************************)
EXTENDS Connect, SequenceTheorems, TLAPS

ChildType == [pc : {"filename", "serving", "zombie", "gone"},
              client : Rcopies \X Nat, recvLen : Nat, seed : Int, sent : BOOLEAN]

RcopyType == [state : {"START", "FNAME_RECV", "FILE_OK", "RECV_DATA", "DONE"},
              socket : Nat, retryCnt : Nat, remote : Nat]

Request == [flag : {"FNAME", "CRC_ERROR"}, from : Rcopies \X Nat, len : Nat]

Flags == {"FNAME_BAD", "FNAME_OK", "DATA", "CRC_ERROR"}
Packet == [flag : Flags, from : Nat \ {ServerPort}, to : Rcopies \X Nat]

-----------------------------------------------------------------------------
(***************************************************************************)
(* The rcopies and the network                                             *)
(***************************************************************************)

NetTyped ==
  /\ case \in Case /\ faults \in Nat
  /\ rcopy \in [Rcopies -> RcopyType]
  /\ IsABag(toServer) /\ DOMAIN toServer \subseteq Request
  /\ IsABag(toRcopy) /\ DOMAIN toRcopy \subseteq Packet

\* Nothing comes from, or goes to, a socket that does not exist yet; a packet
\* goes to the client of the child that sent it, and an rcopy that has heard a
\* child on its socket has heard one that serves this socket.
Addressed ==
  /\ \A m \in DOMAIN toServer : m.from[2] <= rcopy[m.from[1]].socket
  /\ \A k \in Children : child[k].client[2] <= rcopy[child[k].client[1]].socket
  /\ \A m \in DOMAIN toRcopy : m.from \in Children /\ m.to = child[m.from].client
  /\ \A r \in Rcopies :
       rcopy[r].remote # ServerPort =>
         rcopy[r].remote \in Children /\ child[rcopy[r].remote].client = Address(r)

\* A socket's request is on its way, or has a child, or is lost: one of them.
RequestsApart ==
  "dup" \notin case.faults =>
    /\ \A m \in DOMAIN toServer :
         toServer[m] = 1 /\ \A k \in Children : child[k].client # m.from
    /\ \A m, n \in DOMAIN toServer : m.from = n.from => m = n
    /\ \A k, l \in Children : child[k].client = child[l].client => k = l

\* A corrupted answer waits at r's socket: the fault it has cost has not yet
\* earned r another round of requests.
Rejected(r) == \E m \in DOMAIN toRcopy : m.flag = "CRC_ERROR" /\ m.to = Address(r)
Spent(r) == IF Rejected(r) THEN faults - 1 ELSE faults

Rounds(n) == (MaxTries + 1) * n

\* What r has asked so far, by what it has counted in this round.
Asked(r) ==
  /\ rcopy[r].state \in {"START", "FNAME_RECV"} => rcopy[r].retryCnt <= MaxTries
  /\ rcopy[r].state = "START" =>
       rcopy[r].socket <= Rounds(faults) + rcopy[r].retryCnt
  /\ rcopy[r].state = "FNAME_RECV" =>
       rcopy[r].socket <= Rounds(Spent(r)) + rcopy[r].retryCnt + 1
  /\ rcopy[r].socket <= Rounds(faults) + MaxTries + 1

NetInv == NetTyped /\ Addressed /\ RequestsApart /\ \A r \in Rcopies : Asked(r)

-----------------------------------------------------------------------------
(***************************************************************************)
(* The server process and its children                                     *)
(***************************************************************************)

\* The library of the server process: nothing overrides its seed.
LibFields == {"set", "seed", "drawn", "nextSeed"}
LibTyped ==
  /\ LibFields \subseteq DOMAIN lib
  /\ lib.set = NoOverrides
  /\ lib.nextSeed \in Int

ChildrenTyped ==
  /\ child \in Seq(ChildType)
  /\ sigchld \in {"none", "pending", "reaping"}

\* Every child forked so far has a seed below the next one.
SeedsBelow == \A k \in Children : child[k].seed < lib.nextSeed

ServerInv == /\ LibTyped /\ ChildrenTyped
             /\ SeedsBelow /\ ChildSeedsDistinct /\ ZombiesNoticed

IInv == NetInv /\ ServerInv

-----------------------------------------------------------------------------
(***************************************************************************)
(* The library: a fork hands out one seed and moves on to the next.        *)
(***************************************************************************)

\* sendErr_init leaves the server's library without overrides, seeds ready.
LEMMA ServerLibTyped ==
  ASSUME lib = SendErrInit(Loaded(NoOverrides, 0), 0, TRUE, TRUE, TRUE, 1)
  PROVE  LibTyped
<1>1. ~IsSet(Unset)  BY DEF IsSet
<1>2. Loaded(NoOverrides, 0) =
        [rate |-> 0, msgNo |-> 0, constant |-> << >>, chance |-> << >>,
         seed |-> 0, drawn |-> 0, nextSeed |-> RANDOM_SEED,
         set |-> NoOverrides, reported |-> 0]
  BY <1>1 DEF Loaded, LoadFlip, LoadDrop, LoadRate, LoadSeed, NoOverrides
<1> QED
  BY <1>1, <1>2, SMTT(30) DEF LibTyped, LibFields, SendErrInit, SetUserSeed, SetUserFlip,
     SetUserDrop, SetUserRate, SetRandSeed, AddStandard, AddRandom, NoOverrides

\* forkMod gives the child nextSeed and the parent the one after it.
LEMMA ForkSeeds ==
  ASSUME LibTyped
  PROVE  /\ ForkedChild(lib).seed = lib.nextSeed
         /\ LibFields \subseteq DOMAIN ForkedParent(lib)
         /\ ForkedParent(lib).set = NoOverrides
         /\ ForkedParent(lib).nextSeed = lib.nextSeed + 1
<1>1. ~IsSet(lib.set.seed)  BY DEF LibTyped, IsSet, NoOverrides
<1> QED
  BY <1>1 DEF LibTyped, LibFields, ForkedChild, ForkedParent, SetUserSeed, SetRandSeed

-----------------------------------------------------------------------------
(***************************************************************************)
(* The network: what is on its way is a bag.                               *)
(***************************************************************************)

\* One packet, once.
LEMMA OnceBag ==
  ASSUME NEW m
  PROVE  IsABag(Once(m)) /\ DOMAIN Once(m) = {m} /\ Once(m)[m] = 1
BY DEF Once, SetToBag, IsABag

\* What is sent joins what is on its way.
LEMMA SentBag ==
  ASSUME NEW B, IsABag(B), NEW C, IsABag(C)
  PROVE  /\ IsABag(B (+) C)
         /\ DOMAIN (B (+) C) = DOMAIN B \cup DOMAIN C
         /\ \A m \in DOMAIN B \ DOMAIN C : (B (+) C)[m] = B[m]
         /\ \A m \in DOMAIN C \ DOMAIN B : (B (+) C)[m] = C[m]
<1>1. /\ \A m \in DOMAIN B : B[m] \in Nat /\ B[m] > 0
      /\ \A m \in DOMAIN C : C[m] \in Nat /\ C[m] > 0
  BY DEF IsABag
<1>2. B (+) C = [m \in DOMAIN B \cup DOMAIN C |->
                  (IF m \in DOMAIN B THEN B[m] ELSE 0)
                + (IF m \in DOMAIN C THEN C[m] ELSE 0)]
  BY DEF (+)
<1>3. \A m \in DOMAIN B \cup DOMAIN C :
        (B (+) C)[m] \in Nat /\ (B (+) C)[m] > 0
  BY <1>1, <1>2
<1> QED  BY <1>1, <1>2, <1>3 DEF IsABag

\* What is received leaves it; of a packet that was there once nothing stays.
LEMMA TakenBag ==
  ASSUME NEW B, IsABag(B), NEW m \in DOMAIN B
  PROVE  /\ IsABag(B (-) Once(m))
         /\ DOMAIN (B (-) Once(m)) \subseteq DOMAIN B
         /\ \A n \in DOMAIN (B (-) Once(m)) : B[n] = 1 =>
              n # m /\ (B (-) Once(m))[n] = 1
<1> DEFINE C == [n \in DOMAIN B |-> IF n \in DOMAIN Once(m) THEN B[n] - Once(m)[n]
                                   ELSE B[n]]
<1>1. B (-) Once(m) = [n \in {d \in DOMAIN B : C[d] > 0} |-> C[n]]
  BY DEF (-)
<1>2. \A n \in DOMAIN B : C[n] = IF n = m THEN B[n] - 1 ELSE B[n]
  BY OnceBag
<1>3. \A n \in DOMAIN B : B[n] \in Nat /\ B[n] > 0  BY DEF IsABag
<1> HIDE DEF C
<1>4. \A n \in DOMAIN (B (-) Once(m)) :
        /\ n \in DOMAIN B /\ (B (-) Once(m))[n] = C[n] /\ C[n] > 0
  BY <1>1
<1>5. \A n \in DOMAIN (B (-) Once(m)) : (B (-) Once(m))[n] \in Nat
  BY <1>2, <1>3, <1>4
<1>6. \A n \in DOMAIN (B (-) Once(m)) : B[n] = 1 =>
        n # m /\ (B (-) Once(m))[n] = 1
  BY <1>2, <1>3, <1>4
<1>7. IsABag(B (-) Once(m))
  <2> DEFINE D == B (-) Once(m)
  <2>1. D = [n \in DOMAIN D |-> D[n]]  BY <1>1
  <2>2. \A n \in DOMAIN D : D[n] \in {k \in Nat : k > 0}  BY <1>4, <1>5
  <2> HIDE DEF D
  <2>3. IsABag(D)  BY <2>1, <2>2 DEF IsABag
  <2> QED  BY <2>3 DEF D
<1> QED  BY <1>4, <1>6, <1>7

\* Closing a socket leaves a part of what is on its way.
LEMMA ClosedBag ==
  ASSUME NetTyped, NEW r \in Rcopies
  PROVE  /\ IsABag(Closed(r))
         /\ DOMAIN Closed(r) = {m \in DOMAIN toRcopy : m.to # Address(r)}
BY DEF NetTyped, Closed, IsABag

\* Lost, flipped, doubled or delivered: what arrives is what was sent, or the
\* same rejected by its receiver at the price of a fault; only a duplicate
\* arrives twice.
LEMMA Fate ==
  ASSUME case \in Case, NEW m, NEW fate \in Fates(m)
  PROVE  /\ IsABag(fate.out)
         /\ fate.cost \in Nat
         /\ \A n \in DOMAIN fate.out :
              n = m \/ (n = [m EXCEPT !.flag = "CRC_ERROR"] /\ fate.cost = 1)
         /\ "dup" \notin case.faults =>
              /\ \A n \in DOMAIN fate.out : fate.out[n] = 1
              /\ \A n, o \in DOMAIN fate.out : n = o
<1> DEFINE x == [m EXCEPT !.flag = "CRC_ERROR"]
<1> HIDE DEF x
<1>1. CASE fate = [out |-> Once(m), cost |-> 0]
  <2>1. fate.out = Once(m) /\ fate.cost = 0  BY <1>1
  <2>2. IsABag(fate.out) /\ DOMAIN fate.out = {m} /\ fate.out[m] = 1
    BY <2>1, OnceBag
  <2> QED  BY <2>1, <2>2
<1>2. ASSUME NEW f \in case.faults \cap {"drop", "flip", "dup"},
             fate = [out |-> CASE f = "drop" -> EmptyBag
                               [] f = "flip" -> Once(x)
                               [] f = "dup"  -> Once(m) (+) Once(m),
                     cost |-> 1]
      PROVE  /\ IsABag(fate.out)
             /\ fate.cost \in Nat
             /\ \A n \in DOMAIN fate.out : n = m \/ (n = x /\ fate.cost = 1)
             /\ "dup" \notin case.faults =>
                  /\ \A n \in DOMAIN fate.out : fate.out[n] = 1
                  /\ \A n, o \in DOMAIN fate.out : n = o
  <2>1. CASE f = "drop"
    <3>1. fate.out = EmptyBag /\ fate.cost = 1  BY <1>2, <2>1
    <3>2. IsABag(EmptyBag) /\ DOMAIN EmptyBag = {}  BY DEF EmptyBag, SetToBag, IsABag
    <3> QED  BY <3>1, <3>2
  <2>2. CASE f = "flip"
    <3>1. fate.out = Once(x) /\ fate.cost = 1  BY <1>2, <2>2
    <3>2. IsABag(fate.out) /\ DOMAIN fate.out = {x} /\ fate.out[x] = 1
      BY <3>1, OnceBag
    <3> QED  BY <3>1, <3>2
  <2>3. CASE f = "dup"
    <3>1. fate.out = Once(m) (+) Once(m) /\ fate.cost = 1  BY <1>2, <2>3
    <3>2. IsABag(Once(m)) /\ DOMAIN Once(m) = {m}  BY OnceBag
    <3>3. IsABag(Once(m) (+) Once(m)) /\ DOMAIN (Once(m) (+) Once(m)) = {m}
      BY <3>2, SentBag
    <3>4. "dup" \in case.faults  BY <1>2, <2>3
    <3> QED  BY <3>1, <3>3, <3>4
  <2> QED  BY <1>2, <2>1, <2>2, <2>3
<1> QED  BY <1>1, <1>2 DEF Fates, x

-----------------------------------------------------------------------------
(***************************************************************************)
(* The rcopies: their steps keep NetInv.                                   *)
(***************************************************************************)

\* One round more is MAX_TRIES + 1 requests more.
LEMMA RoundsGrow ==
  ASSUME NEW a \in Int, NEW b \in Int, a <= b
  PROVE  /\ Rounds(a) \in Int /\ Rounds(a) <= Rounds(b)
         /\ Rounds(a + 1) = Rounds(a) + MaxTries + 1
<1> DEFINE k == MaxTries + 1
<1>1. k \in Nat  BY ConnectAssumption
<1> HIDE DEF k
<1>2. k * a \in Int /\ k * (a + 1) = k * a + k /\ k * (b - a) = k * b - k * a
  BY <1>1
<1>3. k * (b - a) >= 0  BY <1>1
<1>4. k * a <= k * b  BY <1>1, <1>2, <1>3
<1> QED  BY <1>1, <1>2, <1>4, ConnectAssumption DEF Rounds, k

\* What a budget allows it allows when more faults have been counted and fewer
\* packets are under way.
LEMMA AskedStays ==
  ASSUME NetTyped, NEW q \in Rcopies, Asked(q), rcopy'[q] = rcopy[q],
         faults' \in Nat, faults' >= faults, Rejected(q)' => Rejected(q)
  PROVE  Asked(q)'
<1>1. rcopy[q] \in RcopyType /\ faults \in Nat  BY DEF NetTyped
<1>2. rcopy[q].socket \in Nat /\ rcopy[q].retryCnt \in Nat  BY <1>1 DEF RcopyType
<1>3. Spent(q) \in Int /\ Spent(q)' \in Int /\ Spent(q) <= Spent(q)'
  <2>1. CASE Rejected(q)
    <3>1. Spent(q) = faults - 1  BY <2>1 DEF Spent
    <3>2. Spent(q)' \in {faults' - 1, faults'}  BY DEF Spent
    <3> QED  BY <1>1, <3>1, <3>2
  <2>2. CASE ~Rejected(q)
    <3>1. Spent(q) = faults  BY <2>2 DEF Spent
    <3>2. Spent(q)' = faults'  BY <2>2 DEF Spent
    <3> QED  BY <1>1, <3>1, <3>2
  <2> QED  BY <2>1, <2>2
<1>4. /\ Rounds(faults) \in Int /\ Rounds(faults') \in Int
      /\ Rounds(faults) <= Rounds(faults')
      /\ Rounds(Spent(q)) \in Int /\ Rounds(Spent(q)') \in Int
      /\ Rounds(Spent(q)) <= Rounds(Spent(q)')
  BY <1>1, <1>3, RoundsGrow
<1>5. Rounds(Spent(q))' = Rounds(Spent(q)')  BY DEF Rounds
<1>6. Rounds(faults)' = Rounds(faults')  BY DEF Rounds
<1> QED  BY <1>2, <1>4, <1>5, <1>6, ConnectAssumption DEF Asked

\* A step of r leaves the others what they had.
LEMMA RcopyKeeps ==
  ASSUME NetInv, ChildrenTyped, NEW r \in Rcopies, NEW c \in RcopyType,
         rcopy' = [rcopy EXCEPT ![r] = c],
         c.socket >= rcopy[r].socket,
         c.remote # ServerPort =>
           c.remote \in Children /\ child[c.remote].client = <<r, c.socket>>,
         UNCHANGED <<case, child>>,
         faults' \in Nat, faults' >= faults,
         IsABag(toServer'), DOMAIN toServer' \subseteq Request,
         \A m \in DOMAIN toServer' :
           m \in DOMAIN toServer \/ m.from = <<r, c.socket>>,
         IsABag(toRcopy'), DOMAIN toRcopy' \subseteq DOMAIN toRcopy
  PROVE  /\ NetTyped' /\ Addressed'
         /\ \A q \in Rcopies \ {r} : Asked(q)'
         /\ rcopy'[r] = c
<1> USE DEF NetInv
<1>1. NetTyped'  BY DEF NetTyped
<1>2. rcopy'[r] = c /\ \A q \in Rcopies \ {r} : rcopy'[q] = rcopy[q]
  BY DEF NetTyped
<1>3. \A q \in Rcopies : rcopy[q].socket \in Nat /\ rcopy'[q].socket \in Nat
  BY <1>1 DEF NetTyped, RcopyType
<1>4. \A q \in Rcopies : rcopy[q].socket <= rcopy'[q].socket
  BY <1>2, <1>3
<1>5. Addressed'
  <2>1. \A m \in DOMAIN toServer' : m.from[2] <= rcopy'[m.from[1]].socket
    <3> SUFFICES ASSUME NEW m \in DOMAIN toServer'
                 PROVE  m.from[2] <= rcopy'[m.from[1]].socket
      OBVIOUS
    <3>1. m \in Request  OBVIOUS
    <3>2. m.from[1] \in Rcopies /\ m.from[2] \in Nat  BY <3>1 DEF Request
    <3>3. CASE m \in DOMAIN toServer
      BY <3>2, <3>3, <1>3, <1>4 DEF Addressed
    <3>4. CASE m.from = <<r, c.socket>>
      BY <3>4, <1>2, <1>3
    <3> QED  BY <3>3, <3>4
  <2>2. \A k \in Children' : child'[k].client[2] <= rcopy'[child'[k].client[1]].socket
    <3> SUFFICES ASSUME NEW k \in Children
                 PROVE  child[k].client[2] <= rcopy'[child[k].client[1]].socket
      BY DEF Children
    <3>1. child[k] \in ChildType  BY DEF ChildrenTyped, Children
    <3>2. child[k].client[1] \in Rcopies /\ child[k].client[2] \in Nat
      BY <3>1 DEF ChildType
    <3> QED  BY <3>2, <1>3, <1>4 DEF Addressed
  <2>3. \A m \in DOMAIN toRcopy' : m.from \in Children' /\ m.to = child'[m.from].client
    BY DEF Addressed, Children
  <2>4. ASSUME NEW q \in Rcopies, rcopy'[q].remote # ServerPort
        PROVE  /\ rcopy'[q].remote \in Children'
               /\ child'[rcopy'[q].remote].client = <<q, rcopy'[q].socket>>
    <3>1. CASE q = r  BY <3>1, <2>4, <1>2 DEF Children
    <3>2. CASE q # r  BY <3>2, <2>4, <1>2 DEF Addressed, Children, Address
    <3> QED  BY <3>1, <3>2
  <2> QED  BY <2>1, <2>2, <2>3, <2>4 DEF Addressed, Address
<1>6. ASSUME NEW q \in Rcopies \ {r} PROVE Asked(q)'
  <2>1. Rejected(q)' => Rejected(q)  BY <1>2 DEF Rejected, Address
  <2> QED  BY <2>1, <1>2, AskedStays
<1> QED  BY <1>1, <1>2, <1>5, <1>6

\* A step of r that sends no request: only its own budget is left to show.
LEMMA RcopyQuiet ==
  ASSUME NetInv, ChildrenTyped, NEW r \in Rcopies, NEW c \in RcopyType,
         rcopy' = [rcopy EXCEPT ![r] = c],
         c.socket >= rcopy[r].socket,
         c.remote # ServerPort =>
           c.remote \in Children /\ child[c.remote].client = <<r, c.socket>>,
         UNCHANGED <<case, child, toServer>>,
         faults' \in Nat, faults' >= faults,
         IsABag(toRcopy'), DOMAIN toRcopy' \subseteq DOMAIN toRcopy,
         \/ Asked(r)'
         \/ /\ c.state \notin {"START", "FNAME_RECV"}
            /\ c.socket <= Rounds(faults) + MaxTries + 1
  PROVE  NetInv'
<1>1. /\ NetTyped' /\ Addressed'
      /\ \A q \in Rcopies \ {r} : Asked(q)'
      /\ rcopy'[r] = c
  <2>1. IsABag(toServer) /\ DOMAIN toServer \subseteq Request
    BY DEF NetInv, NetTyped
  <2>2. IsABag(toServer') /\ DOMAIN toServer' \subseteq Request
    BY <2>1
  <2>3. \A m \in DOMAIN toServer' : m \in DOMAIN toServer \/ m.from = <<r, c.socket>>
    OBVIOUS
  <2> QED  BY <2>2, <2>3, RcopyKeeps
<1>2. RequestsApart'  BY DEF NetInv, RequestsApart, Children
<1>3. Asked(r)'
  <2>1. CASE c.state \notin {"START", "FNAME_RECV"}
             /\ c.socket <= Rounds(faults) + MaxTries + 1
    <3>1. faults \in Nat /\ c.socket \in Nat  BY DEF NetInv, NetTyped, RcopyType
    <3>2. Rounds(faults) <= Rounds(faults') /\ Rounds(faults) \in Int
          /\ Rounds(faults') \in Int
      BY <3>1, RoundsGrow
    <3>3. c.socket <= Rounds(faults') + MaxTries + 1
      BY <2>1, <3>1, <3>2, ConnectAssumption
    <3>4. Rounds(faults)' = Rounds(faults')  BY DEF Rounds
    <3> QED  BY <1>1, <2>1, <3>3, <3>4 DEF Asked
  <2> QED  BY <2>1
<1> QED  BY <1>1, <1>2, <1>3 DEF NetInv

\* Nothing is known yet of the socket that the next attempt will open.
LEMMA FreshSocket ==
  ASSUME NetInv, ChildrenTyped, NEW r \in Rcopies
  PROVE  /\ NewSocket(r) \in Nat
         /\ \A k \in Children : child[k].client # <<r, NewSocket(r)>>
         /\ \A m \in DOMAIN toServer : m.from # <<r, NewSocket(r)>>
         /\ \A m \in DOMAIN toRcopy : m.to # <<r, NewSocket(r)>>
<1>1. rcopy[r].socket \in Nat /\ NewSocket(r) = rcopy[r].socket + 1
  BY DEF NetInv, NetTyped, RcopyType, NewSocket
<1>2. ASSUME NEW k \in Children PROVE child[k].client # <<r, NewSocket(r)>>
  <2>1. child[k].client[2] <= rcopy[child[k].client[1]].socket
    BY DEF NetInv, Addressed
  <2> QED  BY <1>1, <2>1
<1>3. ASSUME NEW m \in DOMAIN toServer PROVE m.from # <<r, NewSocket(r)>>
  <2>1. m.from[2] <= rcopy[m.from[1]].socket  BY DEF NetInv, Addressed
  <2> QED  BY <1>1, <2>1
<1>4. ASSUME NEW m \in DOMAIN toRcopy PROVE m.to # <<r, NewSocket(r)>>
  BY <1>2 DEF NetInv, Addressed
<1> QED  BY <1>1, <1>2, <1>3, <1>4

\* A request leaves from a socket that nobody has heard of.
LEMMA StartStep ==
  ASSUME NetInv, ChildrenTyped, NEW r \in Rcopies, StartState(r)
  PROVE  NetInv'
<1> DEFINE c == [rcopy[r] EXCEPT !.state = "FNAME_RECV", !.socket = NewSocket(r),
                                !.remote = ServerPort]
           m == [flag |-> "FNAME", from |-> <<r, NewSocket(r)>>,
                 len |-> WIN_BUFF_LEN + case.length[r]]
           x == [m EXCEPT !.flag = "CRC_ERROR"]
<1>1. NetTyped /\ rcopy[r] \in RcopyType  BY DEF NetInv, NetTyped
<1>2. c \in RcopyType /\ rcopy' = [rcopy EXCEPT ![r] = c]
      /\ c.socket = NewSocket(r) /\ c.socket = rcopy[r].socket + 1
      /\ c.remote = ServerPort /\ c.state = "FNAME_RECV"
      /\ c.retryCnt = rcopy[r].retryCnt
  BY <1>1, FreshSocket DEF StartState, RcopyType, ServerPort, NewSocket
<1>3. PICK fate \in Fates(m) :
        toServer' = toServer (+) fate.out /\ Spend(fate.cost)
  BY DEF StartState
<1>4. /\ m \in Request /\ x \in Request /\ m.from = <<r, NewSocket(r)>>
      /\ x.from = <<r, NewSocket(r)>>
  <2>1. case.length[r] \in Nat  BY <1>1 DEF NetTyped, Case
  <2>2. WIN_BUFF_LEN + case.length[r] \in Nat  BY <2>1 DEF WIN_BUFF_LEN
  <2> QED  BY <2>2, FreshSocket DEF Request
<1> HIDE DEF c, m, x
<1>5. /\ IsABag(fate.out) /\ fate.cost \in Nat
      /\ \A n \in DOMAIN fate.out : n \in {m, x}
      /\ "dup" \notin case.faults =>
           /\ \A n \in DOMAIN fate.out : fate.out[n] = 1
           /\ \A n, o \in DOMAIN fate.out : n = o
  BY <1>1, <1>3, Fate DEF x, NetTyped
<1>6. IsABag(toServer) /\ DOMAIN toServer \subseteq Request /\ faults \in Nat
  BY <1>1 DEF NetTyped
<1>7. /\ IsABag(toServer') /\ DOMAIN toServer' = DOMAIN toServer \cup DOMAIN fate.out
      /\ \A n \in DOMAIN toServer \ DOMAIN fate.out : toServer'[n] = toServer[n]
      /\ \A n \in DOMAIN fate.out \ DOMAIN toServer : toServer'[n] = fate.out[n]
  BY <1>3, <1>5, <1>6, SentBag
<1>8. DOMAIN toServer' \subseteq Request
      /\ \A n \in DOMAIN toServer' : n \in DOMAIN toServer \/ n.from = <<r, c.socket>>
  BY <1>2, <1>4, <1>5, <1>6, <1>7
<1>9. faults' \in Nat /\ faults' >= faults  BY <1>3, <1>5, <1>6 DEF Spend
<1>10. IsABag(toRcopy') /\ DOMAIN toRcopy' \subseteq DOMAIN toRcopy
  BY <1>1, ClosedBag DEF StartState
<1>11. UNCHANGED <<case, child>>  BY DEF StartState, serverVars
<1>12. /\ NetTyped' /\ Addressed'
       /\ \A q \in Rcopies \ {r} : Asked(q)'
       /\ rcopy'[r] = c
  <2>1. c.socket >= rcopy[r].socket  BY <1>1, <1>2 DEF RcopyType
  <2> QED  BY <1>2, <1>7, <1>8, <1>9, <1>10, <1>11, <2>1, RcopyKeeps
<1>13. RequestsApart'
  <2> SUFFICES ASSUME "dup" \notin case.faults
               PROVE  /\ \A n \in DOMAIN toServer' :
                           /\ toServer'[n] = 1
                           /\ \A k \in Children : child[k].client # n.from
                      /\ \A n, o \in DOMAIN toServer' : n.from = o.from => n = o
                      /\ \A k, l \in Children : child[k].client = child[l].client => k = l
    BY <1>11 DEF RequestsApart, Children
  <2>1. /\ \A n \in DOMAIN toServer :
             /\ toServer[n] = 1 /\ n.from # <<r, NewSocket(r)>>
             /\ \A k \in Children : child[k].client # n.from
        /\ \A n, o \in DOMAIN toServer : n.from = o.from => n = o
        /\ \A k, l \in Children : child[k].client = child[l].client => k = l
    BY FreshSocket DEF NetInv, RequestsApart
  <2>2. \A n \in DOMAIN fate.out : n.from = <<r, NewSocket(r)>> /\ fate.out[n] = 1
    BY <1>4, <1>5
  <2>3. \A k \in Children : child[k].client # <<r, NewSocket(r)>>  BY FreshSocket
  <2>4. \A n \in DOMAIN toServer' :
          toServer'[n] = 1 /\ \A k \in Children : child[k].client # n.from
    BY <1>7, <2>1, <2>2, <2>3
  <2>5. \A n, o \in DOMAIN toServer' : n.from = o.from => n = o
    BY <1>5, <1>7, <2>1, <2>2
  <2> QED  BY <2>1, <2>4, <2>5
<1>14. Asked(r)'
  <2>1. ~Rejected(r)'
    <3> SUFFICES ASSUME NEW n \in DOMAIN toRcopy', n.to = <<r, rcopy'[r].socket>>
                 PROVE  FALSE
      BY DEF Rejected, Address
    <3> QED  BY <1>2, <1>10, <1>12, FreshSocket
  <2>2. Spent(r)' = faults'  BY <2>1 DEF Spent
  <2>3. /\ rcopy[r].retryCnt \in Nat /\ rcopy[r].socket \in Nat
        /\ rcopy[r].retryCnt <= MaxTries
        /\ rcopy[r].socket <= Rounds(faults) + rcopy[r].retryCnt
    BY <1>1 DEF StartState, NetInv, Asked, RcopyType
  <2>4. Rounds(faults) \in Int /\ Rounds(faults') \in Int
        /\ Rounds(faults) <= Rounds(faults')
    BY <1>6, <1>9, RoundsGrow
  <2>5. Rounds(faults)' = Rounds(faults') /\ Rounds(Spent(r))' = Rounds(faults')
    BY <2>2 DEF Rounds
  <2>6. /\ rcopy'[r].retryCnt <= MaxTries
        /\ rcopy'[r].socket <= Rounds(faults') + rcopy'[r].retryCnt + 1
        /\ rcopy'[r].socket <= Rounds(faults') + MaxTries + 1
    BY <1>2, <1>12, <2>3, <2>4, ConnectAssumption
  <2>7. rcopy'[r].state = "FNAME_RECV"  BY <1>2, <1>12
  <2> QED  BY <2>5, <2>6, <2>7 DEF Asked
<1> QED  BY <1>12, <1>13, <1>14 DEF NetInv

\* A packet taken from the socket comes from the child that serves it.
LEMMA TakeStep ==
  ASSUME NetInv, ChildrenTyped, NEW r \in Rcopies, NEW m \in Received(r),
         NEW state \in {"START", "FILE_OK", "RECV_DATA", "DONE"},
         state = "START" => /\ m.flag = "CRC_ERROR"
                            /\ rcopy[r].state = "FNAME_RECV",
         Take(r, m, state), UNCHANGED <<case, child, toServer, faults>>
  PROVE  NetInv'
<1> DEFINE c == [rcopy[r] EXCEPT !.state = state, !.retryCnt = 0, !.remote = m.from]
<1>1. /\ NetTyped /\ rcopy[r] \in RcopyType /\ m \in DOMAIN toRcopy
      /\ m \in Packet /\ m.to = Address(r) /\ faults \in Nat
  BY DEF NetInv, NetTyped, Received
<1>2. /\ c \in RcopyType /\ rcopy' = [rcopy EXCEPT ![r] = c]
      /\ c.state = state /\ c.retryCnt = 0 /\ c.remote = m.from
      /\ c.socket = rcopy[r].socket /\ c.socket \in Nat
  BY <1>1 DEF Take, RcopyType, Packet
<1> HIDE DEF c
<1>3. c.remote \in Children /\ child[c.remote].client = <<r, c.socket>>
  BY <1>1, <1>2 DEF NetInv, Addressed, Address
<1>4. IsABag(toRcopy') /\ DOMAIN toRcopy' \subseteq DOMAIN toRcopy
  BY <1>1, TakenBag DEF NetTyped, Take
<1>5. rcopy[r].socket <= Rounds(faults) + MaxTries + 1
  BY DEF NetInv, Asked
<1>8. /\ faults' \in Nat /\ faults' >= faults /\ c.socket >= rcopy[r].socket
      /\ c.socket <= Rounds(faults) + MaxTries + 1
  BY <1>1, <1>2, <1>5
<1>6. CASE state = "START"
  <2>1. Rejected(r)  BY <1>1, <1>6 DEF Rejected
  <2>2. /\ rcopy[r].socket <= Rounds(faults - 1) + rcopy[r].retryCnt + 1
        /\ rcopy[r].retryCnt <= MaxTries
    BY <1>6, <2>1 DEF NetInv, Asked, Spent
  <2>3. rcopy[r].retryCnt \in Nat  BY <1>1 DEF RcopyType
  <2>4. Rounds(faults - 1) \in Int
        /\ Rounds(faults - 1 + 1) = Rounds(faults - 1) + MaxTries + 1
    BY <1>1, RoundsGrow
  <2>5. rcopy[r].socket <= Rounds(faults)
    <3>1. faults - 1 + 1 = faults  BY <1>1
    <3> QED  BY <1>1, <1>2, <2>2, <2>3, <2>4, <3>1, ConnectAssumption
  <2>6. rcopy'[r] = c  BY <1>1, <1>2 DEF NetTyped
  <2>7. Rounds(faults) \in Int /\ Rounds(faults)' = Rounds(faults)
    BY <1>1, RoundsGrow DEF Rounds
  <2>8. Asked(r)'
    BY <1>1, <1>2, <1>6, <2>5, <2>6, <2>7, ConnectAssumption DEF Asked
  <2> QED  BY <1>2, <1>3, <1>4, <1>8, <2>8, RcopyQuiet
<1>7. CASE state # "START"
  <2>1. c.state \notin {"START", "FNAME_RECV"}  BY <1>2, <1>7
  <2> QED  BY <1>2, <1>3, <1>4, <1>8, <2>1, RcopyQuiet
<1> QED  BY <1>6, <1>7

\* A step of r that changes its state, its counter, the time and nothing else.
LEMMA MovesStep ==
  ASSUME NetInv, ChildrenTyped, NEW r \in Rcopies, NEW c \in RcopyType,
         rcopy' = [rcopy EXCEPT ![r] = c],
         c.socket = rcopy[r].socket, c.remote = rcopy[r].remote,
         UNCHANGED <<case, child, toServer>>,
         faults' \in Nat, faults' >= faults,
         toRcopy' = toRcopy \/ toRcopy' = Closed(r),
         \/ c.state \notin {"START", "FNAME_RECV"}
         \/ /\ rcopy[r].state = "FNAME_RECV" /\ c.state = "START"
            /\ rcopy[r].retryCnt < MaxTries
            /\ c.retryCnt = rcopy[r].retryCnt + 1
  PROVE  NetInv'
<1>1. /\ NetTyped /\ rcopy[r] \in RcopyType /\ c.socket \in Nat /\ faults \in Nat
  BY DEF NetInv, NetTyped, RcopyType
<1>2. c.remote # ServerPort =>
        c.remote \in Children /\ child[c.remote].client = <<r, c.socket>>
  BY DEF NetInv, Addressed, Address
<1>3. IsABag(toRcopy') /\ DOMAIN toRcopy' \subseteq DOMAIN toRcopy
  <2>1. CASE toRcopy' = toRcopy  BY <1>1, <2>1 DEF NetTyped
  <2>2. CASE toRcopy' = Closed(r)  BY <1>1, <2>2, ClosedBag
  <2> QED  BY <2>1, <2>2
<1>4. c.socket <= Rounds(faults) + MaxTries + 1 /\ c.socket >= rcopy[r].socket
  BY <1>1 DEF NetInv, Asked
<1>5. CASE c.state \notin {"START", "FNAME_RECV"}
  BY <1>2, <1>3, <1>4, <1>5, RcopyQuiet
<1>6. CASE /\ rcopy[r].state = "FNAME_RECV" /\ c.state = "START"
           /\ rcopy[r].retryCnt < MaxTries
           /\ c.retryCnt = rcopy[r].retryCnt + 1
  <2>1. rcopy'[r] = c /\ rcopy[r].retryCnt \in Nat
    BY <1>1 DEF NetTyped, RcopyType
  <2>2. Spent(r) \in Int /\ Spent(r) <= faults /\ faults <= faults'
    BY <1>1 DEF Spent
  <2>3. /\ Rounds(Spent(r)) \in Int /\ Rounds(faults) \in Int /\ Rounds(faults') \in Int
        /\ Rounds(Spent(r)) <= Rounds(faults) /\ Rounds(faults) <= Rounds(faults')
    BY <1>1, <2>2, RoundsGrow
  <2>4. c.socket <= Rounds(Spent(r)) + rcopy[r].retryCnt + 1
    BY <1>6 DEF NetInv, Asked
  <2>5. /\ c.retryCnt <= MaxTries
        /\ c.socket <= Rounds(faults') + c.retryCnt
        /\ c.socket <= Rounds(faults') + MaxTries + 1
    BY <1>1, <1>4, <1>6, <2>1, <2>3, <2>4, ConnectAssumption
  <2>6. Rounds(faults)' = Rounds(faults')  BY DEF Rounds
  <2>7. Asked(r)'  BY <1>6, <2>1, <2>5, <2>6 DEF Asked
  <2> QED  BY <1>2, <1>3, <1>4, <2>7, RcopyQuiet
<1> QED  BY <1>5, <1>6

\* Every state of rcopy's machine keeps NetInv and leaves the server alone.
LEMMA RcopyStep ==
  ASSUME NetInv, ChildrenTyped, NEW r \in Rcopies, Rcopy(r)
  PROVE  NetInv' /\ UNCHANGED serverVars
<1>1. NetTyped /\ rcopy[r] \in RcopyType /\ faults \in Nat  BY DEF NetInv, NetTyped
<1>2. UNCHANGED serverVars
  BY DEF Rcopy, NameTooLong, StartState, StartUnresolved, FnameRecv, FnameTimeout,
     FnameGivesUp, FileOk, RecvData, TransferEnds
<1>3. UNCHANGED <<case, child>>
  BY <1>2 DEF Rcopy, NameTooLong, StartState, StartUnresolved, FnameRecv,
     FnameTimeout, FnameGivesUp, FileOk, RecvData, TransferEnds, serverVars
<1>4. \A state \in {"START", "FNAME_RECV", "FILE_OK", "RECV_DATA", "DONE"} :
        \A n \in Nat :
          LET c == [rcopy[r] EXCEPT !.state = state, !.retryCnt = n]
          IN  /\ c \in RcopyType /\ c.state = state /\ c.retryCnt = n
              /\ c.socket = rcopy[r].socket /\ c.remote = rcopy[r].remote
  BY <1>1 DEF RcopyType
<1>5. \A state \in {"START", "FNAME_RECV", "FILE_OK", "RECV_DATA", "DONE"} :
        LET c == [rcopy[r] EXCEPT !.state = state]
        IN  /\ c \in RcopyType /\ c.state = state
            /\ c.socket = rcopy[r].socket /\ c.remote = rcopy[r].remote
  BY <1>1 DEF RcopyType
<1>6. faults \in Nat /\ faults >= faults  BY <1>1
<1>7. ASSUME NEW n \in Nat, Spend(n) PROVE faults' \in Nat /\ faults' >= faults
  BY <1>1, <1>7 DEF Spend
<1>8. CASE NameTooLong(r)
  <2>1. rcopy' = [rcopy EXCEPT ![r] = [rcopy[r] EXCEPT !.state = "DONE"]]
        /\ UNCHANGED <<toServer, toRcopy, faults>>
    BY <1>8 DEF NameTooLong
  <2> QED  BY <1>2, <1>3, <1>5, <1>6, <2>1, MovesStep
<1>9. CASE StartState(r)  BY <1>2, <1>9, StartStep
<1>10. CASE StartUnresolved(r)
  <2> DEFINE c == [rcopy[r] EXCEPT !.state = "DONE", !.socket = NewSocket(r),
                                  !.remote = ServerPort]
  <2>1. c \in RcopyType /\ c.state = "DONE" /\ c.remote = ServerPort
        /\ c.socket = rcopy[r].socket + 1 /\ rcopy[r].socket \in Nat
        /\ rcopy[r].retryCnt \in Nat
    BY <1>1, FreshSocket DEF RcopyType, ServerPort, NewSocket
  <2>2. rcopy' = [rcopy EXCEPT ![r] = c] /\ Spend(1) /\ toRcopy' = Closed(r)
        /\ UNCHANGED toServer
    BY <1>10 DEF StartUnresolved
  <2> HIDE DEF c
  <2>3. faults' \in Nat /\ faults' >= faults  BY <2>2, <1>7
  <2>4. c.socket <= Rounds(faults) + MaxTries + 1
    <3>1. rcopy[r].retryCnt <= MaxTries
          /\ rcopy[r].socket <= Rounds(faults) + rcopy[r].retryCnt
      BY <1>10 DEF StartUnresolved, NetInv, Asked
    <3>2. Rounds(faults) \in Int  BY <1>1, RoundsGrow
    <3> QED  BY <2>1, <3>1, <3>2, ConnectAssumption
  <2>5. IsABag(toRcopy') /\ DOMAIN toRcopy' \subseteq DOMAIN toRcopy
    BY <1>1, <2>2, ClosedBag
  <2>6. c.socket >= rcopy[r].socket /\ c.state \notin {"START", "FNAME_RECV"}
    BY <2>1
  <2> QED  BY <1>2, <1>3, <2>1, <2>2, <2>3, <2>4, <2>5, <2>6, RcopyQuiet
<1>11. CASE FnameRecv(r)
  <2>1. PICK m \in Received(r) : Take(r, m, AfterAnswer(m.flag))
    BY <1>11 DEF FnameRecv
  <2>2. AfterAnswer(m.flag) \in {"START", "FILE_OK", "RECV_DATA", "DONE"}
        /\ (AfterAnswer(m.flag) = "START" => m.flag = "CRC_ERROR")
    BY DEF AfterAnswer
  <2>3. UNCHANGED <<toServer, faults>> /\ rcopy[r].state = "FNAME_RECV"
    BY <1>11 DEF FnameRecv
  <2> QED  BY <1>2, <1>3, <2>1, <2>2, <2>3, TakeStep
<1>12. CASE FnameTimeout(r)
  <2> DEFINE c == [rcopy[r] EXCEPT !.state = "START", !.retryCnt = Tried(r)]
  <2>1. Tried(r) = rcopy[r].retryCnt + 1 /\ Tried(r) \in Nat
    BY <1>1 DEF Tried, RcopyType
  <2>2. rcopy' = [rcopy EXCEPT ![r] = c] /\ UNCHANGED <<toServer, toRcopy, faults>>
    BY <1>12 DEF FnameTimeout
  <2>3. c \in RcopyType /\ c.state = "START" /\ c.retryCnt = Tried(r)
        /\ c.socket = rcopy[r].socket /\ c.remote = rcopy[r].remote
    BY <1>4, <2>1, ZenonT(60)
  <2>4. rcopy[r].state = "FNAME_RECV" /\ rcopy[r].retryCnt < MaxTries
    BY <1>12 DEF FnameTimeout
  <2> HIDE DEF c
  <2> QED  BY <1>2, <1>3, <1>6, <2>1, <2>2, <2>3, <2>4, MovesStep
<1>13. CASE FnameGivesUp(r)
  <2> DEFINE c == [rcopy[r] EXCEPT !.state = "DONE", !.retryCnt = Tried(r)]
  <2>1. Tried(r) \in Nat  BY <1>1 DEF Tried, RcopyType
  <2>2. rcopy' = [rcopy EXCEPT ![r] = c] /\ toRcopy' = Closed(r)
        /\ UNCHANGED <<toServer, faults>>
    BY <1>13 DEF FnameGivesUp
  <2>3. c \in RcopyType /\ c.state = "DONE"
        /\ c.socket = rcopy[r].socket /\ c.remote = rcopy[r].remote
    BY <1>4, <2>1
  <2> HIDE DEF c
  <2> QED  BY <1>2, <1>3, <1>6, <2>2, <2>3, MovesStep
<1>14. CASE FileOk(r)
  <2>1. PICK state \in {"RECV_DATA", "DONE"} :
          rcopy' = [rcopy EXCEPT ![r] = [rcopy[r] EXCEPT !.state = state]]
    BY <1>14 DEF FileOk
  <2>2. UNCHANGED <<toServer, toRcopy>>  BY <1>14 DEF FileOk
  <2>3. faults' \in Nat /\ faults' >= faults  BY <1>6, <1>7, <1>14 DEF FileOk
  <2> QED  BY <1>2, <1>3, <1>5, <2>1, <2>2, <2>3, MovesStep
<1>15. CASE RecvData(r)
  <2>1. PICK m \in Received(r), state \in {"RECV_DATA", "DONE"} : Take(r, m, state)
    BY <1>15 DEF RecvData
  <2>2. UNCHANGED <<toServer, faults>>  BY <1>15 DEF RecvData
  <2> QED  BY <1>2, <1>3, <2>1, <2>2, TakeStep
<1>16. CASE TransferEnds(r)
  <2>1. rcopy' = [rcopy EXCEPT ![r] = [rcopy[r] EXCEPT !.state = "DONE"]]
        /\ toRcopy' = Closed(r) /\ UNCHANGED <<toServer, faults>>
    BY <1>16 DEF TransferEnds
  <2> QED  BY <1>2, <1>3, <1>5, <1>6, <2>1, MovesStep
<1> QED
  BY <1>8, <1>9, <1>10, <1>11, <1>12, <1>13, <1>14, <1>15, <1>16 DEF Rcopy

-----------------------------------------------------------------------------
(***************************************************************************)
(* The server process and its children keep ServerInv.                     *)
(***************************************************************************)

\* A change of pc, or of sent, leaves a child its seed.
LEMMA ChildMoves ==
  ASSUME ServerInv, NEW k \in Children, NEW c \in ChildType,
         c.seed = child[k].seed, child' = [child EXCEPT ![k] = c],
         UNCHANGED lib
  PROVE  /\ child' \in Seq(ChildType)
         /\ SeedsBelow' /\ ChildSeedsDistinct'
         /\ Children' = Children
         /\ \A l \in Children : child'[l] = IF l = k THEN c ELSE child[l]
<1> USE DEF ServerInv, ChildrenTyped
<1>1. child' \in Seq(ChildType) /\ Len(child') = Len(child)
  BY ExceptSeq DEF Children
<1>2. Children = 1 .. Len(child) /\ Children' = 1 .. Len(child')
  BY <1>1 DEF Children
<1>3. \A l \in Children : child'[l] = IF l = k THEN c ELSE child[l]
  BY <1>2 DEF Children
<1>4. \A l \in Children : child'[l].seed = child[l].seed
  BY <1>3
<1> QED
  BY <1>1, <1>2, <1>3, <1>4 DEF SeedsBelow, ChildSeedsDistinct

\* Every child that exits leaves a signal that somebody has still to handle.
LEMMA ExitsStep ==
  ASSUME ServerInv, NEW k \in Children, Exits(k), UNCHANGED lib
  PROVE  ServerInv'
<1> DEFINE c == [child[k] EXCEPT !.pc = "zombie"]
<1>1. child[k] \in ChildType  BY DEF ServerInv, ChildrenTyped, Children
<1>2. c \in ChildType /\ c.seed = child[k].seed  BY <1>1 DEF ChildType
<1>3. child' = [child EXCEPT ![k] = c]  BY DEF Exits
<1>4. sigchld' \in {"pending", "reaping"}
  BY DEF Exits, ServerInv, ChildrenTyped
<1>5. LibTyped'  BY DEF ServerInv, LibTyped
<1>6. child' \in Seq(ChildType) /\ SeedsBelow' /\ ChildSeedsDistinct'
  BY <1>2, <1>3, ChildMoves
<1> QED
  BY <1>4, <1>5, <1>6 DEF ServerInv, ChildrenTyped, ZombiesNoticed

\* A child that stays alive makes no zombie.
LEMMA LivesOnStep ==
  ASSUME ServerInv, NEW k \in Children, NEW c \in ChildType,
         c.seed = child[k].seed, c.pc # "zombie",
         child' = [child EXCEPT ![k] = c], UNCHANGED <<lib, sigchld>>
  PROVE  ServerInv'
<1>1. /\ child' \in Seq(ChildType) /\ SeedsBelow' /\ ChildSeedsDistinct'
      /\ Children' = Children
      /\ \A l \in Children : child'[l] = IF l = k THEN c ELSE child[l]
  BY ChildMoves
<1>2. Zombies' \subseteq Zombies  BY <1>1 DEF Zombies
<1>3. ZombiesNoticed'  BY <1>2 DEF ServerInv, ZombiesNoticed
<1> QED
  BY <1>1, <1>3 DEF ServerInv, LibTyped, ChildrenTyped

\* A child serves, or exits: either way the invariant stays.
LEMMA ChildStep ==
  ASSUME ServerInv, NEW k \in Children, Child(k)
  PROVE  ServerInv'
<1>1. child[k] \in ChildType  BY DEF ServerInv, ChildrenTyped, Children
<1>2. CASE FilenameTooLong(k)  BY <1>2, ExitsStep DEF FilenameTooLong
<1>3. CASE FilenameMissing(k)  BY <1>3, ExitsStep DEF FilenameMissing
<1>4. CASE FilenameFound(k)
  <2> DEFINE c == [child[k] EXCEPT !.pc = "serving"]
  <2>1. c \in ChildType /\ c.seed = child[k].seed /\ c.pc # "zombie"
    BY <1>1 DEF ChildType
  <2>2. child' = [child EXCEPT ![k] = c] /\ UNCHANGED <<lib, sigchld>>
    BY <1>4 DEF FilenameFound
  <2> QED  BY <2>1, <2>2, LivesOnStep
<1>5. CASE SendData(k)
  <2> DEFINE c == [child[k] EXCEPT !.sent = TRUE]
  <2>1. c \in ChildType /\ c.seed = child[k].seed /\ c.pc # "zombie"
    BY <1>1, <1>5 DEF ChildType, SendData
  <2>2. child' = [child EXCEPT ![k] = c] /\ UNCHANGED <<lib, sigchld>>
    BY <1>5 DEF SendData
  <2> QED  BY <2>1, <2>2, LivesOnStep
<1>6. CASE ServiceEnds(k)  BY <1>6, ExitsStep DEF ServiceEnds
<1> QED  BY <1>2, <1>3, <1>4, <1>5, <1>6 DEF Child

\* A request makes a child that is not a zombie, with a seed of its own.
LEMMA ServerTransferStep ==
  ASSUME NetTyped, ServerInv, ServerTransfer
  PROVE  ServerInv'
<1>1. PICK m \in DOMAIN toServer :
        IF m.flag = "CRC_ERROR" THEN UNCHANGED <<child, lib>>
        ELSE /\ child' = Append(child,
                  [pc |-> "filename", client |-> m.from, recvLen |-> m.len,
                   seed |-> ForkedChild(lib).seed, sent |-> FALSE])
             /\ lib' = ForkedParent(lib)
  BY DEF ServerTransfer
<1>3. sigchld' = sigchld  BY DEF ServerTransfer
<1>4. CASE UNCHANGED <<child, lib>>
  BY <1>3, <1>4 DEF ServerInv, LibTyped, ChildrenTyped, SeedsBelow, Children,
     ChildSeedsDistinct, ZombiesNoticed, Zombies
<1>5. CASE m.flag # "CRC_ERROR"
  <2> DEFINE c == [pc |-> "filename", client |-> m.from, recvLen |-> m.len,
                   seed |-> ForkedChild(lib).seed, sent |-> FALSE]
             n == Len(child)
  <2>1. child' = Append(child, c) /\ lib' = ForkedParent(lib)  BY <1>1, <1>5
  <2>2. /\ c.seed = lib.nextSeed /\ lib.nextSeed \in Int
        /\ lib'.nextSeed = lib.nextSeed + 1 /\ LibTyped'
    BY <2>1, ForkSeeds DEF ServerInv, LibTyped
  <2>3. m \in Request  BY DEF NetTyped
  <2>4. c \in ChildType  BY <2>2, <2>3 DEF ChildType, Request
  <2> HIDE DEF c
  <2>5. child \in Seq(ChildType)  BY DEF ServerInv, ChildrenTyped
  <2>6. /\ child' \in Seq(ChildType) /\ Len(child') = n + 1
        /\ \A k \in 1 .. n : child'[k] = child[k]
        /\ child'[n + 1] = c
    BY <2>1, <2>4, <2>5, AppendProperties
  <2>7. n \in Nat /\ Children = 1 .. n /\ Children' = 1 .. n + 1
    BY <2>5, <2>6 DEF Children
  <2>8. \A k \in 1 .. n : child[k].seed \in Int /\ child[k].seed < lib.nextSeed
    <3>1. \A k \in 1 .. n : child[k] \in ChildType  BY <2>5, ElementOfSeq
    <3> QED  BY <2>7, <3>1 DEF ServerInv, SeedsBelow, ChildType
  <2>9. SeedsBelow'
    <3> SUFFICES ASSUME NEW k \in 1 .. n + 1
                 PROVE  child'[k].seed < lib'.nextSeed
      BY <2>7 DEF SeedsBelow
    <3>1. CASE k \in 1 .. n  BY <3>1, <2>2, <2>6, <2>8
    <3>2. CASE k = n + 1  BY <3>2, <2>2, <2>6
    <3> QED  BY <2>7, <3>1, <3>2
  <2>10. ChildSeedsDistinct'
    <3> SUFFICES ASSUME NEW k \in 1 .. n + 1, NEW l \in 1 .. n + 1,
                        child'[k].seed = child'[l].seed
                 PROVE  k = l
      BY <2>7 DEF ChildSeedsDistinct
    <3>1. CASE k \in 1 .. n /\ l \in 1 .. n
      BY <3>1, <2>6, <2>7 DEF ServerInv, ChildSeedsDistinct
    <3>2. CASE k = n + 1 /\ l \in 1 .. n  BY <3>2, <2>2, <2>6, <2>8
    <3>3. CASE l = n + 1 /\ k \in 1 .. n  BY <3>3, <2>2, <2>6, <2>8
    <3> QED  BY <2>7, <3>1, <3>2, <3>3
  <2>11. Zombies' \subseteq Zombies
    <3> SUFFICES ASSUME NEW k \in 1 .. n + 1, child'[k].pc = "zombie"
                 PROVE  k \in Zombies
      BY <2>7 DEF Zombies
    <3>1. c.pc = "filename"  BY DEF c
    <3>2. k # n + 1  BY <2>6, <3>1
    <3> QED  BY <2>6, <2>7, <3>2 DEF Zombies
  <2>12. ZombiesNoticed'  BY <1>3, <2>11 DEF ServerInv, ZombiesNoticed
  <2> QED
    BY <1>3, <2>2, <2>6, <2>9, <2>10, <2>12 DEF ServerInv, ChildrenTyped
<1> QED  BY <1>1, <1>4, <1>5

\* The handler leaves only when no zombie is left.
LEMMA ReapZombiesStep ==
  ASSUME ServerInv, ReapZombies
  PROVE  ServerInv'
<1>1. CASE \E k \in Zombies : /\ child' = [child EXCEPT ![k].pc = "gone"]
                             /\ sigchld' = Reaped(k)
  <2>1. PICK k \in Zombies : /\ child' = [child EXCEPT ![k].pc = "gone"]
                             /\ sigchld' = Reaped(k)
    BY <1>1
  <2> DEFINE c == [child[k] EXCEPT !.pc = "gone"]
  <2>2. k \in Children /\ child[k] \in ChildType
    BY DEF Zombies, ServerInv, ChildrenTyped, Children
  <2>3. c \in ChildType /\ c.seed = child[k].seed /\ c.pc # "zombie"
    BY <2>2 DEF ChildType
  <2>4. child' = [child EXCEPT ![k] = c] /\ UNCHANGED lib
    BY <2>1 DEF ReapZombies
  <2>5. sigchld' = sigchld  BY <2>1 DEF Reaped, ReapZombies
  <2> QED  BY <2>2, <2>3, <2>4, <2>5, LivesOnStep
<1>2. CASE Zombies = {} /\ sigchld' = AfterReturn /\ UNCHANGED child
  <2>1. UNCHANGED lib  BY DEF ReapZombies
  <2>2. AfterReturn \in {"none", "pending"}  BY DEF AfterReturn
  <2> QED
    BY <1>2, <2>1, <2>2 DEF ServerInv, LibTyped, ChildrenTyped, SeedsBelow, Children,
       ChildSeedsDistinct, ZombiesNoticed, Zombies
<1> QED  BY <1>1, <1>2 DEF ReapZombies

-----------------------------------------------------------------------------
(***************************************************************************)
(* The server process and its children keep NetInv.                        *)
(***************************************************************************)

\* A request becomes a child, or is thrown away: for its socket there is never
\* both.
LEMMA ServerTransferNet ==
  ASSUME NetInv, ServerInv, ServerTransfer
  PROVE  NetInv'
<1>1. PICK m \in DOMAIN toServer :
        /\ toServer' = toServer (-) Once(m)
        /\ IF m.flag = "CRC_ERROR" THEN UNCHANGED child
           ELSE child' = Append(child,
                  [pc |-> "filename", client |-> m.from, recvLen |-> m.len,
                   seed |-> ForkedChild(lib).seed, sent |-> FALSE])
  BY DEF ServerTransfer
<1>2. UNCHANGED <<case, rcopy, toRcopy, faults>>  BY DEF ServerTransfer
<1>3. NetTyped /\ m \in Request /\ m.from \in Rcopies \X Nat
  BY DEF NetInv, NetTyped, Request
<1>4. /\ IsABag(toServer') /\ DOMAIN toServer' \subseteq DOMAIN toServer
      /\ \A n \in DOMAIN toServer' : toServer[n] = 1 => n # m /\ toServer'[n] = 1
  BY <1>1, <1>3, TakenBag DEF NetTyped
<1>5. NetTyped'  BY <1>2, <1>3, <1>4 DEF NetTyped
<1>6. \A r \in Rcopies : Asked(r)'
  BY <1>2 DEF NetInv, Asked, Spent, Rejected, Address, Rounds
<1>7. /\ Children \subseteq Children'
      /\ \A k \in Children : child'[k] = child[k]
      /\ \A k \in Children' : \/ k \in Children
                              \/ /\ child'[k].client = m.from
                                 /\ \A l \in Children' \ Children : k = l
  <2>1. CASE UNCHANGED child  BY <2>1 DEF Children
  <2>2. CASE m.flag # "CRC_ERROR"
    <3> DEFINE c == [pc |-> "filename", client |-> m.from, recvLen |-> m.len,
                     seed |-> ForkedChild(lib).seed, sent |-> FALSE]
               n == Len(child)
    <3>1. child' = Append(child, c) /\ c.client = m.from  BY <1>1, <2>2
    <3> HIDE DEF c
    <3>2. child \in Seq(ChildType)  BY DEF ServerInv, ChildrenTyped
    <3>3. child \in Seq(ChildType \cup {c}) /\ c \in ChildType \cup {c}
      BY <3>2, SeqMonotonic
    <3>4. /\ Len(child') = n + 1 /\ child' \in Seq(ChildType \cup {c})
          /\ \A k \in 1 .. n : child'[k] = child[k]
          /\ child'[n + 1] = c
      BY <3>1, <3>3, AppendProperties
    <3>5. n \in Nat /\ Children = 1 .. n /\ Children' = 1 .. n + 1
      BY <3>2, <3>4 DEF Children
    <3>6. \A k \in 1 .. n + 1 : k \in 1 .. n \/ k = n + 1  BY <3>5
    <3>7. 1 .. n \subseteq 1 .. n + 1  BY <3>5
    <3> HIDE DEF n
    <3> QED  BY <3>1, <3>4, <3>5, <3>6, <3>7
  <2> QED  BY <1>1, <2>1, <2>2
<1>8. Addressed'
  <2>1. \A n \in DOMAIN toServer' : n.from[2] <= rcopy'[n.from[1]].socket
    BY <1>2, <1>4 DEF NetInv, Addressed
  <2>2. \A k \in Children' : child'[k].client[2] <= rcopy'[child'[k].client[1]].socket
    BY <1>1, <1>2, <1>7 DEF NetInv, Addressed
  <2>3. \A n \in DOMAIN toRcopy' : n.from \in Children' /\ n.to = child'[n.from].client
    BY <1>2, <1>7 DEF NetInv, Addressed
  <2>4. \A r \in Rcopies :
          rcopy'[r].remote # ServerPort =>
            /\ rcopy'[r].remote \in Children'
            /\ child'[rcopy'[r].remote].client = Address(r)'
    BY <1>2, <1>7 DEF NetInv, Addressed, Address
  <2> QED  BY <2>1, <2>2, <2>3, <2>4 DEF Addressed
<1>9. RequestsApart'
  <2> SUFFICES ASSUME "dup" \notin case.faults
               PROVE  /\ \A n \in DOMAIN toServer' :
                           /\ toServer'[n] = 1
                           /\ \A k \in Children' : child'[k].client # n.from
                      /\ \A n, o \in DOMAIN toServer' : n.from = o.from => n = o
                      /\ \A k, l \in Children' : child'[k].client = child'[l].client => k = l
    BY <1>2 DEF RequestsApart
  <2>1. /\ \A n \in DOMAIN toServer :
             toServer[n] = 1 /\ \A k \in Children : child[k].client # n.from
        /\ \A n, o \in DOMAIN toServer : n.from = o.from => n = o
        /\ \A k, l \in Children : child[k].client = child[l].client => k = l
    BY DEF NetInv, RequestsApart
  <2>2. \A n \in DOMAIN toServer' : n # m /\ n.from # m.from /\ toServer'[n] = 1
    BY <1>4, <2>1
  <2> QED  BY <1>4, <1>7, <2>1, <2>2
<1> QED  BY <1>5, <1>6, <1>8, <1>9 DEF NetInv

\* A child's answer goes to its client, or nowhere; when it is corrupted that is
\* a fault that has been counted.
LEMMA AnswerNet ==
  ASSUME NetInv, ChildrenTyped, NEW k \in Children,
         NEW flag \in Flags \ {"CRC_ERROR"}, Answer(k, flag),
         UNCHANGED <<case, rcopy, toServer>>, Children' = Children,
         \A l \in Children : child'[l].client = child[l].client
  PROVE  NetInv'
<1> DEFINE m == [flag |-> flag, from |-> k, to |-> child[k].client]
           x == [m EXCEPT !.flag = "CRC_ERROR"]
<1>1. NetTyped /\ faults \in Nat /\ IsABag(toRcopy) /\ DOMAIN toRcopy \subseteq Packet
  BY DEF NetInv, NetTyped
<1>2. \E C, cost :
        /\ toRcopy' = toRcopy (+) C \/ (toRcopy' = toRcopy /\ DOMAIN C = {})
        /\ faults' = faults + cost /\ cost \in Nat
        /\ IsABag(C)
        /\ \A n \in DOMAIN C : n = m \/ (n = x /\ cost = 1)
  <2>1. CASE UNCHANGED <<toRcopy, faults>>
    <3>1. faults' = faults + 0 /\ 0 \in Nat /\ toRcopy' = toRcopy  BY <1>1, <2>1
    <3>2. IsABag(EmptyBag) /\ DOMAIN EmptyBag = {}  BY DEF EmptyBag, SetToBag, IsABag
    <3> QED  BY <3>1, <3>2
  <2>2. CASE \E fate \in Fates(m) : toRcopy' = toRcopy (+) fate.out /\ Spend(fate.cost)
    <3>1. PICK fate \in Fates(m) : toRcopy' = toRcopy (+) fate.out /\ Spend(fate.cost)
      BY <2>2
    <3>2. /\ IsABag(fate.out) /\ fate.cost \in Nat
          /\ \A n \in DOMAIN fate.out : n = m \/ (n = x /\ fate.cost = 1)
      BY <1>1, Fate DEF NetTyped
    <3>3. faults' = faults + fate.cost  BY <3>1 DEF Spend
    <3> QED  BY <3>1, <3>2, <3>3
  <2> QED  BY <2>1, <2>2 DEF Answer
<1>3. PICK C, cost :
        /\ toRcopy' = toRcopy (+) C \/ (toRcopy' = toRcopy /\ DOMAIN C = {})
        /\ faults' = faults + cost /\ cost \in Nat
        /\ IsABag(C)
        /\ \A n \in DOMAIN C : n = m \/ (n = x /\ cost = 1)
  BY <1>2
<1>4. /\ m \in Packet /\ x \in Packet
      /\ m.from = k /\ m.to = child[k].client /\ m.flag # "CRC_ERROR"
      /\ x.from = k /\ x.to = child[k].client
  <2>1. child[k] \in ChildType /\ k \in Nat \ {0}
    BY DEF ChildrenTyped, Children
  <2> QED  BY <2>1 DEF Packet, ChildType, Flags, ServerPort
<1> HIDE DEF m, x
<1>5. IsABag(toRcopy') /\ DOMAIN toRcopy' = DOMAIN toRcopy \cup DOMAIN C
  <2>1. CASE toRcopy' = toRcopy (+) C  BY <1>1, <1>3, <2>1, SentBag
  <2>2. CASE toRcopy' = toRcopy /\ DOMAIN C = {}  BY <1>1, <2>2
  <2> QED  BY <1>3, <2>1, <2>2
<1>6. DOMAIN toRcopy' \subseteq Packet  BY <1>1, <1>3, <1>4, <1>5
<1>7. faults' \in Nat /\ faults' >= faults /\ (cost = 1 => faults' = faults + 1)
  BY <1>1, <1>3
<1>8. NetTyped'  BY <1>1, <1>5, <1>6, <1>7 DEF NetTyped
<1>9. Addressed'
  <2>1. \A n \in DOMAIN toServer' : n.from[2] <= rcopy'[n.from[1]].socket
    BY DEF NetInv, Addressed
  <2>2. \A l \in Children' : child'[l].client[2] <= rcopy'[child'[l].client[1]].socket
    BY DEF NetInv, Addressed
  <2>3. \A n \in DOMAIN toRcopy' : n.from \in Children' /\ n.to = child'[n.from].client
    BY <1>3, <1>4, <1>5 DEF NetInv, Addressed
  <2>4. \A r \in Rcopies :
          rcopy'[r].remote # ServerPort =>
            /\ rcopy'[r].remote \in Children'
            /\ child'[rcopy'[r].remote].client = Address(r)'
    BY DEF NetInv, Addressed, Address
  <2> QED  BY <2>1, <2>2, <2>3, <2>4 DEF Addressed
<1>10. RequestsApart'  BY DEF NetInv, RequestsApart
<1>11. ASSUME NEW r \in Rcopies PROVE Asked(r)'
  <2>1. CASE Rejected(r)' => Rejected(r)
    BY <1>1, <1>7, <2>1, AskedStays DEF NetInv
  <2>2. CASE ~Rejected(r) /\ Rejected(r)'
    <3>1. PICK n \in DOMAIN toRcopy' : n.flag = "CRC_ERROR" /\ n.to = Address(r)
      BY <2>2 DEF Rejected, Address
    <3>2. n \in DOMAIN C  BY <1>5, <2>2, <3>1 DEF Rejected
    <3>3. faults' = faults + 1  BY <1>3, <1>4, <1>7, <3>1, <3>2
    <3>4. Spent(r) = faults /\ Spent(r)' = faults' - 1  BY <2>2 DEF Spent
    <3>5. Spent(r)' = faults  BY <1>1, <3>3, <3>4
    <3>6. Rounds(Spent(r))' = Rounds(Spent(r))  BY <3>4, <3>5 DEF Rounds
    <3>7. Rounds(faults) \in Int /\ Rounds(faults') \in Int
          /\ Rounds(faults) <= Rounds(faults') /\ Rounds(faults)' = Rounds(faults')
      BY <1>1, <1>7, RoundsGrow DEF Rounds
    <3>8. rcopy[r].socket \in Nat /\ rcopy[r].retryCnt \in Nat
      BY <1>1 DEF NetTyped, RcopyType
    <3>9. /\ rcopy[r].state \in {"START", "FNAME_RECV"} => rcopy[r].retryCnt <= MaxTries
          /\ rcopy[r].state = "START" =>
               rcopy[r].socket <= Rounds(faults) + rcopy[r].retryCnt
          /\ rcopy[r].state = "FNAME_RECV" =>
               rcopy[r].socket <= Rounds(Spent(r)) + rcopy[r].retryCnt + 1
          /\ rcopy[r].socket <= Rounds(faults) + MaxTries + 1
      BY DEF NetInv, Asked
    <3>10. /\ rcopy[r].state = "START" =>
                rcopy[r].socket <= Rounds(faults') + rcopy[r].retryCnt
           /\ rcopy[r].socket <= Rounds(faults') + MaxTries + 1
      BY <3>7, <3>8, <3>9, ConnectAssumption
    <3> QED  BY <3>6, <3>7, <3>9, <3>10 DEF Asked
  <2> QED  BY <2>1, <2>2
<1> QED  BY <1>8, <1>9, <1>10, <1>11 DEF NetInv

\* A step of a child that sends nothing.
LEMMA SilentNet ==
  ASSUME NetInv, UNCHANGED <<case, rcopy, toServer, toRcopy, faults>>,
         Children' = Children, \A l \in Children : child'[l].client = child[l].client
  PROVE  NetInv'
<1>1. NetTyped'  BY DEF NetInv, NetTyped
<1>2. Addressed'  BY DEF NetInv, Addressed, Address
<1>3. RequestsApart'  BY DEF NetInv, RequestsApart
<1>4. \A r \in Rcopies : Asked(r)'
  BY DEF NetInv, Asked, Spent, Rejected, Address, Rounds
<1> QED  BY <1>1, <1>2, <1>3, <1>4 DEF NetInv

\* No step of a child changes its client.
LEMMA ChildNet ==
  ASSUME NetInv, ChildrenTyped, NEW k \in Children, Child(k)
  PROVE  NetInv'
<1>1. child[k] \in ChildType  BY DEF ChildrenTyped, Children
<1>3. \/ \E pc : child' = [child EXCEPT ![k].pc = pc]
      \/ child' = [child EXCEPT ![k].sent = TRUE]
  BY DEF Child, FilenameTooLong, FilenameMissing, FilenameFound, SendData,
     ServiceEnds, Exits
<1>4. Children' = Children /\ \A l \in Children : child'[l].client = child[l].client
  <2>1. ASSUME NEW pc, child' = [child EXCEPT ![k].pc = pc]
        PROVE  Children' = Children /\ \A l \in Children : child'[l].client = child[l].client
    BY <1>1, <2>1 DEF ChildType, Children
  <2>2. CASE child' = [child EXCEPT ![k].sent = TRUE]
    BY <1>1, <2>2 DEF ChildType, Children
  <2> QED  BY <1>3, <2>1, <2>2
<1>5. CASE FilenameTooLong(k)  BY <1>4, <1>5, SilentNet DEF FilenameTooLong
<1>6. CASE FilenameMissing(k)
  BY <1>4, <1>6, AnswerNet DEF FilenameMissing, Flags
<1>7. CASE FilenameFound(k)
  BY <1>4, <1>7, AnswerNet DEF FilenameFound, Flags
<1>8. CASE SendData(k)  BY <1>4, <1>8, AnswerNet DEF SendData, Flags
<1>9. CASE ServiceEnds(k)  BY <1>4, <1>9, SilentNet DEF ServiceEnds
<1> QED  BY <1>5, <1>6, <1>7, <1>8, <1>9 DEF Child

-----------------------------------------------------------------------------

\* Nothing asked, no child at the start.
LEMMA InitInv == Init => IInv
<1> SUFFICES ASSUME Init PROVE IInv  OBVIOUS
<1>1. LibTyped  BY ServerLibTyped DEF Init
<1>2. child \in Seq(ChildType) /\ Children = {} /\ sigchld = "none"
  BY EmptySeq DEF Init, Children
<1>3. ServerInv
  BY <1>1, <1>2 DEF ServerInv, ChildrenTyped, SeedsBelow, ChildSeedsDistinct,
     ZombiesNoticed, Zombies
<1>4. IsABag(EmptyBag) /\ DOMAIN EmptyBag = {}  BY DEF EmptyBag, SetToBag, IsABag
<1>5. \A r \in Rcopies :
        rcopy[r] = [state |-> "START", socket |-> 0, retryCnt |-> 0, remote |-> ServerPort]
  BY DEF Init
<1>6. NetTyped
  BY <1>4, ConnectAssumption DEF Init, NetTyped, RcopyType, ServerPort
<1>7. Addressed /\ RequestsApart
  BY <1>2, <1>4, <1>5 DEF Init, Addressed, RequestsApart
<1>8. \A r \in Rcopies : Asked(r)
  <2>1. Rounds(0) = 0 /\ faults = 0  BY ConnectAssumption DEF Rounds, Init
  <2> QED  BY <1>5, <2>1, ConnectAssumption DEF Asked
<1> QED  BY <1>3, <1>6, <1>7, <1>8 DEF IInv, NetInv

\* Every step of every process keeps both halves.
LEMMA NextInv == IInv /\ [Next]_vars => IInv'
<1> SUFFICES ASSUME IInv, [Next]_vars PROVE IInv'  OBVIOUS
<1> USE DEF IInv
<1>1. ASSUME UNCHANGED serverVars PROVE ServerInv'
  BY <1>1 DEF serverVars, ServerInv, LibTyped, ChildrenTyped, SeedsBelow, Children,
     ChildSeedsDistinct, ZombiesNoticed, Zombies
<1>2. ASSUME UNCHANGED <<case, rcopy, toServer, toRcopy, faults, child>> PROVE NetInv'
  BY <1>2, SilentNet DEF Children
<1>3. ChildrenTyped  BY DEF ServerInv
<1>4. ASSUME NEW r \in Rcopies, Rcopy(r) PROVE IInv'
  BY <1>1, <1>3, <1>4, RcopyStep
<1>5. CASE ServerTransfer
  BY <1>5, ServerTransferStep, ServerTransferNet DEF NetInv
<1>6. CASE Signalled
  <2>1. UNCHANGED <<case, rcopy, toServer, toRcopy, faults, lib, child>>
        /\ sigchld' = "reaping"
    BY <1>6 DEF Signalled
  <2>2. ServerInv'
    BY <2>1 DEF ServerInv, LibTyped, ChildrenTyped, SeedsBelow, Children,
       ChildSeedsDistinct, ZombiesNoticed, Zombies
  <2> QED  BY <1>2, <2>1, <2>2
<1>7. CASE ReapZombies
  <2>1. UNCHANGED <<case, rcopy, toServer, toRcopy, faults>>  BY <1>7 DEF ReapZombies
  <2>2. Children' = Children /\ \A l \in Children : child'[l].client = child[l].client
    <3>1. CASE UNCHANGED child  BY <3>1 DEF Children
    <3>2. CASE \E k \in Zombies : child' = [child EXCEPT ![k].pc = "gone"]
      <4>1. PICK k \in Children : child' = [child EXCEPT ![k].pc = "gone"]
        BY <3>2 DEF Zombies
      <4>2. child[k] \in ChildType  BY <1>3 DEF ChildrenTyped, Children
      <4> QED  BY <4>1, <4>2 DEF ChildType, Children
    <3> QED  BY <1>7, <3>1, <3>2 DEF ReapZombies
  <2> QED  BY <1>7, <2>1, <2>2, SilentNet, ReapZombiesStep
<1>8. ASSUME NEW k \in Children, Child(k) PROVE IInv'
  BY <1>3, <1>8, ChildStep, ChildNet
<1>9. CASE UNCHANGED vars
  BY <1>1, <1>2, <1>9 DEF vars, serverVars
<1> QED  BY <1>4, <1>5, <1>6, <1>7, <1>8, <1>9 DEF Next, ServerProcess

\* reapZombies forgets no child: whenever one has exited and has not been waited
\* for, SIGCHLD is pending or its handler is at work.
THEOREM NoZombieForgotten == Spec => []ZombiesNoticed
<1>1. IInv => ZombiesNoticed  BY DEF IInv, ServerInv
<1> QED  BY InitInv, NextInv, <1>1, PTL DEF Spec

\* forkMod gives every child a seed of its own.
THEOREM SeedsDistinct == Spec => []ChildSeedsDistinct
<1>1. IInv => ChildSeedsDistinct  BY DEF IInv, ServerInv
<1> QED  BY InitInv, NextInv, <1>1, PTL DEF Spec

\* However often an rcopy asks, from however many sockets, and however its
\* requests and the answers are delayed, lost or corrupted: a socket never has
\* two children, and the child rcopy answers is the one of its open socket.
THEOREM ChildPerSocket == Spec => []OneChildPerSocket
<1>1. IInv => OneChildPerSocket
  BY DEF IInv, NetInv, RequestsApart, Addressed, OneChildPerSocket
<1> QED  BY InitInv, NextInv, <1>1, PTL DEF Spec

\* rcopy asks at most MAX_TRIES + 1 times, and as often again for each corrupted
\* answer: fnameRecv's static counter is not reset by the attempts.
THEOREM AskingEnds == Spec => []RequestsBounded
<1>1. IInv => RequestsBounded
  <2> SUFFICES ASSUME IInv, NEW r \in Rcopies
               PROVE  rcopy[r].socket <= (MaxTries + 1) * (1 + faults)
    BY DEF RequestsBounded
  <2>1. faults \in Nat /\ rcopy[r].socket <= Rounds(faults) + MaxTries + 1
    BY DEF IInv, NetInv, NetTyped, Asked
  <2>2. Rounds(faults + 1) = Rounds(faults) + MaxTries + 1  BY <2>1, RoundsGrow
  <2>3. 1 + faults = faults + 1  BY <2>1
  <2> QED  BY <2>1, <2>2, <2>3 DEF Rounds
<1> QED  BY InitInv, NextInv, <1>1, PTL DEF Spec
=============================================================================
