----------------------------- MODULE ChatProofs ------------------------------
(***************************************************************************)
(* The chat, for any number of clients, any handles and any lines: the     *)
(* handle table stays sound, what a client is shown was typed by its       *)
(* sender and meant for it, a client the server hangs up on is told why,   *)
(* a handle list ends where it said it would, and the table is a registry  *)
(* of who is called what.                                                  *)
(***************************************************************************)
EXTENDS Chat, FiniteSetTheorems, SequenceTheorems, WellFoundedInduction, TLAPS

Bytes == Seq(Nat)

-----------------------------------------------------------------------------
(***************************************************************************)
(* Sequences                                                               *)
(***************************************************************************)

\* Induction over an interval, for a set given by its elements: of the
\* intervals that end outside the set one would be minimal.
LEMMA IntervalInduction ==
  ASSUME NEW n \in Nat, NEW S, 0 \in S,
         \A k \in 1 .. n : k - 1 \in S => k \in S
  PROVE  0 .. n \subseteq S
<1> SUFFICES ASSUME NEW b \in 0 .. n, b \notin S PROVE FALSE
  OBVIOUS
<1> DEFINE T == {0 .. m : m \in {k \in 0 .. n : k \notin S}}
<1>1. T \subseteq FiniteSubsetsOf(Nat)
  <2> SUFFICES ASSUME NEW m \in 0 .. n PROVE 0 .. m \in FiniteSubsetsOf(Nat)
    OBVIOUS
  <2>1. IsFiniteSet(0 .. m)
    <3>1. 0 \in Int /\ m \in Int  OBVIOUS
    <3> QED  BY <3>1, FS_Interval
  <2>2. 0 .. m \in SUBSET Nat  BY SMT
  <2> QED  BY <2>1, <2>2 DEF FiniteSubsetsOf
<1>2. T # {}  OBVIOUS
<1>3. PICK x \in T : \A y \in T : ~ (<<y, x>> \in StrictSubsetOrdering(Nat))
  <2> HIDE DEF T
  <2> QED  BY <1>1, <1>2, WFMin, FS_StrictSubsetOrderingWellFounded
<1>4. PICK m \in 0 .. n : m \notin S /\ x = 0 .. m  BY <1>3
<1>5. m \in 1 .. n  BY <1>4
<1>6. m - 1 \in 0 .. n /\ m - 1 \notin S  BY <1>4, <1>5
<1>7. 0 .. m - 1 \in T  BY <1>6
<1>8. <<0 .. m - 1, 0 .. m>> \in StrictSubsetOrdering(Nat)
  <2>1. 0 .. m - 1 \subseteq 0 .. m /\ 0 .. m \subseteq Nat  BY <1>5
  <2>2. m \in 0 .. m /\ m \notin 0 .. m - 1  BY <1>5
  <2> QED  BY <2>1, <2>2 DEF StrictSubsetOrdering
<1> QED  BY <1>3, <1>4, <1>7, <1>8

\* p[k] is the first k sequences of ss, one after the other, for k up to n.
IsParts(p, n, ss, E) ==
  /\ p \in [0 .. n -> Seq(E)]
  /\ p[0] = << >>
  /\ \A k \in 1 .. n : p[k] = p[k - 1] \o ss[k]

\* FlattenSeq puts the sequences one after the other.
LEMMA FlattenParts ==
  ASSUME NEW E, NEW ss \in Seq(Seq(E))
  PROVE  \E p : IsParts(p, Len(ss), ss, E) /\ FlattenSeq(ss) = p[Len(ss)]
<1> DEFINE n == Len(ss)
           S == {m \in 0 .. n : \E p : IsParts(p, m, ss, E)}
<1>1. n \in Nat /\ \A k \in 1 .. n : ss[k] \in Seq(E)
  BY ElementOfSeq, LenProperties
<1>2. 0 \in S
  <2>1. IsParts([k \in {0} |-> << >>], 0, ss, E)
    <3>1. << >> \in Seq(E)  BY EmptySeq
    <3>2. 0 .. 0 = {0} /\ 1 .. 0 = {}  OBVIOUS
    <3> QED  BY <3>1, <3>2 DEF IsParts
  <2>2. 0 \in 0 .. n  BY <1>1
  <2> QED  BY <2>1, <2>2
<1>3. ASSUME NEW m \in 1 .. n, m - 1 \in S PROVE m \in S
  <2>1. PICK g : IsParts(g, m - 1, ss, E)  BY <1>3
  <2> DEFINE h == [k \in 0 .. m |-> IF k < m THEN g[k] ELSE g[m - 1] \o ss[m]]
  <2>2. m \in 0 .. n /\ m - 1 \in 0 .. m - 1 /\ 0 \in 0 .. m /\ 0 < m  BY <1>1
  <2>3. g[m - 1] \o ss[m] \in Seq(E)
    <3>1. g[m - 1] \in Seq(E) /\ ss[m] \in Seq(E)  BY <1>1, <2>1, <2>2 DEF IsParts
    <3> QED  BY <3>1, ConcatProperties
  <2>4. h \in [0 .. m -> Seq(E)]
    <3>1. \A k \in 0 .. m : k < m => k \in 0 .. m - 1  BY <2>2
    <3> QED  BY <2>1, <2>3, <3>1 DEF IsParts
  <2>5. h[0] = << >>  BY <2>1, <2>2 DEF IsParts
  <2>6. ASSUME NEW k \in 1 .. m PROVE h[k] = h[k - 1] \o ss[k]
    <3>1. k \in 0 .. m /\ k - 1 \in 0 .. m /\ k - 1 < m  BY <2>2
    <3>4. h[k] = (IF k < m THEN g[k] ELSE g[m - 1] \o ss[m]) /\ h[k - 1] = g[k - 1]
      BY <3>1
    <3> HIDE DEF h
    <3>2. CASE k = m
      <4>1. ~ (k < m)  BY <3>2, <2>2
      <4> QED  BY <3>2, <3>4, <4>1, Zenon
    <3>3. CASE k < m
      <4>1. k \in 1 .. m - 1  BY <3>3
      <4>2. g[k] = g[k - 1] \o ss[k]  BY <2>1, <4>1 DEF IsParts
      <4> QED  BY <3>3, <3>4, <4>2, Zenon
    <3>5. k = m \/ k < m  OBVIOUS
    <3> QED  BY <3>2, <3>3, <3>5
  <2>7. IsParts(h, m, ss, E)
    <3> HIDE DEF h
    <3> QED  BY <2>4, <2>5, <2>6 DEF IsParts
  <2> QED  BY <2>2, <2>7
<1>4. n \in S
  <2> HIDE DEF S
  <2>1. 0 .. n \subseteq S  BY <1>1, <1>2, <1>3, IntervalInduction
  <2> QED  BY <1>1, <2>1
<1>5. PICK p : IsParts(p, n, ss, E)  BY <1>4
<1>6. CASE n = 0
  <2>1. ss = << >>  BY <1>6, EmptySeq
  <2>2. FlattenSeq(ss) = << >>  BY <1>6, <2>1 DEF FlattenSeq
  <2> QED  BY <1>5, <1>6, <2>2 DEF IsParts
<1>7. CASE n # 0
  <2> DEFINE R(f) == f = [i \in 1 .. n |-> IF i = 1 THEN ss[i] ELSE f[i - 1] \o ss[i]]
             w == [i \in 1 .. n |-> p[i]]
             f == CHOOSE g : R(g)
  <2>1. R(w)
    <3> SUFFICES ASSUME NEW i \in 1 .. n
                 PROVE  p[i] = IF i = 1 THEN ss[i] ELSE w[i - 1] \o ss[i]
      OBVIOUS
    <3>1. CASE i = 1
      <4>1. p[1] = p[0] \o ss[1]
        <5>1. 1 \in 1 .. n /\ 1 - 1 = 0  BY <1>1, <1>7
        <5> QED  BY <1>5, <5>1 DEF IsParts
      <4>2. ss[1] \in Seq(E)  BY <1>1, <1>7
      <4>3. << >> \o ss[1] = ss[1]  BY <4>2, ConcatEmptySeq
      <4> QED  BY <1>5, <3>1, <4>1, <4>3 DEF IsParts
    <3>2. CASE i # 1
      <4>1. i - 1 \in 1 .. n  BY <3>2
      <4> QED  BY <1>5, <3>2, <4>1 DEF IsParts
    <3> QED  BY <3>1, <3>2
  <2>2. R(f)
    <3> HIDE DEF w, R
    <3> QED  BY <2>1
  <2>3. \A k \in 1 .. n : f[k] = p[k]
    <3> DEFINE Q == {k \in 0 .. n : k # 0 => f[k] = p[k]}
    <3> HIDE DEF f
    <3>1. ASSUME NEW k \in 1 .. n, k - 1 \in Q PROVE k \in Q
      <4>1. f[k] = IF k = 1 THEN ss[k] ELSE f[k - 1] \o ss[k]  BY <2>2
      <4>2. w[k] = IF k = 1 THEN ss[k] ELSE w[k - 1] \o ss[k]  BY <2>1
      <4>5. w[k] = p[k] /\ k \in 0 .. n  OBVIOUS
      <4>3. CASE k = 1  BY <4>1, <4>2, <4>3, <4>5
      <4>4. CASE k # 1
        <5>1. k - 1 \in 1 .. n /\ k - 1 # 0  BY <4>4
        <5>2. w[k - 1] = p[k - 1] /\ f[k - 1] = p[k - 1]  BY <3>1, <5>1
        <5> HIDE DEF w
        <5> QED  BY <4>1, <4>2, <4>4, <4>5, <5>2
      <4> QED  BY <4>3, <4>4
    <3>2. 0 \in Q  BY <1>1
    <3>3. 0 .. n \subseteq Q
      <4> HIDE DEF Q
      <4> QED  BY <1>1, <3>1, <3>2, IntervalInduction
    <3> QED  BY <3>3, SMTT(30)
  <2>4. FlattenSeq(ss) = f[n]  BY <1>7 DEF FlattenSeq
  <2>5. FlattenSeq(ss) = p[n]
    <3> HIDE DEF f
    <3> QED  BY <1>1, <1>7, <2>3, <2>4
  <2> QED  BY <1>5, <2>5
<1> QED  BY <1>6, <1>7
\* A property of sequences given by its set: FlattenSeq stays in a set that
\* has the empty sequence and what every member of ss makes of its sequences.
LEMMA FlattenInduction ==
  ASSUME NEW E, NEW ss \in Seq(Seq(E)), NEW Q,
         << >> \in Q,
         \A q \in Q \cap Seq(E) : \A i \in 1 .. Len(ss) : q \o ss[i] \in Q
  PROVE  FlattenSeq(ss) \in Q \cap Seq(E)
<1>1. PICK p : IsParts(p, Len(ss), ss, E) /\ FlattenSeq(ss) = p[Len(ss)]
  BY FlattenParts
<1> DEFINE S == {k \in 0 .. Len(ss) : p[k] \in Q}
<1>2. Len(ss) \in Nat  BY LenProperties
<1>3. 0 \in S  BY <1>1, <1>2 DEF IsParts
<1>4. ASSUME NEW k \in 1 .. Len(ss), k - 1 \in S PROVE k \in S
  <2>1. k - 1 \in 0 .. Len(ss) /\ k \in 0 .. Len(ss)  BY <1>2
  <2>2. p[k - 1] \in Q \cap Seq(E)  BY <1>1, <1>4, <2>1 DEF IsParts
  <2>3. p[k] = p[k - 1] \o ss[k]  BY <1>1 DEF IsParts
  <2> QED  BY <2>1, <2>2, <2>3
<1>5. 0 .. Len(ss) \subseteq S
  <2> HIDE DEF S
  <2> QED  BY <1>2, <1>3, <1>4, IntervalInduction
<1> QED  BY <1>1, <1>2, <1>5 DEF IsParts

\* What is put together consists of elements of what it is put together from.
LEMMA FlattenElements ==
  ASSUME NEW E, NEW ss \in Seq(Seq(E))
  PROVE  /\ FlattenSeq(ss) \in Seq(E)
         /\ \A j \in 1 .. Len(FlattenSeq(ss)) :
              \E i \in 1 .. Len(ss) : \E k \in 1 .. Len(ss[i]) : FlattenSeq(ss)[j] = ss[i][k]
<1> DEFINE From(x) == \E i \in 1 .. Len(ss) : \E k \in 1 .. Len(ss[i]) : x = ss[i][k]
           Q == {q \in Seq(E) : \A j \in 1 .. Len(q) : From(q[j])}
<1>1. << >> \in Q
  <2>1. << >> \in Seq(E) /\ Len(<< >>) = 0  BY EmptySeq
  <2> QED  BY <2>1
<1>2. ASSUME NEW q \in Q, NEW i \in 1 .. Len(ss) PROVE q \o ss[i] \in Q
  <2>1. q \in Seq(E) /\ ss[i] \in Seq(E)  BY ElementOfSeq
  <2>2. /\ q \o ss[i] \in Seq(E)
        /\ Len(q \o ss[i]) = Len(q) + Len(ss[i])
        /\ \A j \in 1 .. Len(q) + Len(ss[i]) : (q \o ss[i])[j] =
             IF j <= Len(q) THEN q[j] ELSE ss[i][j - Len(q)]
    BY <2>1, ConcatProperties
  <2>3. Len(q) \in Nat /\ Len(ss[i]) \in Nat  BY <2>1, LenProperties
  <2>4. ASSUME NEW j \in 1 .. Len(q) + Len(ss[i]) PROVE From((q \o ss[i])[j])
    <3>1. CASE j <= Len(q)
      <4>1. j \in 1 .. Len(q)  BY <2>3, <3>1
      <4>2. From(q[j])  BY <4>1
      <4>3. (q \o ss[i])[j] = q[j]  BY <2>2, <3>1
      <4> HIDE DEF From
      <4> QED  BY <4>2, <4>3
    <3>2. CASE ~ (j <= Len(q))
      <4>1. j - Len(q) \in 1 .. Len(ss[i])  BY <2>3, <3>2
      <4>2. (q \o ss[i])[j] = ss[i][j - Len(q)]  BY <2>2, <3>2
      <4> QED  BY <4>1, <4>2
    <3> QED  BY <3>1, <3>2
  <2> HIDE DEF From
  <2> QED  BY <2>2, <2>4
<1>3. FlattenSeq(ss) \in Q \cap Seq(E)
  <2> HIDE DEF Q
  <2> QED  BY <1>1, <1>2, FlattenInduction
<1> QED  BY <1>3

\* One sequence for every position, of one element each: nothing is added,
\* left out or moved.
LEMMA FlattenSingletons ==
  ASSUME NEW E, NEW ss \in Seq(Seq(E)),
         \A i \in 1 .. Len(ss) : Len(ss[i]) = 1
  PROVE  /\ Len(FlattenSeq(ss)) = Len(ss)
         /\ \A i \in 1 .. Len(ss) : FlattenSeq(ss)[i] = ss[i][1]
<1>1. PICK p : IsParts(p, Len(ss), ss, E) /\ FlattenSeq(ss) = p[Len(ss)]
  BY FlattenParts
<1> DEFINE Good(k) == Len(p[k]) = k /\ \A i \in 1 .. k : p[k][i] = ss[i][1]
           S == {k \in 0 .. Len(ss) : Good(k)}
<1>2. Len(ss) \in Nat  BY LenProperties
<1>3. 0 \in S
  <2>1. p[0] = << >> /\ Len(<< >>) = 0  BY <1>1, EmptySeq DEF IsParts
  <2> QED  BY <1>2, <2>1
<1>4. ASSUME NEW k \in 1 .. Len(ss), k - 1 \in S PROVE k \in S
  <2>1. k - 1 \in 0 .. Len(ss) /\ k \in 0 .. Len(ss)  BY <1>2
  <2>2. p[k - 1] \in Seq(E) /\ ss[k] \in Seq(E)
    BY <1>1, <2>1, ElementOfSeq DEF IsParts
  <2>3. p[k] = p[k - 1] \o ss[k]  BY <1>1 DEF IsParts
  <2>4. Len(p[k - 1]) = k - 1 /\ Len(ss[k]) = 1 /\ \A i \in 1 .. k - 1 : p[k - 1][i] = ss[i][1]
    BY <1>4
  <2>5. /\ Len(p[k]) = (k - 1) + 1
        /\ \A i \in 1 .. (k - 1) + 1 : p[k][i] =
             IF i <= k - 1 THEN p[k - 1][i] ELSE ss[k][i - (k - 1)]
    <3>1. /\ Len(p[k - 1] \o ss[k]) = Len(p[k - 1]) + Len(ss[k])
          /\ \A i \in 1 .. Len(p[k - 1]) + Len(ss[k]) : (p[k - 1] \o ss[k])[i] =
               IF i <= Len(p[k - 1]) THEN p[k - 1][i] ELSE ss[k][i - Len(p[k - 1])]
      BY <2>2, ConcatProperties
    <3> QED  BY <3>1, <2>3, <2>4
  <2>6. ASSUME NEW i \in 1 .. k PROVE p[k][i] = ss[i][1]
    <3>1. i \in 1 .. (k - 1) + 1  OBVIOUS
    <3>2. CASE i <= k - 1  BY <2>4, <2>5, <3>1, <3>2
    <3>3. CASE ~ (i <= k - 1)
      <4>1. i = k /\ i - (k - 1) = 1  BY <3>3
      <4> QED  BY <2>5, <3>1, <3>3, <4>1
    <3> QED  BY <3>2, <3>3
  <2> QED  BY <2>1, <2>5, <2>6
<1>5. 0 .. Len(ss) \subseteq S
  <2> HIDE DEF S
  <2> QED  BY <1>2, <1>3, <1>4, IntervalInduction
<1>6. Good(Len(ss))  BY <1>2, <1>5
<1> QED  BY <1>1, <1>6

-----------------------------------------------------------------------------
(***************************************************************************)
(* The lowest of some numbers, and the descriptor accept returns           *)
(***************************************************************************)

\* Of some numbers one is the lowest.
LEMMA LowestExists ==
  ASSUME NEW S, S \subseteq Nat, S # {}
  PROVE  \E n \in S : \A m \in S : n <= m
<1>1. PICK b \in S : TRUE  OBVIOUS
<1> SUFFICES ASSUME \A n \in S : \E m \in S : ~ (n <= m) PROVE FALSE
  OBVIOUS
<1> DEFINE T == {k \in 0 .. b : \A j \in 0 .. k : j \notin S}
<1>2. b \in Nat  BY <1>1
<1>3. 0 \in T
  <2>1. ASSUME 0 \in S PROVE FALSE
    <3>1. PICK m \in S : ~ (0 <= m)  BY <2>1
    <3> QED  BY <3>1
  <2> QED  BY <1>2, <2>1
<1>4. ASSUME NEW k \in 1 .. b, k - 1 \in T PROVE k \in T
  <2>1. \A j \in 0 .. k - 1 : j \notin S  BY <1>4
  <2>2. ASSUME k \in S PROVE FALSE
    <3>1. PICK m \in S : ~ (k <= m)  BY <2>2
    <3>2. m \in 0 .. k - 1  BY <3>1
    <3> QED  BY <2>1, <3>2
  <2> QED  BY <1>2, <2>1, <2>2
<1>5. 0 .. b \subseteq T
  <2> HIDE DEF T
  <2> QED  BY <1>2, <1>3, <1>4, IntervalInduction
<1> QED  BY <1>1, <1>2, <1>5

\* While some client has no descriptor there is one for it: the descriptors in
\* use lead to different clients, and there are as many descriptors as clients.
LEMMA AcceptFinds ==
  ASSUME peer \in [Fds -> Clients \cup {Nobody}],
         \A f, g \in Fds : peer[f] = peer[g] /\ peer[f] # Nobody => f = g,
         NEW c \in Clients, \A fd \in Fds : peer[fd] # c
  PROVE  TcpAccept \in Fds /\ peer[TcpAccept] = Nobody
<1>1. FreeFds # {}
  <2> SUFFICES ASSUME FreeFds = {} PROVE FALSE
    OBVIOUS
  <2>1. \A fd \in Fds : peer[fd] \in Clients \ {c}  BY DEF FreeFds
  <2> DEFINE f == [fd \in Fds |-> peer[fd]]
  <2>2. IsFiniteSet(Clients \ {c}) /\ IsFiniteSet(Fds) /\ Nobody \notin Clients
    BY NetAssumption, FS_RemoveElement
  <2>3. Cardinality(Clients \ {c}) < Cardinality(Fds)
    <3>1. Cardinality(Clients \ {c}) = Cardinality(Clients) - 1
      BY NetAssumption, FS_RemoveElement
    <3>2. Cardinality(Clients) \in Nat /\ Cardinality(Fds) \in Nat
      BY NetAssumption, FS_CardinalityType
    <3> QED  BY <3>1, <3>2, NetAssumption
  <2>4. f \in [Fds -> Clients \ {c}]  BY <2>1
  <2>5. \E x, y \in Fds : x # y /\ f[x] = f[y]
    <3> HIDE DEF f
    <3> QED  BY <2>2, <2>3, <2>4, FS_PigeonHole
  <2> QED  BY <2>1, <2>2, <2>5
<1>2. FreeFds \subseteq Nat  BY NetAssumption DEF FreeFds
<1>3. \E fd \in FreeFds : \A other \in FreeFds : fd <= other
  BY <1>1, <1>2, LowestExists
<1>4. TcpAccept \in FreeFds  BY <1>3 DEF TcpAccept
<1> QED  BY <1>4 DEF FreeFds

-----------------------------------------------------------------------------
(***************************************************************************)
(* The handle table                                                        *)
(***************************************************************************)

EntryType == [handle : Bytes, socket : Fds]

\* No handle twice, no socket twice.
OneToOne(t) ==
  \A i, j \in DOMAIN t :
    i # j => t[i].handle # t[j].handle /\ t[i].socket # t[j].socket

\* lookupHandle finds an entry of the handle, if there is one.
LEMMA LookupFinds ==
  ASSUME NEW t \in Seq(EntryType), NEW h, InUse(t, h)
  PROVE  \E i \in DOMAIN t : t[i].handle = h /\ LookupHandle(t, h) = t[i].socket
<1> DEFINE I == {i \in 1 .. Len(t) : t[i].handle = h}
<1>1. DOMAIN t = 1 .. Len(t) /\ Len(t) \in Nat  BY LenProperties
<1>2. I # {} /\ I \subseteq Nat  BY <1>1 DEF InUse
<1>3. \E n \in I : \A m \in I : n <= m
  <2> HIDE DEF I
  <2> QED  BY <1>2, LowestExists
<1>4. SelectInSeq(t, LAMBDA e : e.handle = h) = CHOOSE n \in I : \A m \in I : n <= m
  BY <1>2 DEF SelectInSeq, Min
<1>5. SelectInSeq(t, LAMBDA e : e.handle = h) \in I
  <2> HIDE DEF I
  <2> QED  BY <1>3, <1>4
<1>6. LookupHandle(t, h) = t[SelectInSeq(t, LAMBDA e : e.handle = h)].socket
  BY DEF LookupHandle
<1> QED  BY <1>1, <1>5, <1>6

\* In a sound table lookupHandle finds the entry whose handle it is.
LEMMA LookupExact ==
  ASSUME NEW t \in Seq(EntryType), OneToOne(t), NEW i \in DOMAIN t
  PROVE  LookupHandle(t, t[i].handle) = t[i].socket
<1>1. InUse(t, t[i].handle)  BY DEF InUse
<1>2. PICK j \in DOMAIN t : /\ t[j].handle = t[i].handle
                            /\ LookupHandle(t, t[i].handle) = t[j].socket
  BY <1>1, LookupFinds
<1> QED  BY <1>2 DEF OneToOne

\* The string in an entry is the handle, or is longer than any handle.
LEMMA StoredRead ==
  ASSUME NEW h \in Bytes, NEW fd \in Fds
  PROVE  /\ Stored(h, fd) \in Bytes
         /\ \/ Stored(h, fd) = h
            \/ /\ Stored(h, fd) = Append(h, fd)
               /\ Len(h) >= MAX_HANDLE_LENGTH /\ Len(Stored(h, fd)) = Len(h) + 1
         /\ Len(h) < MAX_HANDLE_LENGTH => Stored(h, fd) = h
         /\ Len(Stored(h, fd)) < MAX_HANDLE_LENGTH => Stored(h, fd) = h
<1>1. fd \in Nat /\ Len(h) \in Nat /\ MAX_HANDLE_LENGTH \in Nat
  BY NetAssumption, LengthAssumption, LenProperties DEF Bytes
<1>2. Append(h, fd) \in Bytes /\ Len(Append(h, fd)) = Len(h) + 1
  BY <1>1, AppendProperties DEF Bytes
<1>3. Stored(h, fd) = h \/ (Stored(h, fd) = Append(h, fd) /\ ~ (Len(h) < MAX_HANDLE_LENGTH))
  BY DEF Stored
<1>4. Len(h) < MAX_HANDLE_LENGTH => Stored(h, fd) = h  BY DEF Stored
<1>5. CASE Stored(h, fd) = h  BY <1>5
<1>6. CASE Stored(h, fd) = Append(h, fd) /\ ~ (Len(h) < MAX_HANDLE_LENGTH)
  <2>1. Len(h) >= MAX_HANDLE_LENGTH /\ ~ (Len(h) + 1 < MAX_HANDLE_LENGTH)  BY <1>1, <1>6
  <2>2. Stored(h, fd) \in Bytes /\ Len(Stored(h, fd)) = Len(h) + 1  BY <1>2, <1>6
  <2>3. ~ (Len(Stored(h, fd)) < MAX_HANDLE_LENGTH)  BY <2>1, <2>2
  <2> QED  BY <1>4, <1>6, <2>1, <2>2, <2>3, Zenon
<1> QED  BY <1>3, <1>5, <1>6

\* Two entries with the same string are for the same handle: a string that is
\* longer ends with the connection it is for.
LEMMA StoredApart ==
  ASSUME NEW g \in Bytes, NEW h \in Bytes, NEW f \in Fds, NEW fd \in Fds, f # fd,
         Len(g) <= MAX_HANDLE_LENGTH, Len(h) <= MAX_HANDLE_LENGTH,
         Stored(g, f) = Stored(h, fd)
  PROVE  Stored(g, f) = h
<1>1. Len(g) \in Nat /\ Len(h) \in Nat /\ MAX_HANDLE_LENGTH \in Nat /\ f \in Nat /\ fd \in Nat
  BY NetAssumption, LengthAssumption, LenProperties DEF Bytes
<1>2. /\ \/ Stored(g, f) = g
         \/ /\ Stored(g, f) = Append(g, f)
            /\ Len(g) >= MAX_HANDLE_LENGTH /\ Len(Stored(g, f)) = Len(g) + 1
      /\ \/ Stored(h, fd) = h
         \/ /\ Stored(h, fd) = Append(h, fd)
            /\ Len(h) >= MAX_HANDLE_LENGTH /\ Len(Stored(h, fd)) = Len(h) + 1
  BY StoredRead
<1>3. CASE Stored(h, fd) = h  BY <1>3
<1>4. CASE Stored(h, fd) # h
  <2>1. Stored(h, fd) = Append(h, fd) /\ Len(Stored(g, f)) = MAX_HANDLE_LENGTH + 1
        /\ Len(h) = MAX_HANDLE_LENGTH
    BY <1>1, <1>2, <1>4
  <2>2. Stored(g, f) # g  BY <1>1, <2>1
  <2>3. Stored(g, f) = Append(g, f) /\ Len(g) = MAX_HANDLE_LENGTH  BY <1>1, <1>2, <2>2
  <2>4. Append(g, f) = Append(h, fd)  BY <2>1, <2>3
  <2>5. Append(g, f)[Len(g) + 1] = f /\ Append(h, fd)[Len(h) + 1] = fd
    BY <1>1, AppendProperties DEF Bytes
  <2> QED  BY <2>1, <2>3, <2>4, <2>5
<1> QED  BY <1>3, <1>4

\* addHandle puts the new entry in front, and the table stays sound.
LEMMA AddSound ==
  ASSUME NEW t \in Seq(EntryType), NEW h \in Bytes, NEW fd \in Fds,
         ~AddRefused(t, h), Len(t) <= MaxHandles
  PROVE  LET r == AddHandle(t, h, fd)
         IN  /\ r \in Seq(EntryType) /\ Len(r) = Len(t) + 1 /\ Len(r) <= MaxHandles
             /\ r[1] = Entry(Stored(h, fd), fd)
             /\ \A i \in 1 .. Len(t) : r[i + 1] = t[i]
<1> DEFINE r == AddHandle(t, h, fd)
<1>1. r = <<Entry(Stored(h, fd), fd)>> \o t  BY DEF AddHandle
<1>2. Entry(Stored(h, fd), fd) \in EntryType  BY StoredRead DEF Entry, EntryType
<1>3. <<Entry(Stored(h, fd), fd)>> \in Seq(EntryType)  BY <1>2
<1>4. Len(<<Entry(Stored(h, fd), fd)>>) = 1 /\ <<Entry(Stored(h, fd), fd)>>[1] = Entry(Stored(h, fd), fd)  OBVIOUS
<1>5. Len(t) \in Nat  BY LenProperties
<1>6. /\ r \in Seq(EntryType)
      /\ Len(r) = 1 + Len(t)
      /\ \A i \in 1 .. 1 + Len(t) : r[i] = IF i <= 1 THEN <<Entry(Stored(h, fd), fd)>>[i] ELSE t[i - 1]
  BY <1>1, <1>3, <1>4, ConcatProperties
<1>7. Len(t) < MaxHandles
  BY <1>5, MaxHandlesAssumption DEF AddRefused
<1> HIDE DEF r
<1>8. Len(r) = Len(t) + 1 /\ Len(r) <= MaxHandles
  BY <1>5, <1>6, <1>7, MaxHandlesAssumption
<1>9. r[1] = Entry(Stored(h, fd), fd)
  <2>1. 1 \in 1 .. 1 + Len(t) /\ 1 <= 1  BY <1>5
  <2> QED  BY <1>4, <1>6, <2>1
<1>10. ASSUME NEW i \in 1 .. Len(t) PROVE r[i + 1] = t[i]
  <2>1. i + 1 \in 1 .. 1 + Len(t) /\ ~ (i + 1 <= 1) /\ (i + 1) - 1 = i  BY <1>5
  <2> QED  BY <1>6, <2>1
<1> QED  BY <1>6, <1>8, <1>9, <1>10 DEF r

\* removeHandle takes out the entry of the socket, and nothing else.
LEMMA RemoveExact ==
  ASSUME NEW t \in Seq(EntryType), NEW fd, OneToOne(t)
  PROVE  LET r == RemoveHandle(t, fd)
         IN  /\ r \in Seq(EntryType) /\ Len(r) <= Len(t) /\ OneToOne(r)
             /\ \A j \in DOMAIN r : \E i \in DOMAIN t : r[j] = t[i] /\ t[i].socket # fd
             /\ \A i \in DOMAIN t : t[i].socket # fd => \E j \in DOMAIN r : r[j] = t[i]
<1> DEFINE I == {i \in 1 .. Len(t) : t[i].socket = fd}
           r == RemoveHandle(t, fd)
           n == SelectInSeq(t, LAMBDA e : e.socket = fd)
<1>1. DOMAIN t = 1 .. Len(t) /\ Len(t) \in Nat  BY LenProperties
<1>2. CASE I = {}
  <2>1. n = 0  BY <1>2 DEF SelectInSeq
  <2>2. r = t  BY <2>1 DEF RemoveHandle
  <2>3. \A i \in DOMAIN t : t[i].socket # fd  BY <1>1, <1>2
  <2> QED  BY <1>1, <2>2, <2>3
<1>3. CASE I # {}
  <2>1. I \subseteq Nat  OBVIOUS
  <2>2. \E k \in I : \A m \in I : k <= m
    <3> HIDE DEF I
    <3> QED  BY <1>3, <2>1, LowestExists
  <2>3. n = CHOOSE k \in I : \A m \in I : k <= m
    BY <1>3 DEF SelectInSeq, Min
  <2>4. n \in I
    <3> HIDE DEF I, n
    <3> QED  BY <2>2, <2>3
  <2>5. n \in 1 .. Len(t) /\ t[n].socket = fd
    <3> HIDE DEF n
    <3> QED  BY <2>4
  <2>6. r = SubSeq(t, 1, n - 1) \o SubSeq(t, n + 1, Len(t))
    <3>1. n # 0
      <4> HIDE DEF n
      <4> QED  BY <2>5
    <3> QED  BY <3>1 DEF RemoveHandle, RemoveAt
  <2> HIDE DEF n, r, I
  <2> DEFINE a == SubSeq(t, 1, n - 1)
             b == SubSeq(t, n + 1, Len(t))
  <2>7. /\ a \in Seq(EntryType) /\ Len(a) = n - 1
        /\ \A i \in 1 .. n - 1 : a[i] = t[i]
    <3>1. \A i \in 1 .. n - 1 : t[i] \in EntryType  BY <1>1, <2>5, ElementOfSeq
    <3>2. 1 \in Int /\ n - 1 \in Int  BY <1>1, <2>5
    <3>3. /\ a \in Seq(EntryType)
          /\ Len(a) = IF 1 <= n - 1 THEN (n - 1) - 1 + 1 ELSE 0
          /\ \A i \in 1 .. (n - 1) - 1 + 1 : a[i] = t[1 + i - 1]
      BY <3>1, <3>2, SubSeqProperties
    <3> HIDE DEF a
    <3>4. \A i \in 1 .. n - 1 : i \in 1 .. (n - 1) - 1 + 1 /\ 1 + i - 1 = i  BY <1>1, <2>5
    <3>5. Len(a) = n - 1  BY <1>1, <2>5, <3>3
    <3> QED  BY <3>3, <3>4, <3>5
  <2>8. /\ b \in Seq(EntryType) /\ Len(b) = Len(t) - n
        /\ \A i \in 1 .. Len(t) - n : b[i] = t[n + i]
    <3>1. \A i \in n + 1 .. Len(t) : t[i] \in EntryType  BY <1>1, <2>5, ElementOfSeq
    <3>2. n + 1 \in Int /\ Len(t) \in Int  BY <1>1, <2>5
    <3>3. /\ b \in Seq(EntryType)
          /\ Len(b) = IF n + 1 <= Len(t) THEN Len(t) - (n + 1) + 1 ELSE 0
          /\ \A i \in 1 .. Len(t) - (n + 1) + 1 : b[i] = t[(n + 1) + i - 1]
      BY <3>1, <3>2, SubSeqProperties
    <3> HIDE DEF b
    <3>4. \A i \in 1 .. Len(t) - n :
            i \in 1 .. Len(t) - (n + 1) + 1 /\ (n + 1) + i - 1 = n + i
      BY <1>1, <2>5
    <3>5. Len(b) = Len(t) - n
      <4>1. CASE n + 1 <= Len(t)
        <5>1. Len(t) - (n + 1) + 1 = Len(t) - n  BY <1>1, <2>5
        <5> QED  BY <3>3, <4>1, <5>1
      <4>2. CASE ~ (n + 1 <= Len(t))
        <5>2. n \in Nat /\ n <= Len(t)  BY <1>1, <2>5
        <5>3. \A x, y \in Nat : x <= y /\ ~ (x + 1 <= y) => y - x = 0  OBVIOUS
        <5>1. Len(t) - n = 0  BY <1>1, <4>2, <5>2, <5>3
        <5> QED  BY <3>3, <4>2, <5>1
      <4> QED  BY <4>1, <4>2
    <3> QED  BY <3>3, <3>4, <3>5
  <2> HIDE DEF a, b
  <2>9. /\ r \in Seq(EntryType) /\ Len(r) = Len(a) + Len(b)
        /\ \A i \in 1 .. Len(a) + Len(b) : r[i] = IF i <= Len(a) THEN a[i] ELSE b[i - Len(a)]
    <3>1. r = a \o b  BY <2>6 DEF a, b
    <3> QED  BY <2>7, <2>8, <3>1, ConcatProperties
  <2>10. Len(r) = Len(t) - 1 /\ DOMAIN r = 1 .. Len(t) - 1
    <3>1. Len(r) = Len(t) - 1  BY <1>1, <2>5, <2>7, <2>8, <2>9
    <3> QED  BY <2>9, <3>1, LenProperties
  <2> DEFINE At0(j) == IF j < n THEN j ELSE j + 1
  <2>11. ASSUME NEW j \in 1 .. Len(t) - 1 PROVE At0(j) \in 1 .. Len(t) /\ At0(j) # n /\ r[j] = t[At0(j)]
    <3>1. j \in 1 .. Len(a) + Len(b)  BY <1>1, <2>5, <2>7, <2>8
    <3>2. CASE j < n
      <4>1. j <= Len(a) /\ j \in 1 .. n - 1  BY <2>5, <2>7, <3>2
      <4>2. r[j] = a[j]  BY <2>9, <3>1, <4>1
      <4> QED  BY <1>1, <2>5, <2>7, <3>2, <4>1, <4>2
    <3>3. CASE ~ (j < n)
      <4>1. /\ ~ (j <= Len(a)) /\ j - Len(a) \in 1 .. Len(t) - n
            /\ n + (j - Len(a)) = j + 1
        BY <1>1, <2>5, <2>7, <3>3
      <4>2. r[j] = b[j - Len(a)]  BY <2>9, <3>1, <4>1
      <4>3. b[j - Len(a)] = t[n + (j - Len(a))]  BY <2>8, <4>1
      <4>4. r[j] = t[j + 1]  BY <4>1, <4>2, <4>3
      <4> QED  BY <1>1, <2>5, <3>3, <4>4
    <3> QED  BY <3>2, <3>3
  <2>12. \A j, k \in 1 .. Len(t) - 1 : j # k => At0(j) # At0(k)
    BY <1>1, <2>5
  <2>13. ASSUME NEW i \in 1 .. Len(t), i # n PROVE \E j \in 1 .. Len(t) - 1 : At0(j) = i
    <3>1. CASE i < n
      <4>1. i \in 1 .. Len(t) - 1 /\ At0(i) = i  BY <1>1, <2>5, <3>1
      <4> QED  BY <4>1
    <3>2. CASE ~ (i < n)
      <4>1. i - 1 \in 1 .. Len(t) - 1 /\ At0(i - 1) = i  BY <1>1, <2>5, <2>13, <3>2
      <4> QED  BY <4>1
    <3> QED  BY <3>1, <3>2
  <2> HIDE DEF At0
  <2>14. OneToOne(r)
    BY <1>1, <2>10, <2>11, <2>12 DEF OneToOne
  <2>15. \A j \in DOMAIN r : \E i \in DOMAIN t : r[j] = t[i] /\ t[i].socket # fd
    BY <1>1, <2>5, <2>10, <2>11 DEF OneToOne
  <2>16. \A i \in DOMAIN t : t[i].socket # fd => \E j \in DOMAIN r : r[j] = t[i]
    BY <1>1, <2>5, <2>10, <2>11, <2>13
  <2>17. Len(r) <= Len(t)  BY <1>1, <2>10
  <2> QED  BY <2>9, <2>14, <2>15, <2>16, <2>17 DEF r
<1> QED  BY <1>2, <1>3

-----------------------------------------------------------------------------
(***************************************************************************)
(* Fields of a packet                                                      *)
(***************************************************************************)

\* Packets are put together.
LEMMA Joined ==
  ASSUME NEW s \in Bytes, NEW t \in Bytes
  PROVE  s \o t \in Bytes /\ Len(s \o t) = Len(s) + Len(t)
BY ConcatProperties DEF Bytes

\* It does not matter which parts are put together first.
LEMMA JoinedTwice ==
  ASSUME NEW s \in Bytes, NEW t \in Bytes, NEW u \in Bytes
  PROVE  (s \o t) \o u = s \o (t \o u)
BY ConcatAssociative, SMTT(30) DEF Bytes

\* Packets have lengths, and one of one byte is a packet.
LEMMA ByteLengths ==
  /\ \A s \in Bytes : Len(s) \in Nat
  /\ \A n \in Nat : <<n>> \in Bytes /\ Len(<<n>>) = 1 /\ At(<<n>>, 0) = n
<1>1. \A s \in Bytes : Len(s) \in Nat  BY LenProperties DEF Bytes
<1>2. ASSUME NEW n \in Nat
      PROVE  <<n>> \in Bytes /\ Len(<<n>>) = 1 /\ At(<<n>>, 0) = n
  BY DEF Bytes, At
<1> QED  BY <1>1, <1>2

\* A byte of a packet put together from two parts is one of the first part,
\* or one of the second part, counted from its start.
LEMMA AtParts ==
  ASSUME NEW s \in Bytes, NEW t \in Bytes, NEW i \in Nat
  PROVE  /\ i < Len(s) => At(s \o t, i) = At(s, i)
         /\ At(s \o t, Len(s) + i) = At(t, i)
<1>1. Len(s) \in Nat /\ Len(t) \in Nat  BY LenProperties DEF Bytes
<1>2. /\ Len(s \o t) = Len(s) + Len(t)
      /\ \A j \in 1 .. Len(s) + Len(t) : (s \o t)[j] =
           IF j <= Len(s) THEN s[j] ELSE t[j - Len(s)]
  BY ConcatProperties DEF Bytes
<1>3. ASSUME i < Len(s) PROVE At(s \o t, i) = At(s, i)
  <2>1. i + 1 \in 1 .. Len(s) + Len(t) /\ i + 1 <= Len(s) /\ i < Len(s) + Len(t)
    BY <1>1, <1>3
  <2>2. (s \o t)[i + 1] = s[i + 1]  BY <1>2, <2>1
  <2> QED  BY <1>2, <1>3, <2>1, <2>2 DEF At
<1>4. At(s \o t, Len(s) + i) = At(t, i)
  <2>1. CASE i < Len(t)
    <3>1. /\ (Len(s) + i) + 1 \in 1 .. Len(s) + Len(t)
          /\ ~ ((Len(s) + i) + 1 <= Len(s))
          /\ ((Len(s) + i) + 1) - Len(s) = i + 1
          /\ Len(s) + i < Len(s) + Len(t)
      BY <1>1, <2>1
    <3>2. (s \o t)[(Len(s) + i) + 1] = t[i + 1]  BY <1>2, <3>1
    <3> QED  BY <1>2, <2>1, <3>1, <3>2 DEF At
  <2>2. CASE ~ (i < Len(t))
    <3>1. ~ (Len(s) + i < Len(s) + Len(t))  BY <1>1, <2>2
    <3> QED  BY <1>2, <2>2, <3>1 DEF At
  <2> QED  BY <2>1, <2>2
<1> QED  BY <1>3, <1>4

\* A part of a packet is found between what comes before it and what follows.
LEMMA MiddlePart ==
  ASSUME NEW s \in Bytes, NEW h \in Bytes, NEW t \in Bytes
  PROVE  SubSeq(s \o (h \o t), Len(s) + 1, Len(s) + Len(h)) = h
<1> DEFINE p == s \o (h \o t)
           r == SubSeq(p, Len(s) + 1, Len(s) + Len(h))
<1>1. Len(s) \in Nat /\ Len(h) \in Nat /\ Len(t) \in Nat
  BY LenProperties DEF Bytes
<1>2. /\ h \o t \in Bytes /\ Len(h \o t) = Len(h) + Len(t)
      /\ \A i \in 1 .. Len(h) + Len(t) : (h \o t)[i] =
           IF i <= Len(h) THEN h[i] ELSE t[i - Len(h)]
  BY ConcatProperties DEF Bytes
<1>3. /\ p \in Bytes /\ Len(p) = Len(s) + Len(h \o t)
      /\ \A i \in 1 .. Len(s) + Len(h \o t) : p[i] =
           IF i <= Len(s) THEN s[i] ELSE (h \o t)[i - Len(s)]
  BY <1>2, ConcatProperties DEF Bytes
<1> HIDE DEF p
<1>4. ASSUME NEW i \in 1 .. Len(h)
      PROVE  Len(s) + i \in 1 .. Len(p) /\ p[Len(s) + i] = h[i]
  <2>1. /\ Len(s) + i \in 1 .. Len(s) + Len(h \o t) /\ ~ (Len(s) + i <= Len(s))
        /\ (Len(s) + i) - Len(s) = i /\ i \in 1 .. Len(h) + Len(t) /\ i <= Len(h)
    BY <1>1, <1>2
  <2> QED  BY <1>2, <1>3, <2>1
<1>5. \A j \in Len(s) + 1 .. Len(s) + Len(h) : p[j] \in Nat
  <2> SUFFICES ASSUME NEW j \in Len(s) + 1 .. Len(s) + Len(h) PROVE p[j] \in Nat
    OBVIOUS
  <2>1. j - Len(s) \in 1 .. Len(h) /\ Len(s) + (j - Len(s)) = j  BY <1>1
  <2>2. h[j - Len(s)] \in Nat  BY <2>1, ElementOfSeq DEF Bytes
  <2> QED  BY <1>4, <2>1, <2>2
<1>6. Len(s) + 1 \in Int /\ Len(s) + Len(h) \in Int  BY <1>1
<1>7. /\ r \in Seq(Nat)
      /\ Len(r) = IF Len(s) + 1 <= Len(s) + Len(h)
                  THEN (Len(s) + Len(h)) - (Len(s) + 1) + 1 ELSE 0
      /\ \A i \in 1 .. (Len(s) + Len(h)) - (Len(s) + 1) + 1 : r[i] = p[(Len(s) + 1) + i - 1]
  BY <1>5, <1>6, SubSeqProperties
<1> HIDE DEF r
<1>8. Len(r) = Len(h)
  <2>1. \A x, y \in Nat : (IF x + 1 <= x + y THEN (x + y) - (x + 1) + 1 ELSE 0) = y
    OBVIOUS
  <2> QED  BY <1>1, <1>7, <2>1
<1>9. ASSUME NEW i \in 1 .. Len(h) PROVE r[i] = h[i]
  <2>1. i \in 1 .. (Len(s) + Len(h)) - (Len(s) + 1) + 1 /\ (Len(s) + 1) + i - 1 = Len(s) + i
    BY <1>1
  <2>2. r[i] = p[Len(s) + i]  BY <1>7, <2>1
  <2> QED  BY <1>4, <2>2
<1>10. r = h  BY <1>7, <1>8, <1>9, SeqEqual DEF Bytes
<1> QED  BY <1>10 DEF r, p

\* A handle is found again where its length is.
LEMMA HandleFound ==
  ASSUME NEW s \in Bytes, NEW h \in Bytes, NEW t \in Bytes
  PROVE  /\ HandleField(h) \in Bytes /\ Len(HandleField(h)) = Len(h) + 1
         /\ At(s \o (HandleField(h) \o t), Len(s)) = Len(h)
         /\ HandleAt(s \o (HandleField(h) \o t), Len(s)) = h
<1> DEFINE n == <<Len(h)>>
           p == s \o (HandleField(h) \o t)
<1>1. Len(s) \in Nat /\ Len(h) \in Nat /\ Len(t) \in Nat
  BY LenProperties DEF Bytes
<1>2. n \in Bytes /\ Len(n) = 1 /\ At(n, 0) = Len(h)  BY <1>1, ByteLengths
<1>3. HandleField(h) = n \o h  BY DEF HandleField
<1> HIDE DEF n
<1>4. HandleField(h) \in Bytes /\ Len(HandleField(h)) = Len(h) + 1
  <2>1. n \o h \in Bytes /\ Len(n \o h) = 1 + Len(h)  BY <1>2, Joined
  <2> QED  BY <1>1, <1>3, <2>1
<1>5. h \o t \in Bytes /\ HandleField(h) \o t \in Bytes
  BY <1>4, Joined
<1>6. HandleField(h) \o t = n \o (h \o t)
  BY <1>2, <1>3, JoinedTwice
<1>7. At(p, Len(s)) = Len(h)
  <2>1. At(p, Len(s) + 0) = At(HandleField(h) \o t, 0)
    <3>1. 0 \in Nat  OBVIOUS
    <3> QED  BY <1>5, <3>1, AtParts
  <2>2. At(n \o (h \o t), 0) = At(n, 0)
    <3>1. 0 \in Nat /\ 0 < Len(n)  BY <1>2
    <3> QED  BY <1>2, <1>5, <3>1, AtParts
  <2>3. At(n, 0) = Len(h)  BY <1>2
  <2>4. Len(s) + 0 = Len(s)  BY <1>1
  <2> QED  BY <1>6, <2>1, <2>2, <2>3, <2>4
<1>8. HandleAt(p, Len(s)) = h
  <2> DEFINE rest == h \o t
  <2>6. n \in Bytes /\ rest \in Bytes  BY <1>2, <1>5
  <2> HIDE DEF rest, p
  <2>7. (s \o n) \o rest = s \o (n \o rest)  BY <2>6, JoinedTwice
  <2>8. p = s \o (n \o rest)  BY <1>6, Zenon DEF rest, p
  <2>9. p = (s \o n) \o rest  BY <2>7, <2>8, Zenon
  <2>1. p = (s \o n) \o (h \o t)  BY <2>9, Zenon DEF rest
  <2>2. s \o n \in Bytes /\ Len(s \o n) = Len(s) + 1
    <3>1. s \o n \in Bytes /\ Len(s \o n) = Len(s) + Len(n)  BY <1>2, Joined, Zenon
    <3> QED  BY <1>2, <3>1, Zenon
  <2>3. SubSeq((s \o n) \o (h \o t), Len(s \o n) + 1, Len(s \o n) + Len(h)) = h
    BY <2>2, MiddlePart
  <2>4. (Len(s) + 1) + 1 = Len(s) + 2 /\ (Len(s) + 1) + Len(h) = Len(s) + 1 + Len(h)
    BY <1>1
  <2>5. SubSeq(p, Len(s) + 2, Len(s) + 1 + Len(h)) = h
    BY <2>1, <2>2, <2>3, <2>4
  <2> QED  BY <1>7, <2>5 DEF HandleAt
<1> QED  BY <1>4, <1>7, <1>8

\* The packet of a registration: its flag and its handle.
LEMMA RegistrationRead ==
  ASSUME NEW h \in Bytes
  PROVE  LET m == <<1>> \o HandleField(h)
         IN  m \in Bytes /\ FlagOf(m) = 1 /\ SrcHandle(m) = h /\ Len(m) = Len(h) + 2
<1> DEFINE s == <<1>>
<1>1. s \in Bytes /\ Len(s) = 1 /\ At(s, 0) = 1  BY ByteLengths
<1>2. << >> \in Bytes  BY EmptySeq DEF Bytes
<1> HIDE DEF s
<1>3. HandleField(h) \in Bytes /\ Len(HandleField(h)) = Len(h) + 1
  BY <1>1, <1>2, HandleFound
<1>4. HandleField(h) \o << >> = HandleField(h)  BY <1>3, ConcatEmptySeq DEF Bytes
<1>5. HandleAt(s \o HandleField(h), 1) = h
  <2>1. HandleAt(s \o (HandleField(h) \o << >>), Len(s)) = h  BY <1>1, <1>2, HandleFound
  <2> QED  BY <1>1, <1>4, <2>1
<1>6. At(s \o HandleField(h), 0) = 1
  <2>1. 0 \in Nat /\ 0 < Len(s)  BY <1>1
  <2> QED  BY <1>1, <1>3, <2>1, AtParts
<1>7. s \o HandleField(h) \in Bytes /\ Len(s \o HandleField(h)) = Len(h) + 2
  <2>1. /\ s \o HandleField(h) \in Bytes
        /\ Len(s \o HandleField(h)) = 1 + (Len(h) + 1)
    BY <1>1, <1>3, Joined
  <2>2. Len(h) \in Nat  BY ByteLengths
  <2> QED  BY <2>1, <2>2
<1> QED  BY <1>5, <1>6, <1>7 DEF FlagOf, SrcHandle, s

\* In m each of the handles dests is found where the ones before it end, p[k]
\* being the first k of them with their lengths, and B what is in front of them.
FoundIn(m, B, dests, p) ==
  /\ Len(dests) \in Nat /\ \A k \in 0 .. Len(dests) : p[k] \in Bytes
  /\ p[0] = << >>
  /\ \A k \in 1 .. Len(dests) :
       /\ Len(p[k]) = Len(p[k - 1]) + 1 + Len(dests[k])
       /\ At(m, Len(B) + Len(p[k - 1])) = Len(dests[k])
       /\ HandleAt(m, Len(B) + Len(p[k - 1])) = dests[k]

\* The handles of the destinations, one after the other as FlattenSeq puts
\* them, are found.
LEMMA DestsFound ==
  ASSUME NEW B \in Bytes, NEW T \in Bytes, NEW dests \in Seq(Bytes),
         NEW fields, \A i \in 1 .. Len(dests) : fields[i] = HandleField(dests[i]),
         NEW p, IsParts(p, Len(dests), fields, Nat)
  PROVE  FoundIn(B \o (p[Len(dests)] \o T), B, dests, p)
<1> DEFINE n == Len(dests)
           m == B \o (p[n] \o T)
           S == {j \in 0 .. n : \E u \in Bytes : p[n] = p[n - j] \o u}
<1>1. n \in Nat /\ DOMAIN dests = 1 .. n /\ \A k \in 1 .. n : dests[k] \in Bytes
  BY LenProperties, ElementOfSeq
<1>2. /\ \A k \in 0 .. n : p[k] \in Bytes
      /\ p[0] = << >>
      /\ \A k \in 1 .. n : p[k] = p[k - 1] \o HandleField(dests[k])
  BY <1>1 DEF IsParts, Bytes
<1>3. << >> \in Bytes  BY EmptySeq DEF Bytes
<1>4. \A h \in Bytes : HandleField(h) \in Bytes /\ Len(HandleField(h)) = Len(h) + 1
  BY <1>3, HandleFound
<1>5. 0 \in S
  <2>1. n - 0 = n /\ n \in 0 .. n /\ 0 \in 0 .. n  BY <1>1
  <2>2. p[n] \o << >> = p[n]  BY <1>2, <2>1, ConcatEmptySeq DEF Bytes
  <2> QED  BY <1>3, <2>1, <2>2
<1>6. ASSUME NEW j \in 1 .. n, j - 1 \in S PROVE j \in S
  <2>1. PICK u \in Bytes : p[n] = p[n - (j - 1)] \o u  BY <1>6
  <2>2. /\ j \in 0 .. n /\ n - (j - 1) \in 1 .. n /\ (n - (j - 1)) - 1 = n - j
        /\ n - j \in 0 .. n
    BY <1>1
  <2> DEFINE h == HandleField(dests[n - (j - 1)])
  <2>3. p[n - (j - 1)] = p[n - j] \o h  BY <1>2, <2>2
  <2>4. h \in Bytes /\ p[n - j] \in Bytes  BY <1>1, <1>2, <1>4, <2>2
  <2> HIDE DEF h
  <2>5. (p[n - j] \o h) \o u = p[n - j] \o (h \o u)  BY <2>4, JoinedTwice, ZenonT(60)
  <2>6. h \o u \in Bytes  BY <2>4, Joined
  <2>7. p[n] = p[n - j] \o (h \o u)  BY <2>1, <2>3, <2>5
  <2> QED  BY <2>2, <2>6, <2>7
<1>7. 0 .. n \subseteq S
  <2> HIDE DEF S
  <2> QED  BY <1>1, <1>5, <1>6, IntervalInduction
<1>8. ASSUME NEW k \in 1 .. n
      PROVE  /\ Len(p[k]) = Len(p[k - 1]) + 1 + Len(dests[k])
             /\ At(m, Len(B) + Len(p[k - 1])) = Len(dests[k])
             /\ HandleAt(m, Len(B) + Len(p[k - 1])) = dests[k]
  <2> DEFINE q == p[k - 1]
             d == dests[k]
             h == HandleField(d)
  <2>1. k - 1 \in 0 .. n /\ k \in 0 .. n /\ n - k \in 0 .. n /\ n - (n - k) = k  BY <1>1
  <2>2. q \in Bytes /\ d \in Bytes /\ h \in Bytes /\ Len(h) = Len(d) + 1
    BY <1>1, <1>2, <1>4, <2>1
  <2>3. p[k] = q \o h  BY <1>2
  <2>4. PICK u \in Bytes : p[n] = p[k] \o u
    <3>1. n - k \in S  BY <1>7, <2>1
    <3>2. PICK u \in Bytes : p[n] = p[n - (n - k)] \o u  BY <3>1
    <3> QED  BY <2>1, <3>2
  <2> HIDE DEF q, h, d
  <2>5. Len(p[k]) = Len(q) + 1 + Len(d)
    <3>1. Len(q \o h) = Len(q) + Len(h)  BY <2>2, Joined
    <3>2. Len(q) \in Nat /\ Len(d) \in Nat  BY <2>2, ByteLengths
    <3> QED  BY <2>2, <2>3, <3>1, <3>2
  <2>6. m = (B \o q) \o (h \o (u \o T))
    <3> DEFINE v == u \o T
               w == h \o v
    <3>1. v \in Bytes /\ q \o h \in Bytes  BY <2>2, Joined
    <3>2. ((q \o h) \o u) \o T = (q \o h) \o v  BY <3>1, JoinedTwice, ZenonT(60)
    <3>3. (q \o h) \o v = q \o w
      <4>1. q \in Bytes /\ h \in Bytes /\ v \in Bytes  BY <2>2, <3>1
      <4> HIDE DEF v
      <4> QED  BY <4>1, JoinedTwice, ZenonT(60)
    <3>4. B \o (q \o w) = (B \o q) \o w
      <4> HIDE DEF v
      <4>1. w \in Bytes /\ B \in Bytes /\ q \in Bytes  BY <2>2, <3>1, Joined
      <4> HIDE DEF w
      <4> QED  BY <4>1, JoinedTwice
    <3> QED  BY <2>3, <2>4, <3>2, <3>3, <3>4
  <2>7. B \o q \in Bytes /\ Len(B \o q) = Len(B) + Len(q) /\ u \o T \in Bytes
    BY <2>2, Joined
  <2>8. /\ At((B \o q) \o (h \o (u \o T)), Len(B \o q)) = Len(d)
        /\ HandleAt((B \o q) \o (h \o (u \o T)), Len(B \o q)) = d
    <3> DEFINE s == B \o q
               v == u \o T
    <3>1. s \in Bytes /\ v \in Bytes /\ d \in Bytes  BY <2>2, <2>7
    <3>2. h = HandleField(d)  BY DEF h
    <3> HIDE DEF s, v
    <3>3. /\ At(s \o (HandleField(d) \o v), Len(s)) = Len(d)
          /\ HandleAt(s \o (HandleField(d) \o v), Len(s)) = d
      BY <3>1, HandleFound
    <3> QED  BY <3>2, <3>3 DEF s, v
  <2> HIDE DEF m
  <2>9. At(m, Len(B) + Len(q)) = Len(d) /\ HandleAt(m, Len(B) + Len(q)) = d
    BY <2>6, <2>7, <2>8
  <2> QED  BY <2>5, <2>9 DEF q, d
<1> QED  BY <1>1, <1>2, <1>8 DEF FoundIn

CommandType == [flag : {4, 5, 6}, dests : Seq(Bytes), text : Bytes]

\* What buildMsgPacket puts into a packet: flag and sender, the destinations
\* with their number in front of them, and the text with its null.
LEMMA PacketShape ==
  ASSUME NEW src \in Bytes, NEW cmd \in CommandType
  PROVE  LET A == <<cmd.flag>> \o HandleField(src)
             n == Len(cmd.dests)
             T == cmd.text \o <<0>>
             m == BuildMsgPacket(src, cmd)
         IN  /\ A \in Bytes /\ Len(A) = Len(src) + 2 /\ T \in Bytes /\ n \in Nat
             /\ m \in Bytes
             /\ FlagOf(m) = cmd.flag /\ SrcHandle(m) = src /\ At(m, 1) = Len(src)
             /\ cmd.flag = 4 => m = A \o T
             /\ cmd.flag # 4 =>
                  \E p : /\ IsParts(p, n, [i \in DOMAIN cmd.dests |-> HandleField(cmd.dests[i])], Nat)
                         /\ A \o <<n>> \in Bytes /\ Len(A \o <<n>>) = Len(src) + 3
                         /\ m = (A \o <<n>>) \o (p[n] \o T)
                         /\ At(m, Len(src) + 2) = n
<1> DEFINE f == <<cmd.flag>>
           H == HandleField(src)
           A == f \o H
           n == Len(cmd.dests)
           N == <<n>>
           T == cmd.text \o <<0>>
           m == BuildMsgPacket(src, cmd)
           fields == [i \in DOMAIN cmd.dests |-> HandleField(cmd.dests[i])]
           X == IF cmd.flag = 4 THEN << >> ELSE N \o FlattenSeq(fields)
<1>1. cmd.flag \in {4, 5, 6} /\ cmd.dests \in Seq(Bytes) /\ cmd.text \in Bytes
  BY DEF CommandType
<1>2. n \in Nat /\ DOMAIN cmd.dests = 1 .. n /\ \A i \in 1 .. n : cmd.dests[i] \in Bytes
  BY <1>1, LenProperties, ElementOfSeq
<1>3. << >> \in Bytes  BY EmptySeq DEF Bytes
<1>4. \A h \in Bytes : HandleField(h) \in Bytes /\ Len(HandleField(h)) = Len(h) + 1
  BY <1>3, HandleFound
<1>5. /\ f \in Bytes /\ Len(f) = 1 /\ At(f, 0) = cmd.flag
      /\ N \in Bytes /\ Len(N) = 1 /\ At(N, 0) = n
      /\ <<0>> \in Bytes
  BY <1>1, <1>2, ByteLengths
<1>6. H \in Bytes /\ Len(H) = Len(src) + 1 /\ Len(src) \in Nat
  BY <1>4, ByteLengths
<1>7. A \in Bytes /\ Len(A) = Len(src) + 2
  <2>1. A \in Bytes /\ Len(A) = 1 + (Len(src) + 1)
    <3> HIDE DEF f, H
    <3>1. f \o H \in Bytes /\ Len(f \o H) = Len(f) + Len(H)  BY <1>5, <1>6, Joined
    <3> QED  BY <1>5, <1>6, <3>1
  <2> QED  BY <1>6, <2>1
<1>8. T \in Bytes  BY <1>1, <1>5, Joined
<1>9. fields \in Seq(Bytes) /\ Len(fields) = n
  <2>1. fields = [i \in 1 .. n |-> HandleField(cmd.dests[i])]  BY <1>2
  <2>2. \A i \in 1 .. n : HandleField(cmd.dests[i]) \in Bytes  BY <1>2, <1>4
  <2> HIDE DEF fields
  <2> QED  BY <1>2, <2>1, <2>2
<1> HIDE DEF fields
<1>10. PICK p : IsParts(p, n, fields, Nat) /\ FlattenSeq(fields) = p[n]
  BY <1>9, FlattenParts DEF Bytes
<1>11. p[n] \in Bytes
  <2>1. n \in 0 .. n  BY <1>2
  <2> QED  BY <1>10, <2>1 DEF IsParts, Bytes
<1>12. X \in Bytes
  <2>1. CASE cmd.flag = 4  BY <1>3, <2>1
  <2>2. CASE cmd.flag # 4  BY <1>5, <1>10, <1>11, <2>2, Joined
  <2> QED  BY <2>1, <2>2
<1>13. m = ((A \o X) \o cmd.text) \o <<0>>  BY DEF BuildMsgPacket, fields
<1> HIDE DEF m, X
<1>14. m = A \o (X \o T)
  <2> HIDE DEF A
  <2>1. A \o X \in Bytes /\ (A \o X) \o cmd.text \in Bytes  BY <1>1, <1>7, <1>12, Joined
  <2> DEFINE Y == A \o X
             z == <<0>>
  <2>2. (Y \o cmd.text) \o <<0>> = Y \o T
    <3>1. Y \in Bytes /\ z \in Bytes  BY <1>5, <2>1
    <3> HIDE DEF Y, z
    <3>2. (Y \o cmd.text) \o z = Y \o (cmd.text \o z)  BY <1>1, <3>1, JoinedTwice
    <3> QED  BY <3>2 DEF z
  <2>3. (A \o X) \o T = A \o (X \o T)
    <3> HIDE DEF T
    <3> QED  BY <1>7, <1>8, <1>12, JoinedTwice
  <2> HIDE DEF T
  <2> QED  BY <1>13, <2>2, <2>3
<1>15. m = f \o (H \o (X \o T)) /\ X \o T \in Bytes
  <2> HIDE DEF f, H, T
  <2>1. X \o T \in Bytes  BY <1>8, <1>12, Joined
  <2>2. (f \o H) \o (X \o T) = f \o (H \o (X \o T))  BY <1>5, <1>6, <2>1, JoinedTwice, ZenonT(60)
  <2> QED  BY <1>14, <2>1, <2>2
<1>16. m \in Bytes
  <2> HIDE DEF A
  <2> QED  BY <1>7, <1>14, <1>15, Joined
<1>17. SrcHandle(m) = src /\ At(m, 1) = Len(src)
  <2> HIDE DEF f, T
  <2> DEFINE v == X \o T
  <2>1. /\ At(f \o (H \o v), Len(f)) = Len(src)
        /\ HandleAt(f \o (H \o v), Len(f)) = src
    <3>1. v \in Bytes /\ f \in Bytes /\ src \in Bytes  BY <1>5, <1>15
    <3> HIDE DEF v
    <3> QED  BY <3>1, HandleFound
  <2> HIDE DEF H
  <2> QED  BY <1>5, <1>15, <2>1 DEF SrcHandle
<1>18. FlagOf(m) = cmd.flag
  <2> HIDE DEF f, H, T
  <2>1. H \o (X \o T) \in Bytes  BY <1>6, <1>15, Joined
  <2>2. 0 \in Nat /\ 0 < Len(f)  BY <1>5
  <2>3. At(f \o (H \o (X \o T)), 0) = At(f, 0)  BY <1>5, <2>1, <2>2, AtParts
  <2> QED  BY <1>5, <1>15, <2>3 DEF FlagOf
<1>19. cmd.flag = 4 => m = A \o T
  <2> HIDE DEF A, T
  <2>1. << >> \o T = T  BY <1>8, ConcatEmptySeq DEF Bytes
  <2> QED  BY <1>14, <2>1 DEF X
<1>20. ASSUME cmd.flag # 4
       PROVE  /\ A \o N \in Bytes /\ Len(A \o N) = Len(src) + 3
              /\ m = (A \o N) \o (p[n] \o T)
              /\ At(m, Len(src) + 2) = n
  <2> HIDE DEF A, T, N, f, H
  <2>1. X = N \o p[n]  BY <1>10, <1>20 DEF X, N
  <2>2. /\ A \o N \in Bytes /\ Len(A \o N) = Len(A) + Len(N) /\ p[n] \o T \in Bytes
        /\ N \o (p[n] \o T) \in Bytes
    BY <1>5, <1>7, <1>8, <1>11, Joined
  <2>3. Len(A \o N) = Len(src) + 3  BY <1>5, <1>6, <1>7, <2>2
  <2>4. (N \o p[n]) \o T = N \o (p[n] \o T)  BY <1>5, <1>8, <1>11, JoinedTwice, ZenonT(60)
  <2>5. (A \o N) \o (p[n] \o T) = A \o (N \o (p[n] \o T))
    BY <1>5, <1>7, <2>2, JoinedTwice, ZenonT(60)
  <2>6. m = A \o (N \o (p[n] \o T))  BY <1>14, <2>1, <2>4
  <2>7. At(A \o (N \o (p[n] \o T)), Len(A) + 0) = At(N \o (p[n] \o T), 0)
    <3>1. 0 \in Nat  OBVIOUS
    <3> QED  BY <1>7, <2>2, <3>1, AtParts
  <2>8. At(N \o (p[n] \o T), 0) = At(N, 0)
    <3>1. 0 \in Nat /\ 0 < Len(N)  BY <1>5
    <3> QED  BY <1>5, <2>2, <3>1, AtParts
  <2>9. Len(A) + 0 = Len(src) + 2  BY <1>6, <1>7
  <2>10. At(m, Len(src) + 2) = n  BY <1>5, <2>6, <2>7, <2>8, <2>9
  <2> QED  BY <2>2, <2>3, <2>5, <2>6, <2>10
<1>21. cmd.flag # 4 =>
         \E r : /\ IsParts(r, n, fields, Nat)
                /\ A \o N \in Bytes /\ Len(A \o N) = Len(src) + 3
                /\ m = (A \o N) \o (r[n] \o T)
                /\ At(m, Len(src) + 2) = n
  <2> HIDE DEF A, T, N, n, f, H
  <2> QED  BY <1>10, <1>20
<1> QED  BY <1>2, <1>7, <1>8, <1>16, <1>17, <1>18, <1>19, <1>21 DEF m, fields

\* The sums that getMsgIdx and processClient run up from length to length: where
\* n handles that start at e end, and where each of them starts.
EndOf(b, e, n) ==
  LET idx[k \in 0 .. n] == IF k = 0 THEN e ELSE idx[k - 1] + 1 + At(b, idx[k - 1])
  IN  idx[n]

Starts(b, e, n) ==
  LET idx[k \in 1 .. n] == IF k = 1 THEN e ELSE idx[k - 1] + At(b, idx[k - 1]) + 1
  IN  [k \in 1 .. n |-> idx[k]]

\* That is where the text and the destinations of a message are looked for.
LEMMA FieldsSought ==
  ASSUME NEW b
  PROVE  LET n == At(b, 2 + At(b, 1))
         IN  /\ GetMsgIdx(b, FALSE) = EndOf(b, (2 + At(b, 1)) + 1, n)
             /\ DestHandles(b) =
                  [k \in 1 .. n |-> HandleAt(b, Starts(b, 3 + At(b, 1), n)[k])]
<1> DEFINE n == At(b, 2 + At(b, 1))
           e == 3 + At(b, 1)
<1>1. GetMsgIdx(b, FALSE) = EndOf(b, (2 + At(b, 1)) + 1, n)
  BY DEF GetMsgIdx, EndOf
<1>2. DestHandles(b) = [k \in 1 .. n |-> HandleAt(b, Starts(b, e, n)[k])]
  <2> DEFINE jdx[k \in 1 .. n] == IF k = 1 THEN e ELSE jdx[k - 1] + At(b, jdx[k - 1]) + 1
  <2>1. DestHandles(b) = [k \in 1 .. n |-> HandleAt(b, jdx[k])]  BY DEF DestHandles
  <2>2. Starts(b, e, n) = [k \in 1 .. n |-> jdx[k]]  BY DEF Starts
  <2> HIDE DEF jdx, n, e
  <2> QED  BY <2>1, <2>2
<1> QED  BY <1>1, <1>2

\* The sums come out at r.
SumsTo(b, e, n, r) ==
  EndOf(b, e, n) = r[n] /\ \A k \in 1 .. n : Starts(b, e, n)[k] = r[k - 1]

\* They do when the handles lie where r says.
LEMMA OffsetsSummed ==
  ASSUME NEW n \in Nat, NEW b, NEW e \in Nat, NEW r \in [0 .. n -> Nat],
         r[0] = e,
         \A k \in 1 .. n : r[k] = r[k - 1] + 1 + At(b, r[k - 1]),
         \A k \in 1 .. n : At(b, r[k - 1]) \in Nat
  PROVE  SumsTo(b, e, n, r)
<1> DEFINE F(f) == f = [k \in 0 .. n |-> IF k = 0 THEN e ELSE f[k - 1] + 1 + At(b, f[k - 1])]
           G(f) == f = [k \in 1 .. n |-> IF k = 1 THEN e ELSE f[k - 1] + At(b, f[k - 1]) + 1]
           idx == CHOOSE f : F(f)
           jdx == CHOOSE f : G(f)
           w == [k \in 1 .. n |-> r[k - 1]]
<1>1. F(r)
  <2>1. ASSUME NEW k \in 0 .. n
        PROVE  r[k] = IF k = 0 THEN e ELSE r[k - 1] + 1 + At(b, r[k - 1])
    <3>1. CASE k = 0  BY <3>1
    <3>2. CASE k # 0
      <4>1. k \in 1 .. n  BY <3>2
      <4> QED  BY <3>2, <4>1
    <3> QED  BY <3>1, <3>2
  <2> QED  BY <2>1
<1>2. F(idx)
  <2> HIDE DEF F
  <2> QED  BY <1>1
<1>3. G(w)
  <2> SUFFICES ASSUME NEW k \in 1 .. n
               PROVE  r[k - 1] = IF k = 1 THEN e ELSE w[k - 1] + At(b, w[k - 1]) + 1
    OBVIOUS
  <2>1. CASE k = 1  BY <2>1
  <2>2. CASE k # 1
    <3>1. k - 1 \in 1 .. n /\ (k - 1) - 1 \in 0 .. n  BY <2>2
    <3>2. w[k - 1] = r[(k - 1) - 1]  BY <3>1
    <3>3. /\ r[k - 1] = r[(k - 1) - 1] + 1 + At(b, r[(k - 1) - 1])
          /\ At(b, r[(k - 1) - 1]) \in Nat /\ r[(k - 1) - 1] \in Nat
      BY <3>1
    <3> HIDE DEF w
    <3> QED  BY <2>2, <3>2, <3>3
  <2> QED  BY <2>1, <2>2
<1>4. G(jdx)
  <2> HIDE DEF G, w
  <2> QED  BY <1>3
<1>5. \A k \in 0 .. n : idx[k] = r[k]
  <2> HIDE DEF idx
  <2> DEFINE Q == {k \in 0 .. n : idx[k] = r[k]}
  <2>1. 0 \in Q
    <3>1. 0 \in 0 .. n  OBVIOUS
    <3>2. idx[0] = e  BY <1>2, <3>1
    <3> QED  BY <3>1, <3>2
  <2>2. ASSUME NEW k \in 1 .. n, k - 1 \in Q PROVE k \in Q
    <3>1. k \in 0 .. n /\ k # 0  OBVIOUS
    <3>2. idx[k] = idx[k - 1] + 1 + At(b, idx[k - 1])  BY <1>2, <3>1
    <3> QED  BY <2>2, <3>1, <3>2
  <2>3. 0 .. n \subseteq Q
    <3> HIDE DEF Q
    <3> QED  BY <2>1, <2>2, IntervalInduction
  <2> QED  BY <2>3
<1>6. \A k \in 1 .. n : jdx[k] = w[k]
  <2> HIDE DEF jdx
  <2> DEFINE Q == {k \in 0 .. n : k # 0 => jdx[k] = w[k]}
  <2>1. 0 \in Q  OBVIOUS
  <2>2. ASSUME NEW k \in 1 .. n, k - 1 \in Q PROVE k \in Q
    <3>1. jdx[k] = IF k = 1 THEN e ELSE jdx[k - 1] + At(b, jdx[k - 1]) + 1  BY <1>4
    <3>2. w[k] = IF k = 1 THEN e ELSE w[k - 1] + At(b, w[k - 1]) + 1  BY <1>3
    <3>3. k \in 0 .. n  OBVIOUS
    <3>4. CASE k = 1
      <4> HIDE DEF w
      <4> QED  BY <3>1, <3>2, <3>3, <3>4
    <3>5. CASE k # 1
      <4>1. k - 1 # 0  BY <3>5
      <4> HIDE DEF w
      <4>2. jdx[k - 1] = w[k - 1]  BY <2>2, <4>1
      <4> QED  BY <3>1, <3>2, <3>3, <3>5, <4>2
    <3> QED  BY <3>4, <3>5
  <2>3. 0 .. n \subseteq Q
    <3> HIDE DEF Q
    <3> QED  BY <2>1, <2>2, IntervalInduction
  <2>4. \A k \in 1 .. n : k \in 0 .. n /\ k # 0  OBVIOUS
  <2> HIDE DEF w
  <2> QED  BY <2>3, <2>4
<1>7. EndOf(b, e, n) = idx[n]  BY DEF EndOf
<1>8. Starts(b, e, n) = [k \in 1 .. n |-> jdx[k]]  BY DEF Starts
<1>9. n \in 0 .. n  OBVIOUS
<1> HIDE DEF idx, jdx
<1> QED  BY <1>5, <1>6, <1>7, <1>8, <1>9 DEF SumsTo

\* A message is read as it was written: sender, destinations and text.
LEMMA MessageRead ==
  ASSUME NEW src \in Bytes, NEW cmd \in CommandType
  PROVE  LET m == BuildMsgPacket(src, cmd)
         IN  /\ m \in Bytes /\ FlagOf(m) = cmd.flag /\ SrcHandle(m) = src
             /\ Printed(m) = [src |-> src, text |-> cmd.text]
             /\ cmd.flag # 4 =>
                  /\ Len(cmd.dests) > 0 => FirstDest(m) = cmd.dests[1]
                  /\ DestHandles(m) = cmd.dests
<1> DEFINE A == <<cmd.flag>> \o HandleField(src)
           n == Len(cmd.dests)
           N == <<n>>
           T == cmd.text \o <<0>>
           m == BuildMsgPacket(src, cmd)
           fields == [i \in DOMAIN cmd.dests |-> HandleField(cmd.dests[i])]
<1>1. cmd.flag \in {4, 5, 6} /\ cmd.dests \in Seq(Bytes) /\ cmd.text \in Bytes
  BY DEF CommandType
<1>2. /\ A \in Bytes /\ Len(A) = Len(src) + 2 /\ T \in Bytes /\ n \in Nat
      /\ m \in Bytes
      /\ FlagOf(m) = cmd.flag /\ SrcHandle(m) = src /\ At(m, 1) = Len(src)
      /\ cmd.flag = 4 => m = A \o T
      /\ cmd.flag # 4 =>
           \E p : /\ IsParts(p, n, fields, Nat)
                  /\ A \o N \in Bytes /\ Len(A \o N) = Len(src) + 3
                  /\ m = (A \o N) \o (p[n] \o T)
                  /\ At(m, Len(src) + 2) = n
  BY PacketShape
<1> HIDE DEF m, A, N, fields
<1>3. Len(src) \in Nat /\ Len(cmd.text) \in Nat /\ Len(<<0>>) = 1 /\ <<0>> \in Bytes
  BY <1>1, ByteLengths
<1>4. Len(T) = Len(cmd.text) + 1  BY <1>1, <1>3, Joined
<1>5. ASSUME NEW B \in Bytes, m = B \o T, GetMsgIdx(m, cmd.flag = 4) = Len(B)
      PROVE  Printed(m) = [src |-> src, text |-> cmd.text]
  <2>1. SubSeq(B \o (cmd.text \o <<0>>), Len(B) + 1, Len(B) + Len(cmd.text)) = cmd.text
    <3> DEFINE z == <<0>>
    <3>1. z \in Bytes  BY <1>3
    <3> HIDE DEF z
    <3>2. SubSeq(B \o (cmd.text \o z), Len(B) + 1, Len(B) + Len(cmd.text)) = cmd.text
      BY <1>1, <3>1, MiddlePart
    <3> QED  BY <3>2 DEF z
  <2>2. Len(m) - 1 = Len(B) + Len(cmd.text)
    <3> HIDE DEF T
    <3>1. Len(B \o T) = Len(B) + Len(T) /\ Len(B) \in Nat  BY <1>2, Joined, ByteLengths
    <3> QED  BY <1>3, <1>4, <1>5, <3>1
  <2>3. SubSeq(m, Len(B) + 1, Len(m) - 1) = cmd.text  BY <1>5, <2>1, <2>2
  <2> HIDE DEF T
  <2>4. GetMsgIdx(m, FlagOf(m) = 4) = Len(B)  BY <1>2, <1>5
  <2> QED  BY <1>2, <2>3, <2>4 DEF Printed
<1>6. CASE cmd.flag = 4
  <2>1. GetMsgIdx(m, cmd.flag = 4) = Len(A)
    <3>1. 2 + Len(src) = Len(src) + 2  BY <1>3
    <3> QED  BY <1>2, <1>6, <3>1 DEF GetMsgIdx
  <2>2. Printed(m) = [src |-> src, text |-> cmd.text]
    <3> HIDE DEF T
    <3> QED  BY <1>2, <1>5, <1>6, <2>1
  <2> QED  BY <1>2, <1>6, <2>2 DEF m
<1>7. CASE cmd.flag # 4
  <2> DEFINE B == A \o N
  <2>1. PICK p : /\ IsParts(p, n, fields, Nat)
                 /\ B \in Bytes /\ Len(B) = Len(src) + 3
                 /\ m = B \o (p[n] \o T)
                 /\ At(m, Len(src) + 2) = n
    BY <1>2, <1>7
  <2> HIDE DEF T, B
  <2>2. \A i \in 1 .. Len(cmd.dests) : fields[i] = HandleField(cmd.dests[i])
    BY <1>1, LenProperties DEF fields
  <2>3. /\ n \in Nat /\ \A k \in 0 .. n : p[k] \in Bytes
        /\ p[0] = << >>
        /\ \A k \in 1 .. n :
             /\ Len(p[k]) = Len(p[k - 1]) + 1 + Len(cmd.dests[k])
             /\ At(m, Len(B) + Len(p[k - 1])) = Len(cmd.dests[k])
             /\ HandleAt(m, Len(B) + Len(p[k - 1])) = cmd.dests[k]
    <3> DEFINE ds == cmd.dests
               x == B \o (p[Len(ds)] \o T)
    <3>1. ds \in Seq(Bytes) /\ T \in Bytes /\ B \in Bytes  BY <1>1, <1>2, <2>1
    <3>2. /\ \A i \in 1 .. Len(ds) : fields[i] = HandleField(ds[i])
          /\ IsParts(p, Len(ds), fields, Nat)
      BY <2>1, <2>2
    <3>3. m = x  BY <2>1
    <3>4. FoundIn(x, B, ds, p)
      <4> HIDE DEF ds
      <4> QED  BY <3>1, <3>2, DestsFound
    <3> HIDE DEF x
    <3> QED  BY <3>3, <3>4 DEF FoundIn
  <2>4. n = Len(cmd.dests) /\ DOMAIN cmd.dests = 1 .. n /\ \A k \in 1 .. n : cmd.dests[k] \in Bytes
    BY <1>1, LenProperties, ElementOfSeq
  <2> HIDE DEF n
  <2> DEFINE e == 3 + Len(src)
             r == [k \in 0 .. n |-> e + Len(p[k])]
             jdx == Starts(m, e, n)
  <2>5. /\ \A k \in 0 .. n : Len(p[k]) \in Nat
        /\ \A k \in 1 .. n : Len(cmd.dests[k]) \in Nat
        /\ e \in Nat /\ e = Len(B) /\ Len(p[0]) = 0
    BY <1>3, <2>1, <2>3, <2>4, ByteLengths, EmptySeq
  <2>7. 2 + At(m, 1) = Len(src) + 2 /\ At(m, 2 + At(m, 1)) = n /\ 3 + At(m, 1) = e
    <3>1. 2 + At(m, 1) = Len(src) + 2  BY <1>2, <1>3
    <3>2. At(m, 2 + At(m, 1)) = n  BY <2>1, <3>1
    <3> QED  BY <1>2, <1>3, <3>1, <3>2
  <2>12. (2 + At(m, 1)) + 1 = e  BY <1>2, <1>3
  <2> HIDE DEF e
  <2>6. EndOf(m, e, n) = r[n] /\ \A k \in 1 .. n : Starts(m, e, n)[k] = r[k - 1]
    <3>1. r \in [0 .. n -> Nat]  BY <2>5
    <3>2. r[0] = e
      <4>1. 0 \in 0 .. n  BY <2>3
      <4> QED  BY <2>5, <4>1
    <3>3. \A k \in 1 .. n : At(m, r[k - 1]) = Len(cmd.dests[k])
      <4> SUFFICES ASSUME NEW k \in 1 .. n PROVE At(m, r[k - 1]) = Len(cmd.dests[k])
        OBVIOUS
      <4>1. k - 1 \in 0 .. n  BY <2>3
      <4>2. r[k - 1] = Len(B) + Len(p[k - 1])  BY <2>5, <4>1
      <4> HIDE DEF r
      <4> QED  BY <2>3, <4>2
    <3>4. \A k \in 1 .. n : r[k] = r[k - 1] + 1 + Len(cmd.dests[k])
      <4> SUFFICES ASSUME NEW k \in 1 .. n PROVE r[k] = r[k - 1] + 1 + Len(cmd.dests[k])
        OBVIOUS
      <4>1. k - 1 \in 0 .. n /\ k \in 0 .. n  BY <2>3
      <4>2. Len(p[k]) = Len(p[k - 1]) + 1 + Len(cmd.dests[k])  BY <2>3
      <4>3. r[k] = e + Len(p[k]) /\ r[k - 1] = e + Len(p[k - 1])  BY <4>1
      <4>4. Len(p[k - 1]) \in Nat /\ Len(cmd.dests[k]) \in Nat /\ e \in Nat  BY <2>5, <4>1
      <4>5. \A x, y \in Nat : e + (x + 1 + y) = (e + x) + 1 + y  BY <4>4
      <4> HIDE DEF r
      <4> QED  BY <4>2, <4>3, <4>4, <4>5
    <3>5. \A k \in 1 .. n : r[k] = r[k - 1] + 1 + At(m, r[k - 1])
      <4> HIDE DEF r
      <4> QED  BY <3>3, <3>4
    <3>6. \A k \in 1 .. n : At(m, r[k - 1]) \in Nat
      <4> HIDE DEF r
      <4> QED  BY <2>5, <3>3
    <3>7. e \in Nat /\ n \in Nat  BY <2>3, <2>5
    <3> HIDE DEF r
    <3>8. SumsTo(m, e, n, r)
      BY <3>1, <3>2, <3>5, <3>6, <3>7, OffsetsSummed
    <3> QED  BY <3>8 DEF SumsTo
  <2>8. DestHandles(m) = [k \in 1 .. n |-> HandleAt(m, jdx[k])]
    <3>1. DestHandles(m) = [k \in 1 .. At(m, 2 + At(m, 1)) |->
             HandleAt(m, Starts(m, 3 + At(m, 1), At(m, 2 + At(m, 1)))[k])]
      BY FieldsSought
    <3> QED  BY <2>7, <3>1
  <2>9. DestHandles(m) = cmd.dests
    <3>1. \A k \in 1 .. n : HandleAt(m, jdx[k]) = cmd.dests[k]
      <4> SUFFICES ASSUME NEW k \in 1 .. n PROVE HandleAt(m, jdx[k]) = cmd.dests[k]
        OBVIOUS
      <4>1. k - 1 \in 0 .. n  BY <2>3
      <4>2. jdx[k] = Len(B) + Len(p[k - 1])  BY <2>5, <2>6, <4>1
      <4> QED  BY <2>3, <4>2
    <3>2. DestHandles(m) = [k \in 1 .. n |-> cmd.dests[k]]  BY <2>8, <3>1
    <3>3. cmd.dests = [k \in 1 .. n |-> cmd.dests[k]]  BY <1>1, <2>4, LenProperties
    <3> QED  BY <3>2, <3>3
  <2>10. n > 0 => FirstDest(m) = cmd.dests[1]
    <3> SUFFICES ASSUME n > 0 PROVE FirstDest(m) = cmd.dests[1]
      OBVIOUS
    <3>1. 1 \in 1 .. n /\ 1 - 1 = 0 /\ Len(B) + Len(p[0]) = e
      <4>1. 1 \in 1 .. n /\ 1 - 1 = 0  BY <2>3
      <4>2. Len(B) + Len(p[0]) = e  BY <2>5
      <4> QED  BY <4>1, <4>2
    <3>2. HandleAt(m, Len(B) + Len(p[1 - 1])) = cmd.dests[1]  BY <2>3, <3>1
    <3> QED  BY <2>7, <3>1, <3>2 DEF FirstDest
  <2>11. Printed(m) = [src |-> src, text |-> cmd.text]
    <3> DEFINE C == B \o p[n]
    <3>1. n \in 0 .. n  BY <2>3
    <3>2. p[n] \in Bytes  BY <2>3, <3>1
    <3>3. C \in Bytes /\ Len(C) = Len(B) + Len(p[n])  BY <2>1, <3>2, Joined
    <3>4. m = C \o T
      <4>1. C \o T = B \o (p[n] \o T)
        <5>1. T \in Bytes /\ B \in Bytes /\ p[n] \in Bytes  BY <1>2, <2>1, <3>2
        <5> QED  BY <5>1, JoinedTwice
      <4> QED  BY <2>1, <4>1
    <3>5. GetMsgIdx(m, cmd.flag = 4) = Len(C)
      <4>1. EndOf(m, e, n) = Len(C)  BY <2>5, <2>6, <3>1, <3>3
      <4>2. GetMsgIdx(m, FALSE) = EndOf(m, (2 + At(m, 1)) + 1, At(m, 2 + At(m, 1)))
        BY FieldsSought
      <4>3. (cmd.flag = 4) = FALSE  BY <1>7
      <4> HIDE DEF C
      <4> QED  BY <2>7, <2>12, <4>1, <4>2, <4>3
    <3> HIDE DEF C
    <3> QED  BY <1>5, <3>3, <3>4, <3>5
  <2> QED  BY <1>2, <2>9, <2>10, <2>11 DEF m, n
<1> QED  BY <1>6, <1>7

\* The packets the server makes itself.
LEMMA RepliesRead ==
  /\ \A n \in Nat : <<n>> \in Bytes /\ FlagOf(<<n>>) = n
  /\ \A n \in Nat : <<11, n>> \in Bytes /\ FlagOf(<<11, n>>) = 11 /\ At(<<11, n>>, 1) = n
  /\ \A h \in Bytes : BuildErrPacket(h) \in Bytes /\ FlagOf(BuildErrPacket(h)) = 7
  /\ \A h \in Bytes : /\ BuildHandleListReq(h) \in Bytes
                      /\ BuildHandleListReq(h) = << >> \/ FlagOf(BuildHandleListReq(h)) = 12
<1>1. \A n \in Nat : <<n>> \in Bytes /\ FlagOf(<<n>>) = n  BY ByteLengths DEF FlagOf
<1>2. ASSUME NEW n \in Nat
      PROVE  <<11, n>> \in Bytes /\ FlagOf(<<11, n>>) = 11 /\ At(<<11, n>>, 1) = n
  BY DEF Bytes, FlagOf, At
<1>3. ASSUME NEW h \in Bytes, NEW f \in Nat
      PROVE  LET s == <<f>> \o HandleField(h)
             IN  /\ s \in Bytes /\ Len(s) = Len(h) + 2 /\ FlagOf(s) = f
                 /\ Front(s) \in Bytes /\ FlagOf(Front(s)) = f
  <2> DEFINE s == <<f>> \o HandleField(h)
  <2>1. << >> \in Bytes  BY EmptySeq DEF Bytes
  <2>2. HandleField(h) \in Bytes /\ Len(HandleField(h)) = Len(h) + 1  BY <2>1, HandleFound
  <2>3. /\ <<f>> \in Bytes /\ Len(<<f>>) = 1 /\ At(<<f>>, 0) = f
        /\ Len(h) \in Nat
    BY ByteLengths
  <2>4. s \in Bytes /\ Len(s) = Len(h) + 2
    <3>1. s \in Bytes /\ Len(s) = 1 + (Len(h) + 1)  BY <2>2, <2>3, Joined
    <3> QED  BY <2>3, <3>1
  <2>5. At(s, 0) = f
    <3>1. 0 \in Nat /\ 0 < Len(<<f>>)  BY <2>3
    <3>2. At(<<f>> \o HandleField(h), 0) = At(<<f>>, 0)  BY <2>2, <2>3, <3>1, AtParts
    <3> QED  BY <2>3, <3>2
  <2> HIDE DEF s
  <2>6. s[1] = f  BY <2>3, <2>4, <2>5 DEF At
  <2>7. Front(s) \in Bytes /\ FlagOf(Front(s)) = f
    <3> DEFINE r == SubSeq(s, 1, Len(s) - 1)
    <3>1. \A i \in 1 .. Len(s) - 1 : s[i] \in Nat  BY <2>3, <2>4, ElementOfSeq DEF Bytes
    <3>2. 1 \in Int /\ Len(s) - 1 \in Int /\ 1 <= Len(s) - 1  BY <2>3, <2>4
    <3>3. /\ r \in Seq(Nat) /\ Len(r) = (Len(s) - 1) - 1 + 1
          /\ \A i \in 1 .. (Len(s) - 1) - 1 + 1 : r[i] = s[1 + i - 1]
      BY <3>1, <3>2, SubSeqProperties
    <3>4. 1 \in 1 .. (Len(s) - 1) - 1 + 1 /\ 1 + 1 - 1 = 1  BY <2>3, <2>4
    <3>5. r[1] = s[1] /\ 0 < Len(r)
      <4> HIDE DEF r
      <4>1. r[1] = s[1]  BY <3>3, <3>4
      <4>2. 0 < Len(r)  BY <2>3, <2>4, <3>3
      <4> QED  BY <4>1, <4>2
    <3>6. Front(s) = r  BY DEF Front
    <3> HIDE DEF r
    <3> QED  BY <2>6, <3>3, <3>5, <3>6 DEF FlagOf, At, Bytes
  <2> QED  BY <2>4, <2>5, <2>7 DEF FlagOf, s
<1>4. \A h \in Bytes : BuildErrPacket(h) \in Bytes /\ FlagOf(BuildErrPacket(h)) = 7
  BY <1>3 DEF BuildErrPacket
<1>5. ASSUME NEW h \in Bytes
      PROVE  /\ BuildHandleListReq(h) \in Bytes
             /\ BuildHandleListReq(h) = << >> \/ FlagOf(BuildHandleListReq(h)) = 12
  <2>1. CASE h = << >>
    <3>1. BuildHandleListReq(h) = << >>  BY <2>1 DEF BuildHandleListReq, NoPacket
    <3>2. << >> \in Bytes  BY EmptySeq DEF Bytes
    <3> QED  BY <3>1, <3>2
  <2>2. CASE h # << >>
    <3>1. BuildHandleListReq(h) = Front(<<12>> \o HandleField(h))
      BY <2>2 DEF BuildHandleListReq
    <3> QED  BY <1>3, <3>1
  <2> QED  BY <2>1, <2>2
<1> QED  BY <1>1, <1>2, <1>4, <1>5

LineType == [letter : STRING, number : Nat, words : Seq(Bytes)]

\* parseUserCmd: a line is no command, asks for the handles, or is a message
\* with its text, and with a destination unless it is a broadcast.
LEMMA LineParsed ==
  ASSUME NEW line \in LineType
  PROVE  \/ ParseUserCmd(line) = Invalid
         \/ ParseUserCmd(line) = [flag |-> 10]
         \/ /\ ParseUserCmd(line) \in CommandType
            /\ ParseUserCmd(line).flag # 4 => Len(ParseUserCmd(line).dests) > 0
<1> DEFINE n == DestCount(line)
           flag == GetFlag(line.letter)
           text == Rest(line.words, n + 1)
           dests == SubSeq(line.words, 1, n)
<1>1. line.number \in Nat /\ line.words \in Seq(Bytes)  BY DEF LineType
<1>2. flag \in {0, 4, 5, 6, 10}  BY DEF GetFlag
<1>3. flag = 0 => ParseUserCmd(line) = Invalid  BY DEF ParseUserCmd
<1>4. flag = 10 => ParseUserCmd(line) = [flag |-> 10]  BY DEF ParseUserCmd
<1>5. ASSUME flag \in {4, 5, 6}, ParseUserCmd(line) # Invalid
      PROVE  /\ ParseUserCmd(line) = [flag |-> flag, dests |-> dests, text |-> text]
             /\ n < Len(line.words) /\ (flag = 6 => n > 0)
  <2>1. Len(line.words) \in Nat /\ n \in Nat
    <3>1. Len(line.words) \in Nat  BY <1>1, LenProperties
    <3>2. n \in Nat  BY <1>1 DEF DestCount
    <3> QED  BY <3>1, <3>2
  <2> DEFINE bad == \/ flag = 6 /\ n \notin 2 .. MAX_DEST_HANDLES
                    \/ Len(line.words) <= n
                    \/ Len(text) > MAX_MESSAGE_LENGTH - 1
  <2>2. ParseUserCmd(line) =
          IF bad THEN Invalid ELSE [flag |-> flag, dests |-> dests, text |-> text]
    BY <1>5 DEF ParseUserCmd
  <2>3. ~bad  BY <1>5, <2>2
  <2>4. n < Len(line.words)  BY <2>1, <2>3
  <2>5. flag = 6 => n > 0
    <3>1. flag = 6 => n \in 2 .. MAX_DEST_HANDLES  BY <2>3
    <3> HIDE DEF n, flag
    <3> QED  BY <2>1, <3>1
  <2> HIDE DEF bad
  <2> QED  BY <2>2, <2>3, <2>4, <2>5
<1>6. ASSUME flag \in {4, 5, 6}, ParseUserCmd(line) # Invalid
      PROVE  /\ ParseUserCmd(line) \in CommandType
             /\ ParseUserCmd(line).flag # 4 => Len(ParseUserCmd(line).dests) > 0
  <2>1. /\ ParseUserCmd(line) = [flag |-> flag, dests |-> dests, text |-> text]
        /\ n < Len(line.words) /\ (flag = 6 => n > 0)
    BY <1>5, <1>6
  <2>2. flag = 5 => n = 1  BY DEF DestCount
  <2>3. /\ n \in Nat /\ Len(line.words) \in Nat
        /\ \A i \in 1 .. Len(line.words) : line.words[i] \in Bytes
    <3>1. Len(line.words) \in Nat /\ \A i \in 1 .. Len(line.words) : line.words[i] \in Bytes
      BY <1>1, LenProperties, ElementOfSeq
    <3>2. n \in Nat  BY <1>1 DEF DestCount
    <3> QED  BY <3>1, <3>2
  <2> HIDE DEF n, flag
  <2>4. dests \in Seq(Bytes) /\ Len(dests) = n
    <3>1. \A i \in 1 .. n : line.words[i] \in Bytes  BY <2>1, <2>3
    <3>2. 1 \in Int /\ n \in Int  BY <2>3
    <3>3. dests \in Seq(Bytes) /\ Len(dests) = IF 1 <= n THEN n - 1 + 1 ELSE 0
      BY <3>1, <3>2, SubSeqProperties
    <3> HIDE DEF dests
    <3> QED  BY <2>3, <3>3
  <2>5. text \in Bytes
    <3> DEFINE k == n + 1
               w == line.words
               ss == [i \in 1 .. Len(w) - k + 1 |->
                        IF i = 1 THEN w[k] ELSE <<Space>> \o w[i + k - 1]]
    <3>1. <<Space>> \in Bytes
      <4>1. 32 \in Nat  OBVIOUS
      <4> QED  BY <4>1, ByteLengths DEF Space
    <3>2. ASSUME NEW i \in 1 .. Len(w) - k + 1
          PROVE  (IF i = 1 THEN w[k] ELSE <<Space>> \o w[i + k - 1]) \in Bytes
      <4>1. k \in 1 .. Len(w) /\ i + k - 1 \in 1 .. Len(w)  BY <2>1, <2>3
      <4>2. w[k] \in Bytes /\ w[i + k - 1] \in Bytes
        <5> HIDE DEF k
        <5> QED  BY <2>3, <4>1
      <4>3. <<Space>> \o w[i + k - 1] \in Bytes
        <5> DEFINE z == <<Space>>
                   x == w[i + k - 1]
        <5>1. z \in Bytes /\ x \in Bytes  BY <3>1, <4>2
        <5> HIDE DEF z, x
        <5>2. z \o x \in Bytes  BY <5>1, Joined
        <5> QED  BY <5>2 DEF z, x
      <4> HIDE DEF k
      <4> QED  BY <4>2, <4>3
    <3>3. Len(w) - k + 1 \in Nat  BY <2>1, <2>3
    <3>4. ss \in Seq(Seq(Nat))
      <4> DEFINE l == Len(w) - k + 1
      <4>1. \A i \in 1 .. l : ss[i] \in Bytes
        <5> HIDE DEF k
        <5> QED  BY <3>2
      <4>2. ss = [i \in 1 .. l |-> ss[i]]  OBVIOUS
      <4>3. l \in Nat  BY <3>3
      <4> HIDE DEF ss, l
      <4> QED  BY <4>1, <4>2, <4>3 DEF Bytes
    <3>5. text = FlattenSeq(ss)  BY DEF Rest
    <3> HIDE DEF ss, text
    <3> QED  BY <3>4, <3>5, FlattenElements DEF Bytes
  <2> HIDE DEF dests, text
  <2>6. ParseUserCmd(line) \in CommandType  BY <1>6, <2>1, <2>4, <2>5 DEF CommandType
  <2>7. flag # 4 => n > 0  BY <1>6, <2>1, <2>2, <2>3
  <2> QED  BY <2>1, <2>4, <2>6, <2>7
<1> HIDE DEF flag
<1> QED  BY <1>2, <1>3, <1>4, <1>6

-----------------------------------------------------------------------------
(***************************************************************************)
(* What a step sends                                                       *)
(***************************************************************************)

SendType == [fd : Fds, pdu : Bytes]

\* Queue r is q and, behind it, PDUs of sends for client c.
Grown(q, r, sends, c, at) ==
  /\ r \in Seq(Bytes) /\ Len(q) <= Len(r)
  /\ \A j \in 1 .. Len(q) : r[j] = q[j]
  /\ \A j \in Len(q) + 1 .. Len(r) :
       \E i \in 1 .. Len(sends) :
         at[sends[i].fd] = c /\ r[j] = sends[i].pdu /\ ~Faults(sends[i])

\* The PDUs of d are PDUs of sends for client c.
AmongSent(d, sends, c, at) ==
  /\ d \in Seq(Bytes)
  /\ \A j \in 1 .. Len(d) : \E i \in 1 .. Len(sends) :
       at[sends[i].fd] = c /\ d[j] = sends[i].pdu

\* What reaches a client was sent to its descriptor.
LEMMA PdusSent ==
  ASSUME NEW sends \in Seq(SendType), NEW c
  PROVE  AmongSent(PdusFor(c, sends), sends, c, peer)
<1> DEFINE one(i) == IF peer[sends[i].fd] = c THEN <<sends[i].pdu>> ELSE << >>
           ss == [i \in 1 .. Len(sends) |-> one(i)]
<1>1. /\ Len(sends) \in Nat /\ DOMAIN sends = 1 .. Len(sends)
      /\ \A i \in 1 .. Len(sends) : sends[i].pdu \in Bytes
  <2>1. Len(sends) \in Nat /\ DOMAIN sends = 1 .. Len(sends)  BY LenProperties
  <2>2. \A i \in 1 .. Len(sends) : sends[i] \in SendType  BY ElementOfSeq
  <2> QED  BY <2>1, <2>2 DEF SendType
<1>2. \A i \in 1 .. Len(sends) : one(i) \in Seq(Bytes)
  <2> SUFFICES ASSUME NEW i \in 1 .. Len(sends) PROVE one(i) \in Seq(Bytes)
    OBVIOUS
  <2>1. <<sends[i].pdu>> \in Seq(Bytes)  BY <1>1
  <2>2. << >> \in Seq(Bytes)  BY EmptySeq
  <2> QED  BY <2>1, <2>2
<1>3. ss \in Seq(Seq(Bytes)) /\ Len(ss) = Len(sends)
  <2> HIDE DEF one
  <2> QED  BY <1>1, <1>2
<1>4. PdusFor(c, sends) = FlattenSeq(ss)  BY <1>1 DEF PdusFor
<1>5. /\ FlattenSeq(ss) \in Seq(Bytes)
      /\ \A j \in 1 .. Len(FlattenSeq(ss)) :
           \E i \in 1 .. Len(ss) : \E k \in 1 .. Len(ss[i]) : FlattenSeq(ss)[j] = ss[i][k]
  <2> HIDE DEF ss
  <2> QED  BY <1>3, FlattenElements
<1>6. ASSUME NEW i \in 1 .. Len(sends), NEW k \in 1 .. Len(one(i))
      PROVE  peer[sends[i].fd] = c /\ one(i)[k] = sends[i].pdu
  <2>1. CASE peer[sends[i].fd] = c  BY <2>1
  <2>2. CASE peer[sends[i].fd] # c
    <3>1. Len(one(i)) = 0  BY <2>2
    <3> HIDE DEF one
    <3> QED  BY <3>1
  <2> QED  BY <2>1, <2>2
<1>7. \A i \in 1 .. Len(ss) : ss[i] = one(i)  BY <1>3
<1> HIDE DEF ss, one
<1>8. ASSUME NEW j \in 1 .. Len(FlattenSeq(ss))
      PROVE  \E i \in 1 .. Len(sends) :
               peer[sends[i].fd] = c /\ FlattenSeq(ss)[j] = sends[i].pdu
  <2>1. PICK i \in 1 .. Len(ss) : \E k \in 1 .. Len(ss[i]) : FlattenSeq(ss)[j] = ss[i][k]
    BY <1>5
  <2>2. PICK k \in 1 .. Len(ss[i]) : FlattenSeq(ss)[j] = ss[i][k]  BY <2>1
  <2>3. i \in 1 .. Len(sends) /\ k \in 1 .. Len(one(i)) /\ ss[i] = one(i)  BY <1>3, <1>7
  <2>4. peer[sends[i].fd] = c /\ one(i)[k] = sends[i].pdu  BY <1>6, <2>3
  <2> QED  BY <2>2, <2>3, <2>4
<1> QED  BY <1>4, <1>5, <1>8 DEF AmongSent

\* The sends of a step, cut off or not: a queue only grows at its end, and by
\* what is sent to that client; the queue of a client that is gone stays.
LEMMA SendsArrive ==
  ASSUME NEW sends \in Seq(SendType), SendAll(sends),
         toClient \in [Clients -> Seq(Bytes)], reset \subseteq gone
  PROVE  /\ serverUp' \in BOOLEAN /\ reset' \subseteq gone
         /\ toClient' \in [Clients -> Seq(Bytes)]
         /\ \A c \in Clients : Grown(toClient[c], toClient'[c], sends, c, peer)
         /\ \A c \in Clients \cap gone : toClient'[c] = toClient[c]
<1>1. PICK k \in 0 .. Len(sends) :
        /\ k < Len(sends) => MayKill(sends, k + 1)
        /\ \A i \in 1 .. k : ~Faults(sends[i])
        /\ serverUp' = (k = Len(sends))
        /\ toClient' = [c \in Clients |->
                          IF c \in gone THEN toClient[c]
                          ELSE toClient[c] \o PdusFor(c, SubSeq(sends, 1, k))]
        /\ reset' = reset \cup {c \in gone : PdusFor(c, SubSeq(sends, 1, k)) # << >>}
  <2>1. PICK all \in {sends} : \E k \in 0 .. Len(all) :
          /\ k < Len(all) => MayKill(all, k + 1)
          /\ \A i \in 1 .. k : ~Faults(all[i])
          /\ serverUp' = (k = Len(all))
          /\ \E sent \in {SubSeq(all, 1, k)} :
               /\ toClient' = [c \in Clients |->
                                 IF c \in gone THEN toClient[c]
                                 ELSE toClient[c] \o PdusFor(c, sent)]
               /\ reset' = reset \cup {c \in gone : PdusFor(c, sent) # << >>}
    BY DEF SendAll
  <2>2. all = sends  OBVIOUS
  <2>3. PICK k \in 0 .. Len(sends) :
          /\ k < Len(sends) => MayKill(sends, k + 1)
          /\ \A i \in 1 .. k : ~Faults(sends[i])
          /\ serverUp' = (k = Len(sends))
          /\ \E sent \in {SubSeq(sends, 1, k)} :
               /\ toClient' = [c \in Clients |->
                                 IF c \in gone THEN toClient[c]
                                 ELSE toClient[c] \o PdusFor(c, sent)]
               /\ reset' = reset \cup {c \in gone : PdusFor(c, sent) # << >>}
    BY <2>1, <2>2
  <2> QED  BY <2>3
<1> DEFINE sent == SubSeq(sends, 1, k)
<1>2. Len(sends) \in Nat /\ \A i \in 1 .. Len(sends) : sends[i] \in SendType
  BY LenProperties, ElementOfSeq
<1>3. sent \in Seq(SendType) /\ Len(sent) = k /\ \A i \in 1 .. k : sent[i] = sends[i]
  <2>1. 1 \in Int /\ k \in Int /\ \A i \in 1 .. k : sends[i] \in SendType  BY <1>2
  <2>2. /\ sent \in Seq(SendType)
        /\ Len(sent) = IF 1 <= k THEN k - 1 + 1 ELSE 0
        /\ \A i \in 1 .. k - 1 + 1 : sent[i] = sends[1 + i - 1]
    BY <2>1, SubSeqProperties
  <2> HIDE DEF sent
  <2>3. Len(sent) = k  BY <1>2, <2>2
  <2>4. ASSUME NEW i \in 1 .. k PROVE sent[i] = sends[i]
    <3>1. i \in 1 .. k - 1 + 1 /\ 1 + i - 1 = i  BY <1>2
    <3> QED  BY <2>2, <3>1
  <2> QED  BY <2>2, <2>3, <2>4
<1>4. /\ toClient' = [c \in Clients |-> IF c \in gone THEN toClient[c]
                                       ELSE toClient[c] \o PdusFor(c, sent)]
      /\ reset' = reset \cup {c \in gone : PdusFor(c, sent) # << >>}
  BY <1>1
<1> HIDE DEF sent
<1>5. ASSUME NEW c \in Clients
      PROVE  /\ Grown(toClient[c], toClient'[c], sends, c, peer)
             /\ c \in gone => toClient'[c] = toClient[c]
  <2> DEFINE q == toClient[c]
             d == PdusFor(c, sent)
  <2>1. q \in Seq(Bytes)  OBVIOUS
  <2>2. /\ d \in Seq(Bytes)
        /\ \A j \in 1 .. Len(d) : \E i \in 1 .. Len(sent) :
             peer[sent[i].fd] = c /\ d[j] = sent[i].pdu
    <3>1. AmongSent(d, sent, c, peer)  BY <1>3, PdusSent
    <3> HIDE DEF d
    <3> QED  BY <3>1 DEF AmongSent
  <2>3. Len(q) \in Nat /\ Len(d) \in Nat  BY <2>1, <2>2, LenProperties
  <2>4. CASE c \in gone
    <3>1. toClient'[c] = q  BY <1>4, <2>4
    <3> HIDE DEF q
    <3>2. Len(q) + 1 .. Len(q) = {}  BY <2>3
    <3> QED  BY <2>1, <2>3, <3>1, <3>2 DEF Grown, q
  <2>5. CASE c \notin gone
    <3>1. toClient'[c] = q \o d  BY <1>4, <2>5
    <3> HIDE DEF q, d
    <3>2. /\ q \o d \in Seq(Bytes) /\ Len(q \o d) = Len(q) + Len(d)
          /\ \A j \in 1 .. Len(q) + Len(d) : (q \o d)[j] =
               IF j <= Len(q) THEN q[j] ELSE d[j - Len(q)]
      BY <2>1, <2>2, ConcatProperties
    <3>3. \A j \in 1 .. Len(q) : j \in 1 .. Len(q) + Len(d) /\ j <= Len(q)  BY <2>3
    <3>4. ASSUME NEW j \in Len(q) + 1 .. Len(q) + Len(d)
          PROVE  \E i \in 1 .. Len(sends) :
                   peer[sends[i].fd] = c /\ (q \o d)[j] = sends[i].pdu /\ ~Faults(sends[i])
      <4>1. /\ j \in 1 .. Len(q) + Len(d) /\ ~ (j <= Len(q))
            /\ j - Len(q) \in 1 .. Len(d)
        BY <2>3
      <4>2. PICK i \in 1 .. Len(sent) : peer[sent[i].fd] = c /\ d[j - Len(q)] = sent[i].pdu
        BY <2>2, <4>1
      <4>3. i \in 1 .. Len(sends) /\ sent[i] = sends[i] /\ ~Faults(sends[i])  BY <1>1, <1>2, <1>3
      <4> QED  BY <3>2, <4>1, <4>2, <4>3
    <3>5. Len(q) <= Len(q \o d)  BY <2>3, <3>2
    <3> HIDE DEF Grown
    <3>6. Grown(q, q \o d, sends, c, peer)
      BY <3>2, <3>3, <3>4, <3>5 DEF Grown
    <3> QED  BY <2>5, <3>1, <3>6 DEF q
  <2> QED  BY <2>4, <2>5
<1>6. toClient' \in [Clients -> Seq(Bytes)]
  <2>1. \A c \in Clients : toClient'[c] \in Seq(Bytes)  BY <1>5 DEF Grown
  <2>2. toClient' = [c \in Clients |-> toClient'[c]]  BY <1>4
  <2> QED  BY <2>1, <2>2
<1>7. serverUp' \in BOOLEAN /\ reset' \subseteq gone  BY <1>1, <1>4
<1> QED  BY <1>5, <1>6, <1>7

\* What is sent to one living client arrives, up to a PDU that could not be built:
\* nothing else stops the server.
LEMMA AnswerArrives ==
  ASSUME NEW sends \in Seq(SendType), SendAll(sends),
         toClient \in [Clients -> Seq(Bytes)],
         NEW fd, NEW c \in Clients \ gone, peer[fd] = c, c # Nobody,
         \A i \in 1 .. Len(sends) : sends[i].fd = fd
  PROVE  \E k \in 0 .. Len(sends) :
           /\ toClient'[c] \in Seq(Bytes)
           /\ Len(toClient'[c]) = Len(toClient[c]) + k
           /\ \A j \in 1 .. Len(toClient[c]) : toClient'[c][j] = toClient[c][j]
           /\ \A j \in 1 .. k : /\ toClient'[c][Len(toClient[c]) + j] = sends[j].pdu
                                /\ ~Faults(sends[j])
           /\ serverUp' => k = Len(sends)
           /\ (\A i \in 1 .. Len(sends) : ~Faults(sends[i])) => k = Len(sends)
<1>1. PICK k \in 0 .. Len(sends) :
        /\ k < Len(sends) => MayKill(sends, k + 1)
        /\ \A i \in 1 .. k : ~Faults(sends[i])
        /\ serverUp' = (k = Len(sends))
        /\ toClient' = [x \in Clients |->
                          IF x \in gone THEN toClient[x]
                          ELSE toClient[x] \o PdusFor(x, SubSeq(sends, 1, k))]
  <2>1. PICK all \in {sends} : \E k \in 0 .. Len(all) :
          /\ k < Len(all) => MayKill(all, k + 1)
          /\ \A i \in 1 .. k : ~Faults(all[i])
          /\ serverUp' = (k = Len(all))
          /\ \E sent \in {SubSeq(all, 1, k)} :
               /\ toClient' = [x \in Clients |->
                                 IF x \in gone THEN toClient[x]
                                 ELSE toClient[x] \o PdusFor(x, sent)]
               /\ reset' = reset \cup {x \in gone : PdusFor(x, sent) # << >>}
    BY DEF SendAll
  <2>2. all = sends  OBVIOUS
  <2>3. PICK k \in 0 .. Len(sends) :
          /\ k < Len(sends) => MayKill(sends, k + 1)
          /\ \A i \in 1 .. k : ~Faults(sends[i])
          /\ serverUp' = (k = Len(sends))
          /\ \E sent \in {SubSeq(sends, 1, k)} :
               /\ toClient' = [x \in Clients |->
                                 IF x \in gone THEN toClient[x]
                                 ELSE toClient[x] \o PdusFor(x, sent)]
               /\ reset' = reset \cup {x \in gone : PdusFor(x, sent) # << >>}
    BY <2>1, <2>2
  <2> QED  BY <2>3
<1> DEFINE sent == SubSeq(sends, 1, k)
<1>2. Len(sends) \in Nat /\ \A i \in 1 .. Len(sends) : sends[i] \in SendType
  BY LenProperties, ElementOfSeq
<1>3. (\A i \in 1 .. Len(sends) : ~Faults(sends[i])) => k = Len(sends)
  <2>1. ASSUME k < Len(sends), \A i \in 1 .. Len(sends) : ~Faults(sends[i]) PROVE FALSE
    <3>1. MayKill(sends, k + 1)  BY <1>1, <2>1
    <3>2. k + 1 \in 1 .. Len(sends)  BY <1>2, <2>1
    <3>3. peer[sends[k + 1].fd] = c /\ ~Faults(sends[k + 1])  BY <2>1, <3>2
    <3> QED  BY <3>1, <3>3 DEF MayKill
  <2>2. \A x \in Nat : \A y \in 0 .. x : ~ (y < x) => y = x  OBVIOUS
  <2> QED  BY <1>2, <2>1, <2>2
<1>4. /\ sent \in Seq(SendType) /\ Len(sent) = k /\ DOMAIN sent = 1 .. k
      /\ \A i \in 1 .. k : sent[i] = sends[i] /\ sends[i].fd = fd /\ sends[i].pdu \in Bytes
  <2>1. 1 \in Int /\ k \in Int /\ \A i \in 1 .. k : sends[i] \in SendType /\ sends[i].fd = fd
    BY <1>2
  <2>2. /\ sent \in Seq(SendType)
        /\ Len(sent) = IF 1 <= k THEN k - 1 + 1 ELSE 0
        /\ \A i \in 1 .. k - 1 + 1 : sent[i] = sends[1 + i - 1]
    BY <2>1, SubSeqProperties
  <2> HIDE DEF sent
  <2>3. Len(sent) = k  BY <1>2, <2>2
  <2>4. ASSUME NEW i \in 1 .. k PROVE sent[i] = sends[i]
    <3>1. i \in 1 .. k - 1 + 1 /\ 1 + i - 1 = i  BY <1>2
    <3> QED  BY <2>2, <3>1
  <2>5. DOMAIN sent = 1 .. k  BY <2>2, <2>3, LenProperties
  <2>6. \A i \in 1 .. k : sends[i].pdu \in Bytes  BY <2>1 DEF SendType
  <2> QED  BY <2>1, <2>2, <2>3, <2>4, <2>5, <2>6
<1> DEFINE ss == [i \in 1 .. k |-> <<sends[i].pdu>>]
           q == toClient[c]
           d == FlattenSeq(ss)
<1>5. toClient'[c] = q \o PdusFor(c, sent)  BY <1>1
<1>20. serverUp' => k = Len(sends)  BY <1>1
<1>21. \A i \in 1 .. k : ~Faults(sends[i])  BY <1>1
<1> HIDE DEF sent
<1>6. PdusFor(c, sent) = d
  <2>1. [i \in DOMAIN sent |-> IF peer[sent[i].fd] = c THEN <<sent[i].pdu>> ELSE << >>] = ss
    BY <1>4
  <2> QED  BY <2>1 DEF PdusFor
<1>7. /\ ss \in Seq(Seq(Bytes)) /\ Len(ss) = k /\ k \in Nat
      /\ \A i \in 1 .. Len(ss) : Len(ss[i]) = 1 /\ ss[i][1] = sends[i].pdu
  <2>1. \A i \in 1 .. k : <<sends[i].pdu>> \in Seq(Bytes)  BY <1>4
  <2>2. k \in Nat  BY <1>2
  <2> QED  BY <1>4, <2>1, <2>2
<1> HIDE DEF ss
<1>8. d \in Seq(Bytes) /\ Len(d) = k /\ \A i \in 1 .. k : d[i] = sends[i].pdu
  <2>1. d \in Seq(Bytes)  BY <1>7, FlattenElements
  <2>2. Len(d) = Len(ss) /\ \A i \in 1 .. Len(ss) : d[i] = ss[i][1]
    BY <1>7, FlattenSingletons
  <2> QED  BY <1>7, <2>1, <2>2
<1>9. q \in Seq(Bytes)  OBVIOUS
<1>10. Len(q) \in Nat  BY <1>9, LenProperties
<1> HIDE DEF q, d
<1>11. /\ q \o d \in Seq(Bytes) /\ Len(q \o d) = Len(q) + k
       /\ \A j \in 1 .. Len(q) + k : (q \o d)[j] =
            IF j <= Len(q) THEN q[j] ELSE d[j - Len(q)]
  <2>1. /\ q \o d \in Seq(Bytes) /\ Len(q \o d) = Len(q) + Len(d)
        /\ \A j \in 1 .. Len(q) + Len(d) : (q \o d)[j] =
             IF j <= Len(q) THEN q[j] ELSE d[j - Len(q)]
    BY <1>8, <1>9, ConcatProperties
  <2> QED  BY <1>8, <2>1
<1>12. ASSUME NEW j \in 1 .. k PROVE (q \o d)[Len(q) + j] = sends[j].pdu
  <2>1. /\ Len(q) + j \in 1 .. Len(q) + k /\ ~ (Len(q) + j <= Len(q))
        /\ (Len(q) + j) - Len(q) = j
    BY <1>7, <1>10
  <2> QED  BY <1>8, <1>11, <2>1
<1>13. ASSUME NEW j \in 1 .. Len(q) PROVE (q \o d)[j] = q[j]
  <2>1. j \in 1 .. Len(q) + k /\ j <= Len(q)  BY <1>7, <1>10
  <2> QED  BY <1>11, <2>1
<1>14. toClient'[c] = q \o d  BY <1>5, <1>6 DEF q
<1>15. /\ toClient'[c] \in Seq(Bytes)
       /\ Len(toClient'[c]) = Len(toClient[c]) + k
       /\ \A j \in 1 .. Len(toClient[c]) : toClient'[c][j] = toClient[c][j]
       /\ \A j \in 1 .. k : toClient'[c][Len(toClient[c]) + j] = sends[j].pdu
  BY <1>11, <1>12, <1>13, <1>14 DEF q
<1> QED  BY <1>3, <1>15, <1>20, <1>21

-----------------------------------------------------------------------------
(***************************************************************************)
(* The inductive invariant                                                 *)
(***************************************************************************)

Typed ==
  /\ serverUp \in BOOLEAN
  /\ backlog \in Seq(Clients)
  /\ peer \in [Fds -> Clients \cup {Nobody}]
  /\ toServer \in [Clients -> Seq(Bytes)]
  /\ toClient \in [Clients -> Seq(Bytes)]
  /\ reset \subseteq gone /\ gone = {c \in Clients : phase[c] = "exited"}
  /\ table \in Seq(EntryType) /\ Len(table) <= MaxHandles
  /\ pollSet = {fd \in Fds : peer[fd] # Nobody}
  /\ phase \in [Clients -> {"new", "running", "exited"}]
  /\ clientHandle \in [Clients -> Bytes]
  /\ \A c \in Clients : Len(clientHandle[c]) <= MAX_HANDLE_LENGTH
  /\ expectingHandleList \in [Clients -> BOOLEAN]
  /\ remainingHandles \in [Clients -> Nat]
  /\ refused \subseteq Clients /\ oversize \subseteq Clients /\ typed \in 0 .. MaxCommands

\* A client has one connection at most, and none before it is started; what was
\* on its way to it is lost when it ends.
Connections ==
  /\ \A i, j \in 1 .. Len(backlog) : backlog[i] = backlog[j] => i = j
  /\ \A fd \in Fds : \A i \in 1 .. Len(backlog) : peer[fd] # backlog[i]
  /\ \A f, g \in Fds : peer[f] = peer[g] /\ peer[f] # Nobody => f = g
  /\ \A c \in Clients :
       phase[c] = "new" => ~Connected(c) /\ toServer[c] = << >> /\ toClient[c] = << >>
  /\ \A c \in gone : toClient[c] = << >>

Registered(c) == \E i \in 1 .. Len(table) : peer[table[i].socket] = c

\* PDU m is what c, started under handle h, sends for a line its user types.
Spoken(h, c, m) ==
  \E line \in Lines[c] :
    /\ Command[line] # Invalid
    /\ \/ Command[line].flag = 10 /\ m = <<10>>
       \/ /\ Command[line].flag # 10 /\ ~Unbuildable(h, Command[line])
          /\ m = BuildMsgPacket(h, Command[line])

\* The first PDU of a client is its handle; what follows it is what its user
\* types, and the server does not read that before it has registered the handle.
QueueOf(q, h, c, registered) ==
  \A i \in 1 .. Len(q) :
    \/ i = 1 /\ ~registered /\ q[i] = <<1>> \o HandleField(h)
    \/ (i > 1 \/ registered) /\ Spoken(h, c, q[i])

Queues ==
  \A c \in Clients :
    /\ QueueOf(toServer[c], clientHandle[c], c, Registered(c))
    /\ phase[c] = "running" /\ Connected(c) /\ ~Registered(c) => toServer[c] # << >>

\* Who sends a PDU the server cannot receive is known to do so.
Sized ==
  \A c \in Clients : \A i \in 1 .. Len(toServer[c]) :
    Len(toServer[c][i]) > MAXBUF => c \in oversize

\* A client that the running server has dropped has sent such a PDU, or has been
\* told that it is refused, or will be.
Told ==
  \A c \in Clients :
    phase[c] = "running" /\ serverUp /\ ~Connected(c) =>
      c \in refused \cup oversize \/ \E i \in 1 .. Len(toClient[c]) : FlagOf(toClient[c][i]) = 3

ServerFlags == {2, 3, 4, 5, 6, 7, 11, 12, 13}
Answers ==
  \A c \in Clients : \A i \in 1 .. Len(toClient[c]) : FlagOf(toClient[c][i]) \in ServerFlags

\* From position i on, q holds n handles and the end of the list, whole or cut off.
Listing(q, i, n, whole) ==
  /\ whole => i + n + 1 <= Len(q)
  /\ \A j \in i + 1 .. i + n : j <= Len(q) => FlagOf(q[j]) = 12
  /\ i + n + 1 <= Len(q) => FlagOf(q[i + n + 1]) = 13

\* Handle lists arrive in one piece, unless the server ends on the way: the rest of
\* the one that has begun to arrive is first in the queue, all others have their
\* number in front of them.
ListsOf(q, expecting, n, whole) ==
  /\ expecting => Listing(q, 0, n, whole)
  /\ \A i \in 1 .. Len(q) : FlagOf(q[i]) = 11 => Listing(q, i, At(q[i], 1), whole)
  /\ \A i \in 1 .. Len(q) : FlagOf(q[i]) \in {12, 13} =>
       \/ expecting /\ i <= n + 1
       \/ \E j \in 1 .. i - 1 : FlagOf(q[j]) = 11 /\ i <= j + At(q[j], 1) + 1

Lists ==
  \A c \in Clients \ gone :
    ListsOf(toClient[c], expectingHandleList[c], remainingHandles[c], serverUp)

\* A message on its way to c is one that another client, already started, has
\* typed for it.
MeantFor(m, c, names, started) ==
  FlagOf(m) \in {4, 5, 6} =>
    \E sender \in started : \E line \in Lines[sender] :
      /\ Command[line].flag = FlagOf(m)
      /\ Printed(m) = [src |-> names[sender], text |-> Command[line].text]
      /\ IF Command[line].flag = 4 THEN names[sender] # names[c]
         ELSE names[c] \in ToSet(Command[line].dests)

Started == {c \in Clients : phase[c] # "new"}

Meant ==
  \A c \in Clients : \A i \in 1 .. Len(toClient[c]) :
    MeantFor(toClient[c][i], c, clientHandle, Started)

IInv == /\ Typed /\ Connections /\ TableSound /\ Queues /\ Sized
        /\ Told /\ Answers /\ Lists /\ Meant
-----------------------------------------------------------------------------
(***************************************************************************)
(* What the users type                                                     *)
(***************************************************************************)

\* The line of sender behind PDU m, which says h is its handle.
Meaning(m, h, c, line) ==
  /\ Command[line] \in CommandType /\ Command[line].flag = FlagOf(m)
  /\ SrcHandle(m) = h /\ Len(h) < MAX_HANDLE_LENGTH
  /\ \A d \in ToSet(Command[line].dests) : Len(d) < MAX_HANDLE_LENGTH
  /\ Printed(m) = [src |-> h, text |-> Command[line].text]
  /\ Command[line].flag # 4 =>
       /\ Len(Command[line].dests) > 0 /\ FirstDest(m) = Command[line].dests[1]
       /\ DestHandles(m) = Command[line].dests

\* What is sent for a line asks for the handles or is a message, and says what
\* was typed.
LEMMA SpokenRead ==
  ASSUME NEW c \in Clients, NEW h \in Bytes, NEW m, Spoken(h, c, m)
  PROVE  /\ m \in Bytes /\ FlagOf(m) \in {4, 5, 6, 10}
         /\ FlagOf(m) # 10 => \E line \in Lines[c] : Meaning(m, h, c, line)
<1>1. PICK line \in Lines[c] :
        /\ Command[line] # Invalid
        /\ \/ Command[line].flag = 10 /\ m = <<10>>
           \/ /\ Command[line].flag # 10 /\ ~Unbuildable(h, Command[line])
              /\ m = BuildMsgPacket(h, Command[line])
  BY DEF Spoken
<1>2. line \in LineType
  <2>1. Lines \in [Clients -> SUBSET LineType]  BY UsersAssumption DEF LineType, Bytes
  <2> QED  BY <2>1
<1>3. Command[line] = ParseUserCmd(line)
  <2>1. line \in UNION {Lines[x] : x \in Clients}  OBVIOUS
  <2> QED  BY <2>1 DEF Command
<1> DEFINE cmd == Command[line]
<1>4. \/ cmd = Invalid
      \/ cmd = [flag |-> 10]
      \/ cmd \in CommandType /\ (cmd.flag # 4 => Len(cmd.dests) > 0)
  BY <1>2, <1>3, LineParsed
<1> HIDE DEF cmd
<1>5. CASE cmd = [flag |-> 10]
  <2>1. m = <<10>>  BY <1>1, <1>5 DEF cmd
  <2> QED  BY <2>1, RepliesRead
<1>6. CASE cmd \in CommandType /\ (cmd.flag # 4 => Len(cmd.dests) > 0)
  <2>1. cmd.flag \in {4, 5, 6}  BY <1>6 DEF CommandType
  <2>2. m = BuildMsgPacket(h, cmd) /\ ~Unbuildable(h, cmd)  BY <1>1, <2>1 DEF cmd
  <2>5. Len(h) < MAX_HANDLE_LENGTH
    <3>1. Len(h) \in Nat /\ MAX_HANDLE_LENGTH \in Nat  BY LengthAssumption, ByteLengths
    <3>2. ~ (Len(h) >= MAX_HANDLE_LENGTH)  BY <2>2 DEF Unbuildable
    <3> QED  BY <3>1, <3>2
  <2>6. ASSUME NEW d \in ToSet(cmd.dests) PROVE Len(d) < MAX_HANDLE_LENGTH
    <3>1. cmd.dests \in Seq(Bytes)  BY <1>6 DEF CommandType
    <3>2. PICK i \in DOMAIN cmd.dests : d = cmd.dests[i]  BY DEF ToSet
    <3>3. d \in Bytes  BY <3>1, <3>2, LenProperties, ElementOfSeq
    <3>4. Len(d) \in Nat /\ MAX_HANDLE_LENGTH \in Nat  BY <3>3, LengthAssumption, ByteLengths
    <3>5. ~ (Len(d) >= MAX_HANDLE_LENGTH)  BY <2>2, <3>2 DEF Unbuildable
    <3> QED  BY <3>4, <3>5
  <2>3. /\ m \in Bytes /\ FlagOf(m) = cmd.flag /\ SrcHandle(m) = h
        /\ Printed(m) = [src |-> h, text |-> cmd.text]
        /\ cmd.flag # 4 =>
             /\ Len(cmd.dests) > 0 => FirstDest(m) = cmd.dests[1]
             /\ DestHandles(m) = cmd.dests
    BY <1>6, <2>2, MessageRead
  <2>4. Meaning(m, h, c, line)  BY <1>6, <2>3, <2>5, <2>6 DEF Meaning, cmd
  <2> QED  BY <2>1, <2>3, <2>4
<1> QED  BY <1>1, <1>4, <1>5, <1>6 DEF cmd

\* The packet of a line is what is spoken.
LEMMA PacketSpoken ==
  ASSUME NEW c \in Clients, NEW line \in Lines[c],
         Command[line] # Invalid, PacketOf(c, Command[line]) # << >>
  PROVE  Spoken(clientHandle[c], c, PacketOf(c, Command[line]))
BY DEF PacketOf, Spoken, NoPacket

-----------------------------------------------------------------------------
(***************************************************************************)
(* Handle lists in a queue                                                 *)
(***************************************************************************)

\* A byte of a packet is a number.
LEMMA BytesAreNumbers == \A s \in Bytes : \A i \in Nat : At(s, i) \in Nat
<1> SUFFICES ASSUME NEW s \in Bytes, NEW i \in Nat PROVE At(s, i) \in Nat
  OBVIOUS
<1>1. CASE i < Len(s)
  <2>1. i + 1 \in 1 .. Len(s)  BY <1>1, ByteLengths
  <2> QED  BY <1>1, <2>1, ElementOfSeq DEF At, Bytes
<1>2. CASE ~ (i < Len(s))  BY <1>2 DEF At
<1> QED  BY <1>1, <1>2

\* What is not part of a list can follow at any time.
LEMMA ListsGrow ==
  ASSUME NEW q \in Seq(Bytes), NEW r \in Seq(Bytes), NEW e \in BOOLEAN, NEW n \in Nat,
         NEW w \in BOOLEAN, ListsOf(q, e, n, TRUE), Len(q) <= Len(r),
         \A j \in 1 .. Len(q) : r[j] = q[j],
         \A j \in Len(q) + 1 .. Len(r) : FlagOf(r[j]) \notin {11, 12, 13}
  PROVE  ListsOf(r, e, n, w)
<1>1. /\ Len(q) \in Nat /\ Len(r) \in Nat
      /\ \A i \in 1 .. Len(q) : At(q[i], 1) \in Nat
  <2>1. \A i \in 1 .. Len(q) : q[i] \in Bytes  BY ElementOfSeq
  <2>2. 1 \in Nat  OBVIOUS
  <2> QED  BY <2>1, <2>2, LenProperties, BytesAreNumbers
<1>2. ASSUME NEW i \in 0 .. Len(q), NEW k \in Nat, Listing(q, i, k, TRUE)
      PROVE  Listing(r, i, k, w)
  <2>1. i + k + 1 <= Len(r) /\ i + k + 1 \in 1 .. Len(q)  BY <1>1, <1>2 DEF Listing
  <2>2. \A j \in i + 1 .. i + k : j \in 1 .. Len(q) /\ j <= Len(q)  BY <1>1, <2>1
  <2>3. i + k + 1 <= Len(q)  BY <2>1
  <2> QED  BY <1>2, <2>1, <2>2, <2>3 DEF Listing
<1>3. e => Listing(r, 0, n, w)
  <2>1. 0 \in 0 .. Len(q)  BY <1>1
  <2> QED  BY <1>2, <2>1 DEF ListsOf
<1>4. ASSUME NEW i \in 1 .. Len(r), FlagOf(r[i]) \in {11, 12, 13}
      PROVE  i \in 1 .. Len(q) /\ r[i] = q[i]
  BY <1>1, <1>4
<1>5. ASSUME NEW i \in 1 .. Len(r), FlagOf(r[i]) = 11 PROVE Listing(r, i, At(r[i], 1), w)
  <2>1. i \in 1 .. Len(q) /\ r[i] = q[i] /\ i \in 0 .. Len(q)  BY <1>1, <1>4, <1>5
  <2>2. Listing(q, i, At(q[i], 1), TRUE)  BY <1>5, <2>1 DEF ListsOf
  <2> QED  BY <1>1, <1>2, <2>1, <2>2
<1>6. ASSUME NEW i \in 1 .. Len(r), FlagOf(r[i]) \in {12, 13}
      PROVE  \/ e /\ i <= n + 1
             \/ \E j \in 1 .. i - 1 : FlagOf(r[j]) = 11 /\ i <= j + At(r[j], 1) + 1
  <2>1. i \in 1 .. Len(q) /\ r[i] = q[i]  BY <1>4, <1>6
  <2>2. \/ e /\ i <= n + 1
        \/ \E j \in 1 .. i - 1 : FlagOf(q[j]) = 11 /\ i <= j + At(q[j], 1) + 1
    BY <1>6, <2>1 DEF ListsOf
  <2>3. \A j \in 1 .. i - 1 : r[j] = q[j]
    <3>1. \A j \in 1 .. i - 1 : j \in 1 .. Len(q)  BY <1>1, <2>1
    <3> QED  BY <3>1
  <2> QED  BY <2>2, <2>3
<1> QED  BY <1>3, <1>5, <1>6 DEF ListsOf

\* Queue r is q and, behind it, the first x PDUs of a list of k handles.
Follows(q, r, k, x, w) ==
  /\ x \in 0 .. k + 2 /\ (w => x = k + 2) /\ Len(r) = Len(q) + x
  /\ \A j \in 1 .. Len(q) : r[j] = q[j]
  /\ x >= 1 => FlagOf(r[Len(q) + 1]) = 11 /\ At(r[Len(q) + 1], 1) = k
  /\ \A j \in 2 .. k + 1 : j <= x => FlagOf(r[Len(q) + j]) = 12
  /\ x = k + 2 => FlagOf(r[Len(q) + (k + 2)]) = 13

\* A list can follow at any time, whole or cut off as the server ends.
LEMMA ListFollows ==
  ASSUME NEW q \in Seq(Bytes), NEW r \in Seq(Bytes), NEW e \in BOOLEAN, NEW n \in Nat,
         NEW w \in BOOLEAN, ListsOf(q, e, n, TRUE),
         NEW k \in Nat, NEW x, Follows(q, r, k, x, w)
  PROVE  ListsOf(r, e, n, w)
<1> USE DEF Follows
<1> DEFINE l == Len(q)
<1>1. /\ l \in Nat /\ x \in Nat /\ x <= k + 2
      /\ \A i \in 1 .. l : At(q[i], 1) \in Nat
  <2>1. \A i \in 1 .. l : q[i] \in Bytes  BY ElementOfSeq
  <2>2. 1 \in Nat  OBVIOUS
  <2>3. \A i \in 1 .. l : At(q[i], 1) \in Nat  BY <2>1, <2>2, BytesAreNumbers
  <2>4. k + 2 \in Nat  OBVIOUS
  <2>5. x \in Nat /\ x <= k + 2  BY <2>4
  <2>6. l \in Nat  BY LenProperties
  <2> QED  BY <2>3, <2>5, <2>6
<1> HIDE DEF l
<1>0. Len(r) = l + x /\ Len(q) = l  BY DEF l
<1>2. ASSUME NEW i \in 0 .. l, NEW y \in Nat, Listing(q, i, y, TRUE) PROVE Listing(r, i, y, w)
  <2>1. i + y + 1 <= Len(r) /\ i + y + 1 \in 1 .. l /\ i + y + 1 <= Len(q)
    BY <1>0, <1>1, <1>2 DEF Listing
  <2>2. \A j \in i + 1 .. i + y : j \in 1 .. l /\ j <= Len(q)  BY <1>0, <1>1, <2>1
  <2> QED  BY <1>0, <1>2, <2>1, <2>2 DEF Listing
<1>3. e => Listing(r, 0, n, w)
  <2>1. 0 \in 0 .. l  BY <1>1
  <2> QED  BY <1>2, <2>1 DEF ListsOf
<1>4. /\ x >= 1 => FlagOf(r[l + 1]) = 11 /\ At(r[l + 1], 1) = k
      /\ \A j \in l + 2 .. l + k + 1 : j <= Len(r) => FlagOf(r[j]) = 12
      /\ l + k + 2 <= Len(r) => FlagOf(r[l + k + 2]) = 13
  <2>1. ASSUME NEW j \in l + 2 .. l + k + 1, j <= Len(r) PROVE FlagOf(r[j]) = 12
    <3>1. j - l \in 2 .. k + 1 /\ l + (j - l) = j /\ j - l <= x  BY <1>0, <1>1, <2>1
    <3>2. FlagOf(r[l + (j - l)]) = 12  BY <1>0, <3>1
    <3> QED  BY <3>1, <3>2
  <2>2. l + (k + 2) = l + k + 2 /\ (l + k + 2 <= Len(r) => x = k + 2)  BY <1>0, <1>1
  <2> QED  BY <1>0, <2>1, <2>2
<1>5. Listing(r, l + 1, k, w)
  <2>1. (l + 1) + k + 1 = l + k + 2 /\ (l + 1) + 1 = l + 2 /\ (l + 1) + k = l + k + 1
    BY <1>1
  <2>2. w => l + k + 2 <= Len(r)  BY <1>0, <1>1
  <2> QED  BY <1>4, <2>1, <2>2 DEF Listing
<1>6. ASSUME NEW i \in 1 .. Len(r), FlagOf(r[i]) = 11 PROVE Listing(r, i, At(r[i], 1), w)
  <2>1. CASE i <= l
    <3>1. i \in 1 .. l /\ r[i] = q[i] /\ i \in 0 .. l  BY <1>0, <1>1, <2>1
    <3>2. Listing(q, i, At(q[i], 1), TRUE)  BY <1>0, <1>6, <3>1 DEF ListsOf
    <3> QED  BY <1>1, <1>2, <3>1, <3>2
  <2>2. CASE i = l + 1
    <3>1. x >= 1  BY <1>0, <1>1, <2>2
    <3> QED  BY <1>4, <1>5, <2>2, <3>1
  <2>3. CASE i > l + 1
    <3>1. i \in l + 2 .. l + k + 1 \/ i = l + k + 2
      <4>1. i \in Nat /\ i <= l + x /\ x <= k + 2 /\ x \in Nat /\ k \in Nat /\ l \in Nat
        BY <1>0, <1>1
      <4>2. i <= l + k + 2  BY <4>1
      <4> QED  BY <2>3, <4>1, <4>2
    <3>2. i <= Len(r)  BY <1>0, <1>1
    <3> QED  BY <1>4, <1>6, <3>1, <3>2
  <2> QED  BY <1>0, <1>1, <2>1, <2>2, <2>3
<1>7. ASSUME NEW i \in 1 .. Len(r), FlagOf(r[i]) \in {12, 13}
      PROVE  \/ e /\ i <= n + 1
             \/ \E j \in 1 .. i - 1 : FlagOf(r[j]) = 11 /\ i <= j + At(r[j], 1) + 1
  <2>1. CASE i <= l
    <3>1. i \in 1 .. l /\ r[i] = q[i]  BY <1>0, <1>1, <2>1
    <3>2. \/ e /\ i <= n + 1
          \/ \E j \in 1 .. i - 1 : FlagOf(q[j]) = 11 /\ i <= j + At(q[j], 1) + 1
      BY <1>0, <1>7, <3>1 DEF ListsOf
    <3>3. \A j \in 1 .. i - 1 : r[j] = q[j]
      <4>1. \A j \in 1 .. i - 1 : j \in 1 .. Len(q)  BY <1>0, <1>1, <3>1
      <4> QED  BY <4>1
    <3> QED  BY <3>2, <3>3
  <2>2. CASE i = l + 1
    <3>1. x >= 1  BY <1>0, <1>1, <2>2
    <3> QED  BY <1>4, <1>7, <2>2, <3>1
  <2>3. CASE i > l + 1
    <3>1. l + 1 \in 1 .. i - 1 /\ i <= (l + 1) + k + 1 /\ x >= 1  BY <1>0, <1>1, <2>3
    <3> QED  BY <1>4, <3>1
  <2> QED  BY <1>0, <1>1, <2>1, <2>2, <2>3
<1> QED  BY <1>3, <1>6, <1>7 DEF ListsOf

\* The first PDU of a queue is taken: a number begins a list, a handle or the
\* end is what a list that has begun goes on with, and nothing else comes while
\* one has.
LEMMA ListsTaken ==
  ASSUME NEW q \in Seq(Bytes), q # << >>, NEW e \in BOOLEAN, NEW n \in Nat,
         NEW w \in BOOLEAN, ListsOf(q, e, n, w)
  PROVE  /\ FlagOf(q[1]) = 11 => ListsOf(Tail(q), TRUE, At(q[1], 1), w)
         /\ FlagOf(q[1]) = 12 => e /\ n > 0 /\ ListsOf(Tail(q), TRUE, n - 1, w)
         /\ FlagOf(q[1]) = 13 => e /\ n = 0 /\ ListsOf(Tail(q), FALSE, 0, w)
         /\ FlagOf(q[1]) \notin {11, 12, 13} => ~e /\ ListsOf(Tail(q), FALSE, n, w)
<1> DEFINE t == Tail(q)
           l == Len(q)
<1>1. l \in Nat \ {0} /\ \A i \in 1 .. l : q[i] \in Bytes
  BY EmptySeq, ElementOfSeq
<1>2. Len(t) = l - 1 /\ \A i \in 1 .. l - 1 : t[i] = q[i + 1]
  BY HeadTailProperties
<1>3. \A i \in 1 .. l : At(q[i], 1) \in Nat
  <2>1. 1 \in Nat  OBVIOUS
  <2> QED  BY <1>1, <2>1, BytesAreNumbers
<1> HIDE DEF t, l
<1>4. ASSUME NEW i \in 1 .. l, NEW x \in Nat, Listing(q, i, x, w)
      PROVE  Listing(t, i - 1, x, w)
  <2>1. ((i - 1) + x + 1) + 1 = i + x + 1 /\ (i - 1) + x + 1 \in Nat /\ i - 1 \in Nat
    BY <1>1
  <2>2. (i - 1) + x + 1 <= Len(t) <=> i + x + 1 <= l  BY <1>1, <1>2, <2>1
  <2>3. ASSUME NEW j \in (i - 1) + 1 .. (i - 1) + x, j <= Len(t) PROVE FlagOf(t[j]) = 12
    <3>1. j \in 1 .. l - 1 /\ j + 1 \in i + 1 .. i + x /\ j + 1 <= l  BY <1>1, <1>2, <2>3
    <3> QED  BY <1>2, <1>4, <3>1 DEF Listing, l
  <2>4. (i - 1) + x + 1 <= Len(t) => FlagOf(t[(i - 1) + x + 1]) = 13
    <3>1. (i - 1) + x + 1 <= Len(t) => (i - 1) + x + 1 \in 1 .. l - 1  BY <1>1, <1>2
    <3> QED  BY <1>2, <1>4, <2>1, <2>2, <3>1 DEF Listing, l
  <2>5. w => (i - 1) + x + 1 <= Len(t)  BY <1>4, <2>2 DEF Listing, l
  <2> QED  BY <2>3, <2>4, <2>5 DEF Listing
<1>5. ASSUME NEW i \in 1 .. Len(t), FlagOf(t[i]) = 11 PROVE Listing(t, i, At(t[i], 1), w)
  <2>1. i \in 1 .. l - 1 /\ i + 1 \in 1 .. l /\ t[i] = q[i + 1] /\ (i + 1) - 1 = i
    BY <1>1, <1>2
  <2>2. Listing(q, i + 1, At(q[i + 1], 1), w)  BY <1>5, <2>1 DEF ListsOf, l
  <2>3. Listing(t, (i + 1) - 1, At(q[i + 1], 1), w)  BY <1>3, <1>4, <2>1, <2>2
  <2> QED  BY <2>1, <2>3
\* Which list the handles and ends behind the first PDU belong to.
<1>6. ASSUME NEW i \in 1 .. Len(t), FlagOf(t[i]) \in {12, 13}
      PROVE  \/ e /\ i <= n
             \/ FlagOf(q[1]) = 11 /\ i <= At(q[1], 1) + 1
             \/ \E j \in 1 .. i - 1 : FlagOf(t[j]) = 11 /\ i <= j + At(t[j], 1) + 1
  <2>1. i \in 1 .. l - 1 /\ i + 1 \in 1 .. l /\ t[i] = q[i + 1]  BY <1>1, <1>2
  <2>2. \/ e /\ i + 1 <= n + 1
        \/ \E j \in 1 .. (i + 1) - 1 : FlagOf(q[j]) = 11 /\ i + 1 <= j + At(q[j], 1) + 1
    BY <1>6, <2>1 DEF ListsOf, l
  <2>3. CASE e /\ i + 1 <= n + 1
    <3>1. i <= n  BY <2>1, <2>3, <1>1
    <3> QED  BY <2>3, <3>1
  <2>4. ASSUME NEW j \in 1 .. (i + 1) - 1, FlagOf(q[j]) = 11, i + 1 <= j + At(q[j], 1) + 1
        PROVE  \/ FlagOf(q[1]) = 11 /\ i <= At(q[1], 1) + 1
               \/ \E k \in 1 .. i - 1 : FlagOf(t[k]) = 11 /\ i <= k + At(t[k], 1) + 1
    <3>1. j \in 1 .. l /\ At(q[j], 1) \in Nat  BY <1>1, <1>3, <2>1
    <3>2. CASE j = 1
      <4>1. i <= At(q[j], 1) + 1  BY <2>1, <2>4, <3>1, <3>2
      <4> QED  BY <2>4, <3>2, <4>1
    <3>3. CASE j # 1
      <4>1. j - 1 \in 1 .. i - 1 /\ j - 1 \in 1 .. l - 1 /\ (j - 1) + 1 = j
        <5>1. l \in Nat /\ i \in Nat /\ j \in Nat /\ 2 <= j /\ j <= i /\ i <= l - 1
          BY <1>1, <2>1, <3>1, <3>3
        <5> QED  BY <5>1
      <4>2. t[j - 1] = q[j]  BY <1>2, <4>1
      <4>3. i <= (j - 1) + At(q[j], 1) + 1  BY <2>1, <2>4, <3>1
      <4> QED  BY <2>4, <4>1, <4>2, <4>3
    <3> QED  BY <3>2, <3>3
  <2> QED  BY <2>2, <2>3, <2>4
<1>7. e => Listing(q, 0, n, w)  BY DEF ListsOf
<1>8. e => (n = 0 => FlagOf(q[1]) = 13) /\ (n > 0 => FlagOf(q[1]) = 12)
  <2> SUFFICES ASSUME e
               PROVE  (n = 0 => FlagOf(q[1]) = 13) /\ (n > 0 => FlagOf(q[1]) = 12)
    OBVIOUS
  <2>1. /\ \A j \in 0 + 1 .. 0 + n : j <= l => FlagOf(q[j]) = 12
        /\ 0 + n + 1 <= l => FlagOf(q[0 + n + 1]) = 13
    BY <1>7 DEF Listing, l
  <2>2. 1 <= l  BY <1>1
  <2>3. n = 0 => FlagOf(q[1]) = 13
    <3>1. n = 0 => 0 + n + 1 = 1  OBVIOUS
    <3> QED  BY <2>1, <2>2, <3>1
  <2>4. n > 0 => FlagOf(q[1]) = 12
    <3>1. n > 0 => 1 \in 0 + 1 .. 0 + n  OBVIOUS
    <3> QED  BY <2>1, <2>2, <3>1
  <2> QED  BY <2>3, <2>4
<1>9. FlagOf(q[1]) \in {12, 13} => e
  <2>1. 1 \in 1 .. l /\ 1 .. 1 - 1 = {}  BY <1>1
  <2> QED  BY <2>1 DEF ListsOf, l
<1>10. ASSUME FlagOf(q[1]) = 11 PROVE ListsOf(t, TRUE, At(q[1], 1), w)
  <2>1. ~e  BY <1>8, <1>10
  <2>2. Listing(t, 0, At(q[1], 1), w)
    <3>1. 1 \in 1 .. l /\ 1 - 1 = 0  BY <1>1
    <3>2. Listing(q, 1, At(q[1], 1), w)  BY <1>10, <3>1 DEF ListsOf, l
    <3>3. Listing(t, 1 - 1, At(q[1], 1), w)  BY <1>3, <1>4, <3>1, <3>2
    <3> QED  BY <3>1, <3>3
  <2> QED  BY <1>5, <1>6, <2>1, <2>2 DEF ListsOf
<1>11. ASSUME FlagOf(q[1]) = 12 PROVE e /\ n > 0 /\ ListsOf(t, TRUE, n - 1, w)
  <2>1. e /\ n > 0
    <3>1. e  BY <1>9, <1>11
    <3>2. n # 0  BY <1>8, <1>11, <3>1
    <3> QED  BY <3>1, <3>2
  <2>2. Listing(t, 0, n - 1, w)
    <3>1. /\ w => 0 + n + 1 <= l
          /\ \A j \in 0 + 1 .. 0 + n : j <= l => FlagOf(q[j]) = 12
          /\ 0 + n + 1 <= l => FlagOf(q[0 + n + 1]) = 13
      BY <1>7, <2>1 DEF Listing, l
    <3>2. /\ 0 + (n - 1) + 1 = n /\ n \in Nat \ {0} /\ 0 + n + 1 = n + 1
          /\ n <= Len(t) <=> n + 1 <= l
      BY <1>1, <1>2, <2>1
    <3>3. ASSUME NEW j \in 0 + 1 .. 0 + (n - 1), j <= Len(t) PROVE FlagOf(t[j]) = 12
      <4>1. j \in 1 .. l - 1 /\ j + 1 \in 0 + 1 .. 0 + n /\ j + 1 <= l
        <5>1. l \in Nat \ {0} /\ n \in Nat \ {0} /\ Len(t) = l - 1  BY <1>1, <1>2, <3>2
        <5>2. j \in Nat /\ 1 <= j /\ j <= n - 1 /\ j <= l - 1  BY <3>3, <5>1
        <5> QED  BY <5>1, <5>2
      <4> QED  BY <1>2, <3>1, <4>1
    <3>4. n <= Len(t) => FlagOf(t[n]) = 13
      <4>1. n <= Len(t) => n \in 1 .. l - 1  BY <1>1, <1>2, <3>2
      <4> QED  BY <1>2, <3>1, <3>2, <4>1
    <3> QED  BY <3>1, <3>2, <3>3, <3>4 DEF Listing
  <2>3. \A i \in 1 .. Len(t) : i <= n => i <= (n - 1) + 1  OBVIOUS
  <2> QED  BY <1>5, <1>6, <1>11, <2>1, <2>2, <2>3 DEF ListsOf
<1>12. ASSUME FlagOf(q[1]) = 13 PROVE e /\ n = 0 /\ ListsOf(t, FALSE, 0, w)
  <2>1. e /\ n = 0
    <3>1. e  BY <1>9, <1>12
    <3>2. ~ (n > 0)  BY <1>8, <1>12, <3>1
    <3> QED  BY <3>1, <3>2
  <2>2. \A i \in 1 .. Len(t) : ~ (i <= n)  BY <2>1
  <2> QED  BY <1>5, <1>6, <1>12, <2>1, <2>2 DEF ListsOf
<1>13. ASSUME FlagOf(q[1]) \notin {11, 12, 13} PROVE ~e /\ ListsOf(t, FALSE, n, w)
  <2>1. ~e
    <3>1. n = 0 \/ n > 0  OBVIOUS
    <3> QED  BY <1>8, <1>13, <3>1
  <2> QED  BY <1>5, <1>6, <1>13, <2>1 DEF ListsOf
<1> QED  BY <1>10, <1>11, <1>12, <1>13 DEF t

-----------------------------------------------------------------------------
(***************************************************************************)
(* What the server knows of the client it serves                           *)
(***************************************************************************)

\* The entries of the table lead to the clients whose handles they hold.
LEMMA EntriesLead ==
  ASSUME Typed, TableSound
  PROVE  /\ Len(table) \in Nat /\ DOMAIN table = 1 .. Len(table) /\ OneToOne(table)
         /\ \A i \in 1 .. Len(table) :
              /\ table[i] \in EntryType
              /\ table[i].handle \in Bytes /\ table[i].socket \in Fds
              /\ peer[table[i].socket] \in Clients /\ peer[table[i].socket] # Nobody
              /\ table[i].handle = Stored(clientHandle[peer[table[i].socket]], table[i].socket)
<1>1. table \in Seq(EntryType)  BY DEF Typed
<1>2. Len(table) \in Nat /\ DOMAIN table = 1 .. Len(table)  BY <1>1, LenProperties
<1>3. OneToOne(table)  BY DEF TableSound, OneToOne
<1>4. ASSUME NEW i \in 1 .. Len(table)
      PROVE  /\ table[i] \in EntryType
             /\ table[i].handle \in Bytes /\ table[i].socket \in Fds
             /\ peer[table[i].socket] \in Clients /\ peer[table[i].socket] # Nobody
             /\ table[i].handle = Stored(clientHandle[peer[table[i].socket]], table[i].socket)
  <2>1. table[i] \in EntryType  BY <1>1, ElementOfSeq
  <2>2. table[i].handle \in Bytes /\ table[i].socket \in Fds  BY <2>1 DEF EntryType
  <2>3. table[i] \in ToSet(table)  BY <1>2 DEF ToSet
  <2>4. /\ peer[table[i].socket] # Nobody
        /\ table[i].handle = Stored(clientHandle[peer[table[i].socket]], table[i].socket)
    BY <2>3 DEF TableSound
  <2>5. peer[table[i].socket] \in Clients  BY <2>2, <2>4 DEF Typed
  <2> QED  BY <2>1, <2>2, <2>4, <2>5
<1> QED  BY <1>2, <1>3, <1>4

\* A client is connected if it waits to be accepted or has a descriptor.
LEMMA ConnectedMeans ==
  ASSUME backlog \in Seq(Clients), NEW c
  PROVE  /\ Connected(c) <=> \/ \E i \in 1 .. Len(backlog) : backlog[i] = c
                             \/ \E fd \in Fds : peer[fd] = c
         /\ \A i \in 1 .. Len(backlog) : backlog[i] \in Clients
<1>1. DOMAIN backlog = 1 .. Len(backlog)  BY LenProperties
<1>2. \A i \in 1 .. Len(backlog) : backlog[i] \in Clients  BY ElementOfSeq
<1> QED  BY <1>1, <1>2 DEF Connected, ToSet

\* The descriptor poll returns leads to a client.
LEMMA PolledPeer ==
  ASSUME Typed, NEW fd \in Fds, Polled(fd)
  PROVE  fd \in pollSet /\ peer[fd] \in Clients /\ peer[fd] # Nobody /\ backlog = << >> /\ serverUp
BY DEF Polled, Ready, Typed

\* What the server reads from a client: the handle it was started under, if the
\* client is not registered, and something its user has typed, if it is.
LEMMA NextRead ==
  ASSUME Typed, Queues, NEW c \in Clients, toServer[c] # << >>
  PROVE  LET m == Head(toServer[c])
             h == clientHandle[c]
         IN  /\ m \in Bytes /\ h \in Bytes
             /\ \/ /\ ~Registered(c) /\ FlagOf(m) = 1 /\ SrcHandle(m) = h
                \/ /\ Registered(c) /\ Spoken(h, c, m) /\ FlagOf(m) \in {4, 5, 6, 10}
             /\ Tail(toServer[c]) \in Seq(Bytes)
             /\ QueueOf(Tail(toServer[c]), h, c, TRUE)
<1> DEFINE q == toServer[c]
           h == clientHandle[c]
<1>1. q \in Seq(Bytes) /\ h \in Bytes  BY DEF Typed
<1>2. QueueOf(q, h, c, Registered(c)) /\ q # << >>  BY DEF Queues
<1> HIDE DEF q, h
<1>3. /\ Head(q) = q[1] /\ q[1] \in Bytes /\ Len(q) \in Nat \ {0}
      /\ Tail(q) \in Seq(Bytes) /\ Len(Tail(q)) = Len(q) - 1
      /\ \A i \in 1 .. Len(q) - 1 : Tail(q)[i] = q[i + 1]
  <2>1. Len(q) \in Nat \ {0}  BY <1>1, <1>2, EmptySeq
  <2>2. 1 \in 1 .. Len(q)  BY <2>1
  <2>3. q[1] \in Bytes  BY <1>1, <2>2, ElementOfSeq
  <2>4. Head(q) = q[1]  BY <1>1, <1>2
  <2> QED  BY <1>1, <1>2, <2>1, <2>3, <2>4, HeadTailProperties
<1>4. \/ ~Registered(c) /\ q[1] = <<1>> \o HandleField(h)
      \/ Registered(c) /\ Spoken(h, c, q[1])
  <2>1. 1 \in 1 .. Len(q) /\ ~ (1 > 1)  BY <1>3
  <2> QED  BY <1>2, <2>1 DEF QueueOf
<1>5. \/ ~Registered(c) /\ FlagOf(q[1]) = 1 /\ SrcHandle(q[1]) = h
      \/ Registered(c) /\ Spoken(h, c, q[1]) /\ FlagOf(q[1]) \in {4, 5, 6, 10}
  BY <1>1, <1>4, RegistrationRead, SpokenRead
<1>6. QueueOf(Tail(q), h, c, TRUE)
  <2> SUFFICES ASSUME NEW i \in 1 .. Len(q) - 1 PROVE Spoken(h, c, Tail(q)[i])
    BY <1>3 DEF QueueOf
  <2>1. i + 1 \in 1 .. Len(q) /\ i + 1 # 1  BY <1>3
  <2>2. Spoken(h, c, q[i + 1])  BY <1>2, <2>1 DEF QueueOf
  <2> QED  BY <1>3, <2>2
<1> QED  BY <1>1, <1>3, <1>5, <1>6 DEF q, h

-----------------------------------------------------------------------------
(***************************************************************************)
(* What a step sends                                                       *)
(***************************************************************************)

\* The server sends PDUs of its own to open connections, and a message only to
\* whom it is meant for; what it could not build is never sent.
Allowed(s) ==
  /\ peer[s.fd] # Nobody
  /\ \/ Faults(s)
     \/ /\ FlagOf(s.pdu) \in ServerFlags
        /\ \A c \in Clients : peer[s.fd] = c => MeantFor(s.pdu, c, clientHandle, Started)

\* It sends to its clients' descriptors.
Proper(sends) == sends \in Seq(SendType) /\ \A i \in 1 .. Len(sends) : Allowed(sends[i])

\* None of it is part of a handle list.
Plain(sends) == \A i \in 1 .. Len(sends) : FlagOf(sends[i].pdu) \notin {11, 12, 13}

\* What the queues to the clients keep when proper PDUs are sent.
Delivered ==
  /\ serverUp' \in BOOLEAN /\ reset' \subseteq gone
  /\ toClient' \in [Clients -> Seq(Bytes)]
  /\ \A c \in Clients :
       /\ Len(toClient[c]) \in Nat /\ Len(toClient'[c]) \in Nat
       /\ Len(toClient[c]) <= Len(toClient'[c])
       /\ \A j \in 1 .. Len(toClient[c]) : toClient'[c][j] = toClient[c][j]
       /\ \A j \in 1 .. Len(toClient'[c]) :
            /\ FlagOf(toClient'[c][j]) \in ServerFlags
            /\ MeantFor(toClient'[c][j], c, clientHandle, Started)
       /\ phase[c] = "new" => toClient'[c] = << >>
       /\ c \in gone => toClient'[c] = << >>

\* They are delivered.
LEMMA ProperDelivered ==
  ASSUME IInv, NEW sends, Proper(sends), SendAll(sends)
  PROVE  /\ Delivered
         /\ \A c \in Clients : Grown(toClient[c], toClient'[c], sends, c, peer)
<1>1. sends \in Seq(SendType) /\ toClient \in [Clients -> Seq(Bytes)] /\ reset \subseteq gone
  BY DEF IInv, Typed, Proper
<1>2. /\ serverUp' \in BOOLEAN /\ reset' \subseteq gone
      /\ toClient' \in [Clients -> Seq(Bytes)]
      /\ \A c \in Clients : Grown(toClient[c], toClient'[c], sends, c, peer)
      /\ \A c \in Clients \cap gone : toClient'[c] = toClient[c]
  BY <1>1, SendsArrive
<1>3. ASSUME NEW c \in Clients
      PROVE  /\ Len(toClient[c]) \in Nat /\ Len(toClient'[c]) \in Nat
             /\ Len(toClient[c]) <= Len(toClient'[c])
             /\ \A j \in 1 .. Len(toClient[c]) : toClient'[c][j] = toClient[c][j]
             /\ \A j \in 1 .. Len(toClient'[c]) :
                  /\ FlagOf(toClient'[c][j]) \in ServerFlags
                  /\ MeantFor(toClient'[c][j], c, clientHandle, Started)
             /\ phase[c] = "new" => toClient'[c] = << >>
             /\ c \in gone => toClient'[c] = << >>
  <2> DEFINE q == toClient[c]
             r == toClient'[c]
  <2>1. q \in Seq(Bytes) /\ r \in Seq(Bytes)  BY <1>1, <1>2
  <2>2. Grown(q, r, sends, c, peer)  BY <1>2
  <2>3. \A j \in 1 .. Len(q) : FlagOf(q[j]) \in ServerFlags /\ MeantFor(q[j], c, clientHandle, Started)
    BY DEF IInv, Answers, Meant
  <2>4. /\ phase[c] = "new" => q = << >> /\ ~Connected(c)
        /\ c \in gone => r = q /\ q = << >>
    BY <1>2 DEF IInv, Connections
  <2> HIDE DEF q, r
  <2>5. Len(q) \in Nat /\ Len(r) \in Nat  BY <2>1, LenProperties
  <2>6. ASSUME NEW j \in 1 .. Len(r)
        PROVE  FlagOf(r[j]) \in ServerFlags /\ MeantFor(r[j], c, clientHandle, Started)
    <3>1. CASE j <= Len(q)
      <4>1. j \in 1 .. Len(q) /\ r[j] = q[j]  BY <2>2, <2>5, <3>1 DEF Grown
      <4> QED  BY <2>3, <4>1
    <3>2. CASE ~ (j <= Len(q))
      <4>1. j \in Len(q) + 1 .. Len(r)  BY <2>5, <3>2
      <4>2. PICK i \in 1 .. Len(sends) :
             peer[sends[i].fd] = c /\ r[j] = sends[i].pdu /\ ~Faults(sends[i])
        BY <2>2, <4>1 DEF Grown
      <4> QED  BY <4>2 DEF Proper, Allowed
    <3> QED  BY <3>1, <3>2
  <2>7. ASSUME phase[c] = "new" PROVE r = << >>
    <3>1. Len(q) = 0  BY <2>4, <2>7, EmptySeq
    <3>2. ASSUME Len(r) # 0 PROVE FALSE
      <4>1. 1 \in Len(q) + 1 .. Len(r)  BY <2>5, <3>1, <3>2
      <4>2. PICK i \in 1 .. Len(sends) : peer[sends[i].fd] = c  BY <2>2, <4>1 DEF Grown
      <4>3. sends[i].fd \in Fds
        <5>1. sends[i] \in SendType  BY <1>1, ElementOfSeq
        <5> QED  BY <5>1 DEF SendType
      <4>4. Connected(c)  BY <4>2, <4>3 DEF Connected
      <4> QED  BY <2>4, <2>7, <4>4
    <3> QED  BY <2>1, <3>2, EmptySeq
  <2>8. Len(q) <= Len(r) /\ \A j \in 1 .. Len(q) : r[j] = q[j]  BY <2>2 DEF Grown
  <2> QED  BY <2>4, <2>5, <2>6, <2>7, <2>8 DEF q, r
<1> QED  BY <1>2, <1>3 DEF Delivered

\* Plain PDUs do not disturb the handle lists.
LEMMA PlainLists ==
  ASSUME IInv, NEW sends, Proper(sends), Plain(sends), SendAll(sends),
         serverUp, UNCHANGED <<gone, expectingHandleList, remainingHandles>>
  PROVE  Lists'
<1> SUFFICES ASSUME NEW c \in Clients \ gone
             PROVE  ListsOf(toClient'[c], expectingHandleList[c], remainingHandles[c], serverUp')
  BY DEF Lists
<1> DEFINE q == toClient[c]
           r == toClient'[c]
           e == expectingHandleList[c]
           n == remainingHandles[c]
           w == serverUp'
<1>1. /\ \A x \in Clients : Grown(toClient[x], toClient'[x], sends, x, peer)
      /\ toClient' \in [Clients -> Seq(Bytes)] /\ serverUp' \in BOOLEAN
  BY ProperDelivered DEF Delivered
<1>2. Grown(q, r, sends, c, peer)  BY <1>1
<1>3. /\ q \in Seq(Bytes) /\ r \in Seq(Bytes) /\ e \in BOOLEAN /\ n \in Nat /\ w \in BOOLEAN
      /\ ListsOf(q, e, n, TRUE)
  <2>1. ListsOf(q, e, n, serverUp) /\ serverUp = TRUE  BY DEF IInv, Typed, Lists
  <2>2. ListsOf(q, e, n, TRUE)  BY <2>1
  <2> QED  BY <1>1, <2>2 DEF IInv, Typed
<1> HIDE DEF q, r, e, n, w
<1>4. \A j \in Len(q) + 1 .. Len(r) : FlagOf(r[j]) \notin {11, 12, 13}
  BY <1>2 DEF Grown, Plain
<1>5. Len(q) <= Len(r) /\ \A j \in 1 .. Len(q) : r[j] = q[j]  BY <1>2 DEF Grown
<1>6. ListsOf(r, e, n, w)  BY <1>3, <1>4, <1>5, ListsGrow
<1> QED  BY <1>6 DEF r, e, n, w

-----------------------------------------------------------------------------
(***************************************************************************)
(* The server's steps                                                      *)
(***************************************************************************)

\* Meaning and addressee of a message depend on nothing a server step changes.
LEMMA ServerKeepsMeaning ==
  ASSUME UNCHANGED <<phase, clientHandle>>
  PROVE  Started' = Started
BY DEF Started

\* What is taken from a queue or lost with it makes nothing longer.
LEMMA SizedKept ==
  ASSUME Sized, toServer \in [Clients -> Seq(Bytes)], oversize \subseteq oversize',
         \A x \in Clients :
           \/ toServer'[x] = toServer[x]
           \/ toServer'[x] = << >>
           \/ toServer[x] # << >> /\ toServer'[x] = Tail(toServer[x])
  PROVE  Sized'
<1> SUFFICES ASSUME NEW c \in Clients, NEW i \in 1 .. Len(toServer'[c]),
                    Len(toServer'[c][i]) > MAXBUF
             PROVE  c \in oversize
  BY DEF Sized
<1>1. CASE toServer'[c] = toServer[c]  BY <1>1 DEF Sized
<1>2. CASE toServer'[c] = << >>
  <2>1. 1 .. Len(toServer'[c]) = {}  BY <1>2, EmptySeq
  <2> QED  BY <2>1
<1>3. CASE toServer[c] # << >> /\ toServer'[c] = Tail(toServer[c])
  <2>1. toServer[c] \in Seq(Bytes)  OBVIOUS
  <2>2. /\ Len(toServer[c]) \in Nat \ {0} /\ Len(Tail(toServer[c])) = Len(toServer[c]) - 1
        /\ \A j \in 1 .. Len(toServer[c]) - 1 : Tail(toServer[c])[j] = toServer[c][j + 1]
    BY <1>3, <2>1, EmptySeq, HeadTailProperties
  <2>3. i \in 1 .. Len(toServer[c]) - 1 /\ i + 1 \in 1 .. Len(toServer[c])  BY <1>3, <2>2
  <2>4. toServer'[c][i] = toServer[c][i + 1]  BY <1>3, <2>2, <2>3
  <2> QED  BY <2>3, <2>4 DEF Sized
<1> QED  BY <1>1, <1>2, <1>3

\* A connection is accepted: the descriptor was free, so no entry of the table
\* has it, and nobody is connected or registered who was not before.
LEMMA AcceptStep ==
  ASSUME IInv, AddNewSocket, UNCHANGED clientVars
  PROVE  IInv'
<1> DEFINE a == TcpAccept
           c == Head(backlog)
<1>1. /\ Typed /\ Connections /\ TableSound /\ Queues
      /\ Sized /\ Told /\ Answers /\ Lists /\ Meant
  BY DEF IInv
<1>2. /\ backlog # << >> /\ serverUp
      /\ peer' = [peer EXCEPT ![a] = c]
      /\ pollSet' = pollSet \cup {a}
      /\ backlog' = Tail(backlog)
      /\ UNCHANGED <<serverUp, toServer, toClient, gone, reset, table>>
      /\ UNCHANGED <<phase, clientHandle, expectingHandleList, remainingHandles, refused, oversize, typed>>
  BY DEF AddNewSocket, AddToPollSet, clientVars, listVars, historyVars
<1>3. /\ backlog \in Seq(Clients) /\ Len(backlog) \in Nat \ {0}
      /\ c = backlog[1] /\ c \in Clients
      /\ backlog' \in Seq(Clients) /\ Len(backlog') = Len(backlog) - 1
      /\ \A i \in 1 .. Len(backlog) - 1 : backlog'[i] = backlog[i + 1]
  <2>1. backlog \in Seq(Clients)  BY <1>1 DEF Typed
  <2>2. Len(backlog) \in Nat \ {0}  BY <1>2, <2>1, EmptySeq
  <2>3. c = backlog[1]  BY <1>2, <2>1
  <2>4. c \in Clients  BY <1>2, <2>1, HeadTailProperties
  <2> QED  BY <1>2, <2>1, <2>2, <2>3, <2>4, HeadTailProperties
<1>4. a \in Fds /\ peer[a] = Nobody
  <2>1. \A fd \in Fds : peer[fd] # c
    <3>1. 1 \in 1 .. Len(backlog)  BY <1>3
    <3> QED  BY <1>1, <1>3, <3>1 DEF Connections
  <2>2. \A f, g \in Fds : peer[f] = peer[g] /\ peer[f] # Nobody => f = g
    BY <1>1 DEF Connections
  <2>3. peer \in [Fds -> Clients \cup {Nobody}]  BY <1>1 DEF Typed
  <2> QED  BY <1>3, <2>1, <2>2, <2>3, AcceptFinds
<1>5. c # Nobody  BY <1>3, NetAssumption
<1> HIDE DEF a, c
<1>6. /\ peer' \in [Fds -> Clients \cup {Nobody}] /\ peer'[a] = c
      /\ \A fd \in Fds : fd # a => peer'[fd] = peer[fd]
  BY <1>1, <1>2, <1>3, <1>4 DEF Typed
<1>7. Typed'
  <2>1. pollSet' = {fd \in Fds : peer'[fd] # Nobody}
    BY <1>1, <1>2, <1>4, <1>5, <1>6 DEF Typed
  <2> QED  BY <1>1, <1>2, <1>3, <1>6, <2>1 DEF Typed
<1>8. \A x \in Clients : Connected(x)' <=> Connected(x)
  <2> SUFFICES ASSUME NEW x \in Clients PROVE Connected(x)' <=> Connected(x)
    OBVIOUS
  <2>1. Connected(x) <=> \/ \E i \in 1 .. Len(backlog) : backlog[i] = x
                         \/ \E fd \in Fds : peer[fd] = x
    BY <1>3, ConnectedMeans
  <2>2. Connected(x)' <=> \/ \E i \in 1 .. Len(backlog') : backlog'[i] = x
                          \/ \E fd \in Fds : peer'[fd] = x
    <3>1. DOMAIN backlog' = 1 .. Len(backlog')  BY <1>3, LenProperties
    <3> QED  BY <3>1 DEF Connected, ToSet
  <2>3. (\E i \in 1 .. Len(backlog) : backlog[i] = x) <=>
          x = c \/ \E i \in 1 .. Len(backlog') : backlog'[i] = x
    <3>1. ASSUME NEW i \in 1 .. Len(backlog), backlog[i] = x
          PROVE  x = c \/ \E j \in 1 .. Len(backlog') : backlog'[j] = x
      <4>1. CASE i = 1  BY <1>3, <3>1, <4>1
      <4>2. CASE i # 1
        <5>1. i - 1 \in 1 .. Len(backlog) - 1 /\ (i - 1) + 1 = i  BY <1>3, <4>2
        <5> QED  BY <1>3, <3>1, <5>1
      <4> QED  BY <4>1, <4>2
    <3>2. ASSUME NEW i \in 1 .. Len(backlog'), backlog'[i] = x
          PROVE  \E j \in 1 .. Len(backlog) : backlog[j] = x
      <4>1. i + 1 \in 1 .. Len(backlog) /\ i \in 1 .. Len(backlog) - 1  BY <1>3
      <4> QED  BY <1>3, <3>2, <4>1
    <3>3. x = c => \E j \in 1 .. Len(backlog) : backlog[j] = x
      <4>1. 1 \in 1 .. Len(backlog)  BY <1>3
      <4> QED  BY <1>3, <4>1
    <3> QED  BY <3>1, <3>2, <3>3
  <2>4. (\E fd \in Fds : peer'[fd] = x) <=> x = c \/ \E fd \in Fds : peer[fd] = x
    <3>1. x # Nobody  BY NetAssumption
    <3> QED  BY <1>4, <1>6, <3>1
  <2> QED  BY <2>1, <2>2, <2>3, <2>4
<1>9. Connections'
  <2>1. \A i \in 1 .. Len(backlog') : i + 1 \in 1 .. Len(backlog) /\ backlog'[i] = backlog[i + 1]
    BY <1>3
  <2>2. \A i, j \in 1 .. Len(backlog') : backlog'[i] = backlog'[j] => i = j
    <3> SUFFICES ASSUME NEW i \in 1 .. Len(backlog'), NEW j \in 1 .. Len(backlog'),
                        backlog'[i] = backlog'[j]
                 PROVE  i = j
      OBVIOUS
    <3>1. i + 1 = j + 1  BY <1>1, <2>1 DEF Connections
    <3> QED  BY <1>3, <3>1
  <2>3. \A i \in 1 .. Len(backlog') : backlog'[i] # c
    <3> SUFFICES ASSUME NEW i \in 1 .. Len(backlog'), backlog[i + 1] = backlog[1] PROVE FALSE
      BY <1>3, <2>1
    <3>1. 1 \in 1 .. Len(backlog) /\ i + 1 # 1  BY <1>3
    <3> QED  BY <1>1, <2>1, <3>1 DEF Connections
  <2>4. \A fd \in Fds : \A i \in 1 .. Len(backlog') : peer'[fd] # backlog'[i]
    BY <1>1, <1>6, <2>1, <2>3 DEF Connections
  <2>5. \A fd \in Fds : peer[fd] # c
    <3>1. 1 \in 1 .. Len(backlog)  BY <1>3
    <3> QED  BY <1>1, <1>3, <3>1 DEF Connections
  <2>6. \A f, g \in Fds : peer'[f] = peer'[g] /\ peer'[f] # Nobody => f = g
    BY <1>1, <1>6, <2>5 DEF Connections
  <2>7. \A x \in Clients :
          phase'[x] = "new" => ~Connected(x)' /\ toServer'[x] = << >> /\ toClient'[x] = << >>
    BY <1>1, <1>2, <1>8 DEF Connections
  <2>8. \A x \in gone' : toClient'[x] = << >>  BY <1>1, <1>2 DEF Connections
  <2> QED  BY <2>2, <2>4, <2>6, <2>7, <2>8 DEF Connections
<1>10. \A i \in 1 .. Len(table) : peer'[table[i].socket] = peer[table[i].socket]
  BY <1>1, <1>4, <1>6, EntriesLead
<1>11. TableSound'
  <2>1. \A e \in ToSet(table) : e.socket # a /\ e.socket \in Fds
    <3> SUFFICES ASSUME NEW i \in DOMAIN table PROVE table[i].socket # a /\ table[i].socket \in Fds
      BY DEF ToSet
    <3> QED  BY <1>1, <1>4, EntriesLead
  <2>2. \A e \in ToSet(table) :
          /\ e.socket \in pollSet' /\ peer'[e.socket] # Nobody
          /\ e.handle = Stored(clientHandle[peer'[e.socket]], e.socket)
    BY <1>1, <1>2, <1>6, <2>1 DEF TableSound
  <2> QED  BY <1>1, <1>2, <2>2 DEF TableSound
<1>12. \A x \in Clients : Registered(x)' <=> Registered(x)
  BY <1>2, <1>10 DEF Registered
<1>13. Queues'
  <2> SUFFICES ASSUME NEW x \in Clients
               PROVE  /\ QueueOf(toServer[x], clientHandle[x], x, Registered(x)')
                      /\ phase[x] = "running" /\ Connected(x)' /\ ~Registered(x)' => toServer[x] # << >>
    BY <1>2 DEF Queues
  <2>1. QueueOf(toServer[x], clientHandle[x], x, Registered(x))  BY <1>1 DEF Queues
  <2>2. QueueOf(toServer[x], clientHandle[x], x, Registered(x)')  BY <1>12, <2>1 DEF QueueOf
  <2> QED  BY <1>1, <1>8, <1>12, <2>2 DEF Queues
<1>14. Told'  BY <1>1, <1>2, <1>8 DEF Told
<1>15. Answers' /\ Lists'  BY <1>1, <1>2 DEF Answers, Lists
<1>16. Meant'
  <2>1. Started' = Started  BY <1>2, ServerKeepsMeaning
  <2> QED  BY <1>1, <1>2, <2>1 DEF Meant
<1>17. Sized'  BY <1>1, <1>2 DEF Sized
<1> QED  BY <1>7, <1>9, <1>11, <1>13, <1>14, <1>15, <1>16, <1>17 DEF IInv

\* cleanupClient: the client is connected no more, and its handle and what it
\* had sent are gone; everybody else keeps connection, handle and queue.
LEMMA CleanupKeeps ==
  ASSUME Typed, Connections, TableSound, Queues,
         NEW fd \in Fds, NEW c \in Clients, peer[fd] = c, CleanupClient(fd),
         UNCHANGED <<backlog, phase, clientHandle>>
  PROVE  /\ peer' \in [Fds -> Clients \cup {Nobody}]
         /\ toServer' \in [Clients -> Seq(Bytes)]
         /\ table' \in Seq(EntryType) /\ Len(table') <= MaxHandles
         /\ pollSet' = {f \in Fds : peer'[f] # Nobody}
         /\ TableSound' /\ Queues'
         /\ \A x \in Clients : x # c => (Connected(x)' <=> Connected(x))
         /\ \A f \in Fds : peer'[f] \in {peer[f], Nobody}
         /\ \A x \in Clients : phase[x] = "new" => ~Connected(x)' /\ toServer'[x] = << >>
<1>1. /\ table' = RemoveHandle(table, fd)
      /\ pollSet' = pollSet \ {fd}
      /\ peer' = [peer EXCEPT ![fd] = Nobody]
      /\ toServer' = [toServer EXCEPT ![c] = << >>]
  BY DEF CleanupClient, RemoveFromPollSet
<1>2. /\ peer' \in [Fds -> Clients \cup {Nobody}] /\ peer'[fd] = Nobody
      /\ \A f \in Fds : f # fd => peer'[f] = peer[f]
  BY <1>1 DEF Typed
<1>3. c # Nobody  BY NetAssumption
<1>4. pollSet' = {f \in Fds : peer'[f] # Nobody}  BY <1>1, <1>2 DEF Typed
<1>5. /\ table \in Seq(EntryType) /\ OneToOne(table) /\ Len(table) \in Nat
      /\ DOMAIN table = 1 .. Len(table)
      /\ \A i \in 1 .. Len(table) :
           /\ table[i].socket \in Fds
           /\ peer[table[i].socket] \in Clients /\ peer[table[i].socket] # Nobody
           /\ table[i].handle = Stored(clientHandle[peer[table[i].socket]], table[i].socket)
  BY EntriesLead DEF Typed
<1>6. /\ table' \in Seq(EntryType) /\ Len(table') <= Len(table) /\ OneToOne(table')
      /\ \A j \in DOMAIN table' : \E i \in DOMAIN table : table'[j] = table[i] /\ table[i].socket # fd
      /\ \A i \in DOMAIN table : table[i].socket # fd => \E j \in DOMAIN table' : table'[j] = table[i]
  <2> DEFINE r == RemoveHandle(table, fd)
  <2>1. /\ r \in Seq(EntryType) /\ Len(r) <= Len(table) /\ OneToOne(r)
        /\ \A j \in DOMAIN r : \E i \in DOMAIN table : r[j] = table[i] /\ table[i].socket # fd
        /\ \A i \in DOMAIN table : table[i].socket # fd => \E j \in DOMAIN r : r[j] = table[i]
    <3>1. table \in Seq(EntryType) /\ OneToOne(table)  BY <1>5
    <3> QED  BY <3>1, RemoveExact
  <2>2. table' = r  BY <1>1
  <2> HIDE DEF r
  <2> QED  BY <2>1, <2>2
<1>7. Len(table') <= MaxHandles /\ DOMAIN table' = 1 .. Len(table')
  <2>1. DOMAIN table' = 1 .. Len(table') /\ Len(table') \in Nat  BY <1>6, LenProperties
  <2> QED  BY <1>5, <1>6, <2>1, MaxHandlesAssumption DEF Typed
<1>8. \A j \in 1 .. Len(table') :
        /\ table'[j].socket \in Fds /\ table'[j].socket # fd
        /\ peer'[table'[j].socket] = peer[table'[j].socket]
        /\ peer'[table'[j].socket] # Nobody
        /\ table'[j].handle = Stored(clientHandle[peer'[table'[j].socket]], table'[j].socket)
  <2> SUFFICES ASSUME NEW j \in 1 .. Len(table')
               PROVE  /\ table'[j].socket \in Fds /\ table'[j].socket # fd
                      /\ peer'[table'[j].socket] = peer[table'[j].socket]
                      /\ peer'[table'[j].socket] # Nobody
                      /\ table'[j].handle = Stored(clientHandle[peer'[table'[j].socket]], table'[j].socket)
    OBVIOUS
  <2>1. PICK i \in 1 .. Len(table) : table'[j] = table[i] /\ table[i].socket # fd
    BY <1>5, <1>6, <1>7
  <2> QED  BY <1>2, <1>5, <2>1
<1>9. TableSound'
  <2>1. \A j \in 1 .. Len(table') : table'[j].socket \in pollSet'  BY <1>4, <1>8
  <2>2. \A i, j \in DOMAIN table' :
          i # j => /\ table'[i].handle # table'[j].handle
                   /\ table'[i].socket # table'[j].socket
    BY <1>6 DEF OneToOne
  <2>3. \A e \in ToSet(table') :
          /\ e.socket \in pollSet'
          /\ peer'[e.socket] # Nobody
          /\ e.handle = Stored(clientHandle'[peer'[e.socket]], e.socket)
    BY <1>7, <1>8, <2>1 DEF ToSet
  <2> QED  BY <2>2, <2>3 DEF TableSound
<1>10. /\ toServer' \in [Clients -> Seq(Bytes)] /\ toServer'[c] = << >>
       /\ \A x \in Clients : x # c => toServer'[x] = toServer[x]
  <2>1. << >> \in Seq(Bytes)  BY EmptySeq
  <2> QED  BY <1>1, <2>1 DEF Typed
<1>11. \A x \in Clients : x # c => (Connected(x)' <=> Connected(x))
  <2> SUFFICES ASSUME NEW x \in Clients, x # c PROVE Connected(x)' <=> Connected(x)
    OBVIOUS
  <2>1. x # Nobody  BY NetAssumption
  <2> QED  BY <1>2, <2>1 DEF Connected
<1>12. ~Connected(c)'
  <2>1. \A f \in Fds : peer'[f] # c  BY <1>2, <1>3 DEF Connections
  <2>2. backlog \in Seq(Clients)  BY DEF Typed
  <2>3. \A i \in 1 .. Len(backlog) : backlog[i] # c  BY DEF Connections
  <2>4. DOMAIN backlog = 1 .. Len(backlog)  BY <2>2, LenProperties
  <2> QED  BY <2>1, <2>3, <2>4 DEF Connected, ToSet
<1>13. \A x \in Clients : x # c => (Registered(x)' <=> Registered(x))
  <2> SUFFICES ASSUME NEW x \in Clients, x # c PROVE Registered(x)' <=> Registered(x)
    OBVIOUS
  <2>1. ASSUME NEW i \in 1 .. Len(table), peer[table[i].socket] = x
        PROVE  \E j \in 1 .. Len(table') : peer'[table'[j].socket] = x
    <3>1. table[i].socket # fd  BY <2>1
    <3>2. PICK j \in 1 .. Len(table') : table'[j] = table[i]  BY <1>5, <1>6, <1>7, <3>1
    <3> QED  BY <1>8, <2>1, <3>2
  <2>2. ASSUME NEW j \in 1 .. Len(table'), peer'[table'[j].socket] = x
        PROVE  \E i \in 1 .. Len(table) : peer[table[i].socket] = x
    <3>1. PICK i \in 1 .. Len(table) : table'[j] = table[i]  BY <1>5, <1>6, <1>7
    <3> QED  BY <1>8, <2>2, <3>1
  <2> QED  BY <2>1, <2>2 DEF Registered
<1>14. Queues'
  <2> SUFFICES ASSUME NEW x \in Clients
               PROVE  /\ QueueOf(toServer'[x], clientHandle[x], x, Registered(x)')
                      /\ phase[x] = "running" /\ Connected(x)' /\ ~Registered(x)' => toServer'[x] # << >>
    BY DEF Queues
  <2>1. CASE x = c
    <3>1. 1 .. Len(toServer'[c]) = {}  BY <1>10, EmptySeq
    <3> QED  BY <1>12, <2>1, <3>1 DEF QueueOf
  <2>2. CASE x # c
    <3>1. QueueOf(toServer[x], clientHandle[x], x, Registered(x))  BY DEF Queues
    <3>2. QueueOf(toServer'[x], clientHandle[x], x, Registered(x)')
      BY <1>10, <1>13, <2>2, <3>1 DEF QueueOf
    <3> QED  BY <1>10, <1>11, <1>13, <2>2, <3>2 DEF Queues
  <2> QED  BY <2>1, <2>2
<1>15. \A x \in Clients : phase[x] = "new" => ~Connected(x)' /\ toServer'[x] = << >>
  <2>1. Connected(c)  BY DEF Connected
  <2> QED  BY <1>10, <1>11, <2>1 DEF Connections
<1>16. \A f \in Fds : peer'[f] \in {peer[f], Nobody}  BY <1>2
<1> QED  BY <1>2, <1>4, <1>6, <1>7, <1>9, <1>10, <1>11, <1>14, <1>15, <1>16

\* A step that changes nothing on its way to the clients delivers nothing.
LEMMA NothingDelivered ==
  ASSUME IInv, UNCHANGED <<serverUp, toClient, reset, gone>>
  PROVE  Delivered
<1>1. Typed /\ Connections /\ Answers /\ Meant  BY DEF IInv
<1>2. /\ toClient \in [Clients -> Seq(Bytes)] /\ \A c \in Clients : Len(toClient[c]) \in Nat
      /\ serverUp \in BOOLEAN /\ reset \subseteq gone
  <2>1. toClient \in [Clients -> Seq(Bytes)]  BY <1>1 DEF Typed
  <2>2. \A c \in Clients : toClient[c] \in Seq(Bytes)  BY <2>1
  <2> QED  BY <1>1, <2>1, <2>2, LenProperties DEF Typed
<1>3. ASSUME NEW c \in Clients
      PROVE  /\ \A j \in 1 .. Len(toClient[c]) :
                  /\ FlagOf(toClient[c][j]) \in ServerFlags
                  /\ MeantFor(toClient[c][j], c, clientHandle, Started)
             /\ phase[c] = "new" => toClient[c] = << >>
             /\ c \in gone => toClient[c] = << >>
  BY <1>1 DEF Connections, Answers, Meant
<1> QED  BY <1>2, <1>3 DEF Delivered

\* What is delivered keeps what holds of the queues to the clients.
LEMMA DeliveredKeeps ==
  ASSUME IInv, Delivered, UNCHANGED <<phase, clientHandle>>
  PROVE  /\ Answers' /\ Meant'
         /\ \A c \in Clients : \A j \in 1 .. Len(toClient[c]) :
              j \in 1 .. Len(toClient'[c]) /\ toClient'[c][j] = toClient[c][j]
<1>1. Started' = Started  BY ServerKeepsMeaning
<1>2. Answers'  BY DEF Delivered, Answers
<1>3. Meant'  BY <1>1 DEF Delivered, Meant
<1>4. ASSUME NEW c \in Clients, NEW j \in 1 .. Len(toClient[c])
      PROVE  j \in 1 .. Len(toClient'[c]) /\ toClient'[c][j] = toClient[c][j]
  <2>1. /\ Len(toClient[c]) \in Nat /\ Len(toClient'[c]) \in Nat
        /\ Len(toClient[c]) <= Len(toClient'[c])
        /\ toClient'[c][j] = toClient[c][j]
    BY DEF Delivered
  <2> QED  BY <2>1
<1> QED  BY <1>2, <1>3, <1>4

\* A client is dropped: it has ended, it is refused and told so, or it has sent what
\* the server cannot receive.
LEMMA DropStep ==
  ASSUME IInv, NEW fd \in Fds, NEW c \in Clients, peer[fd] = c,
         CleanupClient(fd), UNCHANGED <<backlog, gone>>, UNCHANGED clientVars,
         serverUp, Delivered, Lists',
         phase[c] = "running" =>
           c \in refused \cup oversize \/ \E i \in 1 .. Len(toClient'[c]) : FlagOf(toClient'[c][i]) = 3
  PROVE  IInv'
<1>1. /\ Typed /\ Connections /\ TableSound /\ Queues
      /\ Sized /\ Told /\ Answers /\ Lists /\ Meant
  BY DEF IInv
<1>2. UNCHANGED <<phase, clientHandle, expectingHandleList, remainingHandles, refused, oversize, typed>>
  BY DEF clientVars, listVars, historyVars
<1>3. /\ peer' \in [Fds -> Clients \cup {Nobody}]
      /\ toServer' \in [Clients -> Seq(Bytes)]
      /\ table' \in Seq(EntryType) /\ Len(table') <= MaxHandles
      /\ pollSet' = {f \in Fds : peer'[f] # Nobody}
      /\ TableSound' /\ Queues'
      /\ \A x \in Clients : x # c => (Connected(x)' <=> Connected(x))
      /\ \A f \in Fds : peer'[f] \in {peer[f], Nobody}
      /\ \A x \in Clients : phase[x] = "new" => ~Connected(x)' /\ toServer'[x] = << >>
  BY <1>1, <1>2, CleanupKeeps
<1>4. Typed'  BY <1>1, <1>2, <1>3 DEF Typed, Delivered
<1>5. Connections'
  <2>1. backlog \in Seq(Clients) /\ \A i \in 1 .. Len(backlog) : backlog[i] # Nobody
    <3>1. backlog \in Seq(Clients)  BY <1>1 DEF Typed
    <3>2. \A i \in 1 .. Len(backlog) : backlog[i] \in Clients  BY <3>1, ElementOfSeq
    <3> QED  BY <3>1, <3>2, NetAssumption
  <2>2. \A f \in Fds : \A i \in 1 .. Len(backlog) : peer'[f] # backlog[i]
    <3>1. \A f \in Fds : \A i \in 1 .. Len(backlog) : peer[f] # backlog[i]
      BY <1>1 DEF Connections
    <3>2. \A f \in Fds : peer'[f] = peer[f] \/ peer'[f] = Nobody  BY <1>3
    <3> QED  BY <2>1, <3>1, <3>2
  <2>3. \A f, g \in Fds : peer'[f] = peer'[g] /\ peer'[f] # Nobody => f = g
    BY <1>1, <1>3 DEF Connections
  <2>4. \A x \in Clients :
          phase'[x] = "new" => ~Connected(x)' /\ toServer'[x] = << >> /\ toClient'[x] = << >>
    BY <1>2, <1>3 DEF Delivered
  <2>5. \A x \in gone' : toClient'[x] = << >>
    <3>1. gone \subseteq Clients  BY <1>1 DEF Typed
    <3> QED  BY <3>1 DEF Delivered
  <2>6. \A i, j \in 1 .. Len(backlog') : backlog'[i] = backlog'[j] => i = j
    BY <1>1 DEF Connections
  <2> QED  BY <2>2, <2>3, <2>4, <2>5, <2>6 DEF Connections
<1>6. /\ Answers' /\ Meant'
      /\ \A x \in Clients : \A j \in 1 .. Len(toClient[x]) :
           j \in 1 .. Len(toClient'[x]) /\ toClient'[x][j] = toClient[x][j]
  BY <1>2, DeliveredKeeps
<1>7. Told'
  <2> SUFFICES ASSUME NEW x \in Clients, phase[x] = "running", ~Connected(x)'
               PROVE  x \in refused \cup oversize \/ \E i \in 1 .. Len(toClient'[x]) : FlagOf(toClient'[x][i]) = 3
    BY <1>2 DEF Told
  <2>1. CASE x = c  BY <2>1
  <2>2. CASE x # c
    <3>1. x \in refused \cup oversize \/ \E i \in 1 .. Len(toClient[x]) : FlagOf(toClient[x][i]) = 3
      BY <1>1, <1>2, <1>3, <2>2 DEF Told
    <3> QED  BY <1>6, <3>1
  <2> QED  BY <2>1, <2>2
<1>8. Sized'
  <2>1. \A x \in Clients : toServer'[x] = toServer[x] \/ toServer'[x] = << >>
    BY <1>1 DEF CleanupClient, Typed
  <2>2. toServer \in [Clients -> Seq(Bytes)]  BY <1>1 DEF Typed
  <2> QED  BY <1>1, <1>2, <2>1, <2>2, SizedKept
<1> QED  BY <1>3, <1>4, <1>5, <1>6, <1>7, <1>8 DEF IInv

\* recvPDU returns 0: only a client that has ended is dropped without an answer.
LEMMA DisconnectStep ==
  ASSUME IInv, NEW fd \in Fds, Disconnected(fd), UNCHANGED clientVars
  PROVE  IInv'
<1> DEFINE c == peer[fd]
<1>1. /\ Polled(fd) /\ toServer[c] = << >> /\ CleanupClient(fd)
      /\ UNCHANGED <<serverUp, backlog, toClient, gone, reset>>
  BY DEF Disconnected
<1>2. c \in Clients /\ serverUp /\ Typed  BY <1>1, PolledPeer DEF IInv
<1>3. c \in gone  BY <1>1 DEF Polled, Ready
<1>4. Delivered  BY <1>1, NothingDelivered
<1>5. Lists'  BY <1>1 DEF IInv, Lists, clientVars, listVars
<1>6. phase[c] # "running"  BY <1>2, <1>3 DEF Typed
<1> HIDE DEF c
<1>7. peer[fd] = c  BY DEF c
<1>8. UNCHANGED <<backlog, gone>>  BY <1>1
<1> QED  BY <1>1, <1>2, <1>4, <1>5, <1>6, <1>7, <1>8, DropStep

\* recvPDU returns -1: the client has sent a PDU that does not fit the buffer.
LEMMA ReceiveErrorStep ==
  ASSUME IInv, NEW fd \in Fds, ReceiveError(fd), UNCHANGED clientVars
  PROVE  IInv' /\ peer[fd] \in oversize
<1> DEFINE c == peer[fd]
<1>1. /\ Polled(fd) /\ toServer[c] # << >> /\ CleanupClient(fd)
      /\ Len(Head(toServer[c])) > MAXBUF
      /\ UNCHANGED <<serverUp, backlog, toClient, gone, reset>>
  BY DEF ReceiveError
<1>2. c \in Clients /\ serverUp /\ Typed /\ Sized  BY <1>1, PolledPeer DEF IInv
<1>3. c \in oversize
  <2>1. toServer[c] \in Seq(Bytes)  BY <1>2 DEF Typed
  <2>2. 1 \in 1 .. Len(toServer[c]) /\ Head(toServer[c]) = toServer[c][1]
    BY <1>1, <2>1, EmptySeq
  <2> QED  BY <1>1, <1>2, <2>2 DEF Sized
<1>4. Delivered  BY <1>1, NothingDelivered
<1>5. Lists'  BY <1>1 DEF IInv, Lists, clientVars, listVars
<1> HIDE DEF c
<1>6. peer[fd] = c  BY DEF c
<1>7. UNCHANGED <<backlog, gone>>  BY <1>1
<1>8. IInv'  BY <1>1, <1>2, <1>3, <1>4, <1>5, <1>6, <1>7, DropStep
<1> QED  BY <1>3, <1>8 DEF c

\* A registered client is served: a PDU is taken, others are sent.
LEMMA DispatchStep ==
  ASSUME IInv, NEW fd \in Fds, NEW c \in Clients, peer[fd] = c,
         serverUp, toServer[c] # << >>,
         NEW sends, Proper(sends), Dispatch(fd, sends), UNCHANGED clientVars, Lists',
         table' \in Seq(EntryType), Len(table') <= MaxHandles, TableSound',
         Registered(c)',
         \A x \in Clients : x # c => (Registered(x)' <=> Registered(x))
  PROVE  IInv'
<1>1. /\ Typed /\ Connections /\ TableSound /\ Queues
      /\ Sized /\ Told /\ Answers /\ Lists /\ Meant
  BY DEF IInv
<1>2. UNCHANGED <<phase, clientHandle, expectingHandleList, remainingHandles, refused, oversize, typed>>
  BY DEF clientVars, listVars, historyVars
<1>3. /\ SendAll(sends)
      /\ toServer' = [toServer EXCEPT ![c] = Tail(toServer[c])]
      /\ UNCHANGED <<backlog, peer, gone, pollSet>>
  BY DEF Dispatch, Consume
<1>4. Delivered  BY <1>3, ProperDelivered
<1>5. /\ Answers' /\ Meant'
      /\ \A x \in Clients : \A j \in 1 .. Len(toClient[x]) :
           j \in 1 .. Len(toClient'[x]) /\ toClient'[x][j] = toClient[x][j]
  BY <1>2, <1>4, DeliveredKeeps
<1>6. \A x \in Clients : Connected(x)' <=> Connected(x)  BY <1>3 DEF Connected
<1>7. /\ Tail(toServer[c]) \in Seq(Bytes)
      /\ QueueOf(Tail(toServer[c]), clientHandle[c], c, TRUE)
  BY <1>1, NextRead
<1>8. /\ toServer' \in [Clients -> Seq(Bytes)]
      /\ toServer'[c] = Tail(toServer[c])
      /\ \A x \in Clients : x # c => toServer'[x] = toServer[x]
  BY <1>1, <1>3, <1>7 DEF Typed
<1>9. Typed'  BY <1>1, <1>2, <1>3, <1>4, <1>8 DEF Typed, Delivered
<1>10. Connections'
  <2>1. phase[c] # "new"
    <3>1. Connected(c)  BY DEF Connected
    <3> QED  BY <1>1, <3>1 DEF Connections
  <2>2. \A x \in Clients :
          phase'[x] = "new" => ~Connected(x)' /\ toServer'[x] = << >> /\ toClient'[x] = << >>
    BY <1>1, <1>2, <1>4, <1>6, <1>8, <2>1 DEF Connections, Delivered
  <2>3. \A x \in gone' : toClient'[x] = << >>
    <3>1. gone \subseteq Clients  BY <1>1 DEF Typed
    <3> QED  BY <1>3, <1>4, <3>1 DEF Delivered
  <2> QED  BY <1>1, <1>3, <2>2, <2>3 DEF Connections
<1>11. Queues'
  <2> SUFFICES ASSUME NEW x \in Clients
               PROVE  /\ QueueOf(toServer'[x], clientHandle[x], x, Registered(x)')
                      /\ phase[x] = "running" /\ Connected(x)' /\ ~Registered(x)' => toServer'[x] # << >>
    BY <1>2 DEF Queues
  <2>1. CASE x = c  BY <1>7, <1>8, <2>1 DEF QueueOf
  <2>2. CASE x # c
    <3>1. QueueOf(toServer[x], clientHandle[x], x, Registered(x))  BY <1>1 DEF Queues
    <3>2. QueueOf(toServer'[x], clientHandle[x], x, Registered(x)')
      BY <1>8, <2>2, <3>1 DEF QueueOf
    <3> QED  BY <1>1, <1>6, <1>8, <2>2, <3>2 DEF Queues
  <2> QED  BY <2>1, <2>2
<1>12. Told'
  <2> SUFFICES ASSUME NEW x \in Clients, phase[x] = "running", ~Connected(x)'
               PROVE  x \in refused \cup oversize \/ \E i \in 1 .. Len(toClient'[x]) : FlagOf(toClient'[x][i]) = 3
    BY <1>2 DEF Told
  <2>1. x \in refused \cup oversize \/ \E i \in 1 .. Len(toClient[x]) : FlagOf(toClient[x][i]) = 3
    BY <1>1, <1>6 DEF Told
  <2> QED  BY <1>5, <2>1
<1>13. Sized'
  <2>1. \A x \in Clients : \/ toServer'[x] = toServer[x]
                           \/ toServer[x] # << >> /\ toServer'[x] = Tail(toServer[x])
    BY <1>8
  <2>2. toServer \in [Clients -> Seq(Bytes)]  BY <1>1 DEF Typed
  <2> QED  BY <1>1, <1>2, <2>1, <2>2, SizedKept
<1> QED  BY <1>5, <1>9, <1>10, <1>11, <1>12, <1>13 DEF IInv

\* One PDU is sent that may be.
LEMMA OneProper ==
  ASSUME NEW s \in SendType, Allowed(s), FlagOf(s.pdu) \notin {11, 12, 13}
  PROVE  Proper(<<s>>) /\ Plain(<<s>>)
<1> DEFINE ss == <<s>>
<1>1. ss \in Seq(SendType) /\ \A i \in 1 .. Len(ss) : ss[i] = s  OBVIOUS
<1> HIDE DEF ss
<1>2. Proper(ss) /\ Plain(ss)  BY <1>1 DEF Proper, Plain
<1> QED  BY <1>2 DEF ss

\* An answer is proper: it is a PDU of the server's own.
LEMMA AnswerProper ==
  ASSUME NEW fd \in Fds, peer[fd] # Nobody, NEW pdu \in Bytes, FlagOf(pdu) \in {2, 3, 7}
  PROVE  Proper(<<Send(fd, pdu)>>) /\ Plain(<<Send(fd, pdu)>>)
<1> DEFINE s == Send(fd, pdu)
<1>1. s \in SendType /\ s.pdu = pdu /\ s.fd = fd  BY DEF Send, SendType
<1>2. Allowed(s) /\ FlagOf(s.pdu) \notin {11, 12, 13}
  BY <1>1 DEF Allowed, ServerFlags, MeantFor
<1> HIDE DEF s
<1>3. Proper(<<s>>) /\ Plain(<<s>>)  BY <1>1, <1>2, OneProper
<1> QED  BY <1>3 DEF s

\* The client whose PDU is served, and the PDU.
LEMMA Served ==
  ASSUME IInv, NEW fd \in Fds, Polled(fd), toServer[peer[fd]] # << >>
  PROVE  LET c == peer[fd]
             m == Head(toServer[c])
             h == clientHandle[c]
         IN  /\ c \in Clients /\ serverUp /\ phase[c] # "new"
             /\ m \in Bytes /\ h \in Bytes
             /\ \/ /\ ~Registered(c) /\ FlagOf(m) = 1 /\ SrcHandle(m) = h
                \/ /\ Registered(c) /\ Spoken(h, c, m) /\ FlagOf(m) \in {4, 5, 6, 10}
<1> DEFINE c == peer[fd]
<1>1. Typed /\ Queues /\ Connections  BY DEF IInv
<1>2. c \in Clients /\ serverUp  BY <1>1, PolledPeer
<1>3. phase[c] # "new"
  <2>1. Connected(c)  BY DEF Connected
  <2> QED  BY <1>1, <1>2, <2>1 DEF Connections
<1> HIDE DEF c
<1>4. toServer[c] # << >>  BY DEF c
<1>5. LET m == Head(toServer[c])
          h == clientHandle[c]
      IN  /\ m \in Bytes /\ h \in Bytes
          /\ \/ /\ ~Registered(c) /\ FlagOf(m) = 1 /\ SrcHandle(m) = h
             \/ /\ Registered(c) /\ Spoken(h, c, m) /\ FlagOf(m) \in {4, 5, 6, 10}
  BY <1>1, <1>2, <1>4, NextRead
<1> QED  BY <1>2, <1>3, <1>5 DEF c

\* A handle nobody has is registered for the client it was started under; its
\* connection is not in the table yet.
LEMMA RegisterStep ==
  ASSUME IInv, NEW fd \in Fds, Polled(fd), toServer[peer[fd]] # << >>,
         NEW m, m = Head(toServer[peer[fd]]), Register(fd, m), UNCHANGED clientVars
  PROVE  IInv'
<1>0. PICK c \in Clients : c = peer[fd]
  <2>1. peer[fd] \in Clients  BY PolledPeer DEF IInv
  <2> QED  BY <2>1
<1> DEFINE h == clientHandle[c]
           sends == <<Send(fd, <<2>>)>>
<1>1. Typed /\ TableSound  BY DEF IInv
<1>2. /\ c \in Clients /\ serverUp /\ h \in Bytes
      /\ ~Registered(c) /\ SrcHandle(m) = h
  BY <1>0, Served DEF Register
<1>3. /\ ~AddRefused(table, h) /\ table' = AddHandle(table, h, fd)
      /\ Dispatch(fd, sends) /\ toServer[c] # << >>
  BY <1>0, <1>2 DEF Register
<1>4. Proper(sends) /\ Plain(sends)
  <2>1. <<2>> \in Bytes /\ FlagOf(<<2>>) \in {2, 3, 7}  BY RepliesRead
  <2>2. peer[fd] # Nobody  BY <1>0, NetAssumption
  <2> QED  BY <2>1, <2>2, AnswerProper
<1> HIDE DEF sends
<1>5. Lists'
  <2>1. SendAll(sends) /\ UNCHANGED <<gone, expectingHandleList, remainingHandles>>
    BY <1>3 DEF Dispatch, clientVars, listVars
  <2> QED  BY <1>2, <1>4, <2>1, PlainLists
<1>6. /\ table \in Seq(EntryType) /\ Len(table) \in Nat /\ DOMAIN table = 1 .. Len(table)
      /\ OneToOne(table)
      /\ \A i \in 1 .. Len(table) :
           /\ table[i].socket \in Fds
           /\ peer[table[i].socket] \in Clients /\ peer[table[i].socket] # Nobody
           /\ table[i].handle = Stored(clientHandle[peer[table[i].socket]], table[i].socket)
  BY <1>1, EntriesLead DEF Typed
<1>7. \A i \in 1 .. Len(table) : table[i].handle # Stored(h, fd) /\ table[i].socket # fd
  <2>1. \A i \in 1 .. Len(table) : table[i].handle # h  BY <1>3, <1>6 DEF AddRefused, InUse
  <2>2. \A i \in 1 .. Len(table) : table[i].socket # fd  BY <1>0, <1>2 DEF Registered
  <2>3. ASSUME NEW i \in 1 .. Len(table), table[i].handle = Stored(h, fd) PROVE FALSE
    <3> DEFINE g == clientHandle[peer[table[i].socket]]
               f == table[i].socket
    <3>1. g \in Bytes /\ Len(g) <= MAX_HANDLE_LENGTH /\ Len(h) <= MAX_HANDLE_LENGTH
      BY <1>1, <1>2, <1>6 DEF Typed
    <3>2. f \in Fds /\ f # fd /\ table[i].handle = Stored(g, f)  BY <1>6, <2>2
    <3> HIDE DEF g, f, h
    <3>4. Stored(g, f) = Stored(h, fd)  BY <2>3, <3>2
    <3>5. h \in Bytes  BY <1>2
    <3>3. Stored(g, f) = h  BY <3>1, <3>2, <3>4, <3>5, StoredApart
    <3> QED  BY <2>1, <3>2, <3>3
  <2> QED  BY <2>1, <2>2, <2>3
<1>8. c # Nobody /\ peer[fd] = c /\ clientHandle[c] = h  BY <1>0, <1>2, NetAssumption
<1> HIDE DEF h
<1>9. /\ table' \in Seq(EntryType) /\ Len(table') = Len(table) + 1 /\ Len(table') <= MaxHandles
      /\ table'[1] = Entry(Stored(h, fd), fd)
      /\ \A i \in 1 .. Len(table) : table'[i + 1] = table[i]
  <2>1. Len(table) <= MaxHandles  BY <1>1 DEF Typed
  <2> QED  BY <1>2, <1>3, <1>6, <2>1, AddSound
<1>10. table'[1].handle = Stored(h, fd) /\ table'[1].socket = fd  BY <1>9 DEF Entry
<1>11. /\ DOMAIN table' = 1 .. Len(table) + 1
       /\ \A j \in 1 .. Len(table) + 1 :
            j # 1 => j - 1 \in 1 .. Len(table) /\ table'[j] = table[j - 1]
  <2>1. DOMAIN table' = 1 .. Len(table')  BY <1>9, LenProperties
  <2>2. ASSUME NEW j \in 1 .. Len(table) + 1, j # 1
        PROVE  j - 1 \in 1 .. Len(table) /\ table'[j] = table[j - 1]
    <3>1. j - 1 \in 1 .. Len(table) /\ (j - 1) + 1 = j  BY <1>6, <2>2
    <3> QED  BY <1>9, <3>1
  <2> QED  BY <1>9, <2>1, <2>2
<1>12. peer' = peer /\ pollSet' = pollSet /\ clientHandle' = clientHandle
  BY <1>3 DEF Dispatch, clientVars
<1>13. TableSound'
  <2>1. ASSUME NEW i \in DOMAIN table', NEW j \in DOMAIN table', i # j
        PROVE  table'[i].handle # table'[j].handle /\ table'[i].socket # table'[j].socket
    <3>1. CASE i = 1
      <4>1. j # 1  BY <2>1, <3>1
      <4>2. j - 1 \in 1 .. Len(table) /\ table'[j] = table[j - 1]  BY <1>11, <4>1
      <4> QED  BY <1>7, <1>10, <3>1, <4>2
    <3>2. CASE j = 1
      <4>1. i - 1 \in 1 .. Len(table) /\ table'[i] = table[i - 1]  BY <1>11, <2>1, <3>2
      <4> QED  BY <1>7, <1>10, <3>2, <4>1
    <3>3. CASE i # 1 /\ j # 1
      <4>1. /\ i - 1 \in DOMAIN table /\ table'[i] = table[i - 1]
            /\ j - 1 \in DOMAIN table /\ table'[j] = table[j - 1]
        BY <1>6, <1>11, <3>3
      <4>2. i - 1 # j - 1  BY <1>11, <2>1
      <4> QED  BY <1>6, <4>1, <4>2 DEF OneToOne
    <3> QED  BY <3>1, <3>2, <3>3
  <2>2. ASSUME NEW j \in DOMAIN table'
        PROVE  /\ table'[j].socket \in pollSet
               /\ peer[table'[j].socket] # Nobody
               /\ table'[j].handle = Stored(clientHandle[peer[table'[j].socket]], table'[j].socket)
    <3>1. pollSet = {f \in Fds : peer[f] # Nobody}  BY <1>1 DEF Typed
    <3>2. CASE j = 1  BY <1>8, <1>10, <3>1, <3>2
    <3>3. CASE j # 1  BY <1>6, <1>11, <3>1, <3>3
    <3> QED  BY <3>2, <3>3
  <2> QED  BY <1>12, <2>1, <2>2 DEF TableSound, ToSet
<1>14. Registered(c)'
  <2>1. 1 \in 1 .. Len(table')  BY <1>6, <1>9
  <2> QED  BY <1>8, <1>10, <1>12, <2>1 DEF Registered
<1>15. ASSUME NEW x \in Clients, x # c PROVE Registered(x)' <=> Registered(x)
  <2>1. ASSUME NEW i \in 1 .. Len(table), peer[table[i].socket] = x
        PROVE  \E j \in 1 .. Len(table') : peer[table'[j].socket] = x
    <3>1. i + 1 \in 1 .. Len(table')  BY <1>6, <1>9
    <3> QED  BY <1>9, <2>1, <3>1
  <2>2. ASSUME NEW j \in 1 .. Len(table'), peer[table'[j].socket] = x
        PROVE  \E i \in 1 .. Len(table) : peer[table[i].socket] = x
    <3>1. j # 1  BY <1>8, <1>10, <1>15, <2>2
    <3>2. j \in 1 .. Len(table) + 1  BY <1>9
    <3> QED  BY <1>11, <2>2, <3>1, <3>2
  <2> QED  BY <1>12, <2>1, <2>2 DEF Registered
<1> QED  BY <1>2, <1>3, <1>4, <1>5, <1>8, <1>9, <1>13, <1>14, <1>15, DispatchStep

\* The handle is taken or the table is full: the answer reaches the client, if
\* it still lives, before the connection is closed.
LEMMA RefuseStep ==
  ASSUME IInv, NEW fd \in Fds, Polled(fd), toServer[peer[fd]] # << >>,
         NEW m, Refuse(fd, m), UNCHANGED clientVars
  PROVE  IInv'
<1> DEFINE c == peer[fd]
           sends == <<Send(fd, <<3>>)>>
<1>1. Typed  BY DEF IInv
<1>2. c \in Clients /\ serverUp /\ c # Nobody  BY <1>1, PolledPeer
<1>3. SendAll(sends) /\ CleanupClient(fd) /\ UNCHANGED <<backlog, gone>>  BY DEF Refuse
<1>4. <<3>> \in Bytes /\ FlagOf(<<3>>) = 3  BY RepliesRead
<1>5. Proper(sends) /\ Plain(sends)  BY <1>2, <1>4, AnswerProper
<1>6. Len(sends) = 1 /\ sends[1].fd = fd /\ sends[1].pdu = <<3>>  BY DEF Send
<1> HIDE DEF sends
<1>7. Lists'
  <2>1. UNCHANGED <<gone, expectingHandleList, remainingHandles>>
    BY <1>3 DEF clientVars, listVars
  <2> QED  BY <1>2, <1>3, <1>5, <2>1, PlainLists
<1>8. Delivered  BY <1>3, <1>5, ProperDelivered
<1>9. ASSUME phase[c] = "running"
      PROVE  \E i \in 1 .. Len(toClient'[c]) : FlagOf(toClient'[c][i]) = 3
  <2>1. c \in Clients \ gone  BY <1>1, <1>2, <1>9 DEF Typed
  <2>2. toClient \in [Clients -> Seq(Bytes)] /\ sends \in Seq(SendType)
    BY <1>1, <1>5 DEF Typed, Proper
  <2>3. \A i \in 1 .. Len(sends) : sends[i].fd = fd  BY <1>6
  <2>4. peer[fd] = c  OBVIOUS
  <2> HIDE DEF c
  <2>9. \A i \in 1 .. Len(sends) : ~Faults(sends[i])  BY <1>6 DEF Faults
  <2>5. /\ Len(toClient'[c]) = Len(toClient[c]) + Len(sends)
        /\ \A j \in 1 .. Len(sends) : toClient'[c][Len(toClient[c]) + j] = sends[j].pdu
    <3>1. PICK k \in 0 .. Len(sends) :
            /\ toClient'[c] \in Seq(Bytes)
            /\ Len(toClient'[c]) = Len(toClient[c]) + k
            /\ \A j \in 1 .. Len(toClient[c]) : toClient'[c][j] = toClient[c][j]
            /\ \A j \in 1 .. k : /\ toClient'[c][Len(toClient[c]) + j] = sends[j].pdu
                                 /\ ~Faults(sends[j])
            /\ serverUp' => k = Len(sends)
            /\ (\A i \in 1 .. Len(sends) : ~Faults(sends[i])) => k = Len(sends)
      BY <1>2, <1>3, <2>1, <2>2, <2>3, <2>4, AnswerArrives
    <3>2. k = Len(sends)  BY <2>9, <3>1
    <3> QED  BY <3>1, <3>2
  <2>6. Len(toClient[c]) \in Nat  BY <1>2, <1>8 DEF Delivered
  <2>7. Len(toClient[c]) + 1 \in 1 .. Len(toClient'[c])  BY <1>6, <2>5, <2>6
  <2>8. toClient'[c][Len(toClient[c]) + 1] = <<3>>  BY <1>6, <2>5
  <2> QED  BY <1>4, <2>7, <2>8
<1>10. peer[fd] = c  OBVIOUS
<1> HIDE DEF c
<1> QED  BY <1>2, <1>3, <1>7, <1>8, <1>9, <1>10, DropStep

\* What is put together from proper pieces is proper.
LEMMA FlattenProper ==
  ASSUME NEW ss \in Seq(Seq(SendType)),
         \A i \in 1 .. Len(ss) : Proper(ss[i]) /\ Plain(ss[i])
  PROVE  Proper(FlattenSeq(ss)) /\ Plain(FlattenSeq(ss))
<1> DEFINE all == FlattenSeq(ss)
<1>1. /\ all \in Seq(SendType)
      /\ \A j \in 1 .. Len(all) : \E i \in 1 .. Len(ss) : \E k \in 1 .. Len(ss[i]) : all[j] = ss[i][k]
  BY FlattenElements
<1> HIDE DEF all
<1>2. ASSUME NEW j \in 1 .. Len(all)
      PROVE  Allowed(all[j]) /\ FlagOf(all[j].pdu) \notin {11, 12, 13}
  <2>0. PICK i \in 1 .. Len(ss) : \E k \in 1 .. Len(ss[i]) : all[j] = ss[i][k]  BY <1>1
  <2>1. PICK k \in 1 .. Len(ss[i]) : all[j] = ss[i][k]  BY <2>0
  <2>2. Allowed(ss[i][k]) /\ FlagOf(ss[i][k].pdu) \notin {11, 12, 13}  BY DEF Proper, Plain
  <2> QED  BY <2>1, <2>2
<1>3. Proper(all) /\ Plain(all)  BY <1>1, <1>2 DEF Proper, Plain
<1> QED  BY <1>3 DEF all

\* To send nothing is proper.
LEMMA NothingProper == Proper(<< >>) /\ Plain(<< >>)
<1> DEFINE ss == << >>
<1>1. ss \in Seq(SendType) /\ 1 .. Len(ss) = {}  BY EmptySeq
<1> HIDE DEF ss
<1>2. Proper(ss) /\ Plain(ss)  BY <1>1 DEF Proper, Plain
<1> QED  BY <1>2 DEF ss

\* A message may go to the client of an entry whose handle it names, or, if it
\* goes to everybody, whose handle is not the sender's.
LEMMA ForwardProper ==
  ASSUME Typed, TableSound, NEW c \in Clients, phase[c] # "new",
         NEW m \in Bytes, FlagOf(m) \in {4, 5, 6},
         NEW line \in Lines[c], Meaning(m, clientHandle[c], c, line),
         NEW i \in 1 .. Len(table),
         FlagOf(m) = 4 => table[i].handle # clientHandle[c],
         FlagOf(m) # 4 => table[i].handle \in ToSet(Command[line].dests)
  PROVE  Proper(<<Send(table[i].socket, m)>>) /\ Plain(<<Send(table[i].socket, m)>>)
<1> DEFINE s == Send(table[i].socket, m)
<1>1. /\ table[i].socket \in Fds /\ peer[table[i].socket] # Nobody
      /\ table[i].handle = Stored(clientHandle[peer[table[i].socket]], table[i].socket)
  BY EntriesLead
<1>2. s \in SendType /\ s.pdu = m /\ s.fd = table[i].socket  BY <1>1 DEF Send, SendType
<1> HIDE DEF s
<1>3. ASSUME NEW x \in Clients, peer[s.fd] = x PROVE MeantFor(m, x, clientHandle, Started)
  <2>1. /\ table[i].handle = Stored(clientHandle[x], table[i].socket)
        /\ clientHandle[x] \in Bytes /\ table[i].socket \in Fds
    BY <1>1, <1>2, <1>3 DEF Typed
  <2>2. c \in Started  BY DEF Started
  <2>3. /\ Command[line].flag = FlagOf(m)
        /\ Printed(m) = [src |-> clientHandle[c], text |-> Command[line].text]
    BY DEF Meaning
  <2>5. /\ Len(clientHandle[x]) < MAX_HANDLE_LENGTH => table[i].handle = clientHandle[x]
        /\ Len(table[i].handle) < MAX_HANDLE_LENGTH => table[i].handle = clientHandle[x]
    BY <2>1, StoredRead
  <2>6. FlagOf(m) = 4 => clientHandle[c] # clientHandle[x]  BY <2>5 DEF Meaning
  <2>7. FlagOf(m) # 4 => clientHandle[x] \in ToSet(Command[line].dests)  BY <2>5 DEF Meaning
  <2>4. IF Command[line].flag = 4 THEN clientHandle[c] # clientHandle[x]
        ELSE clientHandle[x] \in ToSet(Command[line].dests)
    BY <2>3, <2>6, <2>7
  <2> QED  BY <2>2, <2>3, <2>4 DEF MeantFor
<1>4. Allowed(s) /\ FlagOf(s.pdu) \notin {11, 12, 13}
  BY <1>1, <1>2, <1>3 DEF Allowed, ServerFlags
<1>5. Proper(<<s>>) /\ Plain(<<s>>)  BY <1>2, <1>4, OneProper
<1> QED  BY <1>5 DEF s

\* For a named destination the message goes to the client that has the handle,
\* or an error goes back.
LEMMA NamedProper ==
  ASSUME Typed, TableSound, NEW c \in Clients, phase[c] # "new",
         NEW m \in Bytes, FlagOf(m) \in {5, 6},
         NEW line \in Lines[c], Meaning(m, clientHandle[c], c, line),
         NEW h \in ToSet(Command[line].dests), NEW fd \in Fds, peer[fd] # Nobody, NEW e \in Bytes
  PROVE  LET socket == LookupHandle(table, h)
             ss == IF socket = NoSocket THEN NoSuchHandle(fd, e) ELSE <<Send(socket, m)>>
         IN  Proper(ss) /\ Plain(ss)
<1> DEFINE socket == LookupHandle(table, h)
<1>1. CASE socket = NoSocket
  <2>1. BuildErrPacket(e) \in Bytes /\ FlagOf(BuildErrPacket(e)) = 7  BY RepliesRead
  <2>2. Proper(<<Send(fd, BuildErrPacket(e))>>) /\ Plain(<<Send(fd, BuildErrPacket(e))>>)
    BY <2>1, AnswerProper
  <2>3. NoSuchHandle(fd, e) = << >> \/ NoSuchHandle(fd, e) = <<Send(fd, BuildErrPacket(e))>>
    BY DEF NoSuchHandle
  <2>4. Proper(NoSuchHandle(fd, e)) /\ Plain(NoSuchHandle(fd, e))
    BY <2>2, <2>3, NothingProper
  <2> QED  BY <1>1, <2>4
<1>2. CASE socket # NoSocket
  <2>1. InUse(table, h)  BY <1>2 DEF LookupHandle
  <2>2. table \in Seq(EntryType) /\ DOMAIN table = 1 .. Len(table)
    BY EntriesLead DEF Typed
  <2>3. PICK i \in 1 .. Len(table) : table[i].handle = h /\ socket = table[i].socket
    BY <2>1, <2>2, LookupFinds
  <2>4. Proper(<<Send(table[i].socket, m)>>) /\ Plain(<<Send(table[i].socket, m)>>)
    BY <2>3, ForwardProper
  <2> QED  BY <1>2, <2>3, <2>4
<1> QED  BY <1>1, <1>2

\* A registered client is served and nobody is added to the table.
LEMMA ServeStep ==
  ASSUME IInv, NEW fd \in Fds, Polled(fd), toServer[peer[fd]] # << >>,
         FlagOf(Head(toServer[peer[fd]])) # 1,
         NEW sends, Proper(sends), Dispatch(fd, sends), UNCHANGED table,
         UNCHANGED clientVars, Lists'
  PROVE  IInv'
<1>0. PICK c \in Clients : c = peer[fd]
  <2>1. peer[fd] \in Clients  BY PolledPeer DEF IInv
  <2> QED  BY <2>1
<1>1. serverUp /\ Registered(c)  BY <1>0, Served
<1>2. Typed /\ TableSound  BY DEF IInv
<1>3. peer' = peer /\ pollSet' = pollSet /\ clientHandle' = clientHandle
  BY DEF Dispatch, clientVars
<1>4. \A x \in Clients : Registered(x)' <=> Registered(x)  BY <1>3 DEF Registered
<1>5. TableSound'  BY <1>2, <1>3 DEF TableSound
<1>6. table' \in Seq(EntryType) /\ Len(table') <= MaxHandles  BY <1>2 DEF Typed
<1>7. peer[fd] = c /\ toServer[c] # << >> /\ Registered(c)'  BY <1>0, <1>1, <1>4
<1> QED  BY <1>1, <1>4, <1>5, <1>6, <1>7, DispatchStep

\* Plain PDUs are sent to serve it.
LEMMA ServePlain ==
  ASSUME IInv, NEW fd \in Fds, Polled(fd), toServer[peer[fd]] # << >>,
         FlagOf(Head(toServer[peer[fd]])) # 1,
         NEW sends, Proper(sends), Plain(sends), Dispatch(fd, sends), UNCHANGED table,
         UNCHANGED clientVars
  PROVE  IInv'
<1>1. SendAll(sends) /\ UNCHANGED <<gone, expectingHandleList, remainingHandles>>
  BY DEF Dispatch, clientVars, listVars
<1>2. Lists'
  <2>1. serverUp  BY DEF Polled
  <2> QED  BY <1>1, <2>1, PlainLists
<1> QED  BY <1>2, ServeStep

\* A message the server reads was typed by the client it reads from.
LEMMA MessageServed ==
  ASSUME IInv, NEW fd \in Fds, Polled(fd), toServer[peer[fd]] # << >>,
         FlagOf(Head(toServer[peer[fd]])) \in {4, 5, 6}
  PROVE  LET c == peer[fd]
             m == Head(toServer[c])
         IN  /\ c \in Clients /\ phase[c] # "new" /\ m \in Bytes /\ Registered(c)
             /\ \E line \in Lines[c] : Meaning(m, clientHandle[c], c, line)
<1> DEFINE c == peer[fd]
           m == Head(toServer[c])
           h == clientHandle[c]
<1>1. /\ c \in Clients /\ phase[c] # "new" /\ m \in Bytes /\ h \in Bytes
      /\ Registered(c) /\ Spoken(h, c, m)
  BY Served
<1>2. FlagOf(m) # 10  OBVIOUS
<1> HIDE DEF c, m, h
<1>3. \E line \in Lines[c] : Meaning(m, h, c, line)  BY <1>1, <1>2, SpokenRead
<1> QED  BY <1>1, <1>3 DEF c, m, h

\* %B: to every entry but the one of the sender's connection, which is the one
\* with its handle.
LEMMA BroadcastStep ==
  ASSUME IInv, NEW fd \in Fds, Polled(fd), toServer[peer[fd]] # << >>,
         NEW m, m = Head(toServer[peer[fd]]), Broadcast(fd, m), UNCHANGED clientVars
  PROVE  IInv'
<1> DEFINE c == peer[fd]
           piece(i) == LET socket == LookupHandle(table, GetHandles(table)[i])
                       IN  IF socket = fd THEN << >> ELSE <<Send(socket, m)>>
           ss == [i \in DOMAIN table |-> piece(i)]
<1>1. Typed /\ TableSound /\ Connections  BY DEF IInv
<1>2. FlagOf(m) = 4 /\ Dispatch(fd, FlattenSeq(ss)) /\ UNCHANGED table  BY DEF Broadcast
<1>3. c \in Clients /\ phase[c] # "new" /\ m \in Bytes /\ Registered(c)
  BY <1>2, MessageServed
<1>4. PICK line \in Lines[c] : Meaning(m, clientHandle[c], c, line)
  BY <1>2, MessageServed
<1>5. /\ table \in Seq(EntryType)
      /\ Len(table) \in Nat /\ DOMAIN table = 1 .. Len(table) /\ OneToOne(table)
      /\ \A i \in 1 .. Len(table) :
           /\ table[i].socket \in Fds
           /\ peer[table[i].socket] \in Clients /\ peer[table[i].socket] # Nobody
           /\ table[i].handle = Stored(clientHandle[peer[table[i].socket]], table[i].socket)
  BY <1>1, EntriesLead DEF Typed
<1>6. PICK own \in 1 .. Len(table) : peer[table[own].socket] = c  BY <1>3 DEF Registered
<1>7. table[own].socket = fd /\ table[own].handle = clientHandle[c]
  <2>1. peer[table[own].socket] = peer[fd] /\ peer[table[own].socket] # Nobody  BY <1>5, <1>6
  <2>2. table[own].socket = fd  BY <1>1, <1>5, <2>1 DEF Connections
  <2>3. table[own].handle = Stored(clientHandle[c], fd)  BY <1>5, <2>2
  <2>4. clientHandle[c] \in Bytes /\ Len(clientHandle[c]) < MAX_HANDLE_LENGTH
    BY <1>1, <1>3, <1>4 DEF Typed, Meaning
  <2> QED  BY <2>2, <2>3, <2>4, StoredRead
<1>8. ASSUME NEW i \in 1 .. Len(table)
      PROVE  /\ piece(i) \in Seq(SendType)
             /\ Proper(piece(i)) /\ Plain(piece(i))
  <2>1. LookupHandle(table, GetHandles(table)[i]) = table[i].socket
    <3>1. GetHandles(table)[i] = table[i].handle  BY <1>5 DEF GetHandles
    <3> QED  BY <1>5, <3>1, LookupExact
  <2>2. CASE table[i].socket = fd
    <3>1. piece(i) = << >>  BY <2>1, <2>2
    <3>2. << >> \in Seq(SendType)  BY EmptySeq
    <3> QED  BY <3>1, <3>2, NothingProper
  <2>3. CASE table[i].socket # fd
    <3>1. piece(i) = <<Send(table[i].socket, m)>>  BY <2>1, <2>3
    <3>2. i # own  BY <1>7, <2>3
    <3>3. table[i].handle # clientHandle[c]  BY <1>5, <1>7, <3>2 DEF OneToOne
    <3> HIDE DEF c, piece
    <3>4. Proper(<<Send(table[i].socket, m)>>) /\ Plain(<<Send(table[i].socket, m)>>)
      BY <1>1, <1>2, <1>3, <1>4, <3>3, ForwardProper
    <3> QED  BY <3>1, <3>4 DEF Proper
  <2> QED  BY <2>2, <2>3
<1>9. ss \in Seq(Seq(SendType)) /\ \A i \in 1 .. Len(ss) : Proper(ss[i]) /\ Plain(ss[i])
  <2> HIDE DEF piece
  <2> QED  BY <1>5, <1>8
<1> HIDE DEF ss
<1>10. Proper(FlattenSeq(ss)) /\ Plain(FlattenSeq(ss))  BY <1>9, FlattenProper
<1> QED  BY <1>2, <1>10, ServePlain

\* %M: to the first destination.
LEMMA MessageStep ==
  ASSUME IInv, NEW fd \in Fds, Polled(fd), toServer[peer[fd]] # << >>,
         NEW m, m = Head(toServer[peer[fd]]), Message(fd, m), UNCHANGED clientVars
  PROVE  IInv'
<1> DEFINE c == peer[fd]
           dest == FirstDest(m)
           socket == LookupHandle(table, dest)
           ss == IF socket = NoSocket THEN NoSuchHandle(fd, dest) ELSE <<Send(socket, m)>>
<1>1. Typed /\ TableSound  BY DEF IInv
<1>2. FlagOf(m) = 5 /\ Dispatch(fd, ss) /\ UNCHANGED table  BY DEF Message
<1>3. c \in Clients /\ phase[c] # "new" /\ m \in Bytes /\ peer[fd] # Nobody
  BY <1>2, MessageServed, NetAssumption
<1>4. PICK line \in Lines[c] : Meaning(m, clientHandle[c], c, line)
  BY <1>2, MessageServed
<1> DEFINE dests == Command[line].dests
<1>5. dests \in Seq(Bytes) /\ Len(dests) > 0 /\ dest = dests[1]
  BY <1>2, <1>4 DEF Meaning, CommandType
<1>6. dest \in ToSet(dests) /\ dest \in Bytes
  <2> HIDE DEF dests, dest
  <2>1. 1 \in 1 .. Len(dests) /\ DOMAIN dests = 1 .. Len(dests)  BY <1>5, LenProperties
  <2>2. dests[1] \in Bytes  BY <1>5, <2>1, ElementOfSeq
  <2> QED  BY <1>5, <2>1, <2>2 DEF ToSet
<1>7. Proper(ss) /\ Plain(ss)
  <2> HIDE DEF c, dest
  <2> QED  BY <1>1, <1>2, <1>3, <1>4, <1>6, NamedProper
<1> HIDE DEF ss
<1> QED  BY <1>2, <1>7, ServePlain

\* %C: to every destination.
LEMMA MulticastStep ==
  ASSUME IInv, NEW fd \in Fds, Polled(fd), toServer[peer[fd]] # << >>,
         NEW m, m = Head(toServer[peer[fd]]), Multicast(fd, m), UNCHANGED clientVars
  PROVE  IInv'
<1> DEFINE c == peer[fd]
           piece(i) == LET socket == LookupHandle(table, DestHandles(m)[i])
                       IN  IF socket = NoSocket THEN NoSuchHandle(fd, SrcHandle(m))
                           ELSE <<Send(socket, m)>>
           ss == [i \in DOMAIN DestHandles(m) |-> piece(i)]
<1>1. Typed /\ TableSound  BY DEF IInv
<1>2. FlagOf(m) = 6 /\ Dispatch(fd, FlattenSeq(ss)) /\ UNCHANGED table  BY DEF Multicast
<1>3. c \in Clients /\ phase[c] # "new" /\ m \in Bytes /\ peer[fd] # Nobody
  BY <1>2, MessageServed, NetAssumption
<1>4. PICK line \in Lines[c] : Meaning(m, clientHandle[c], c, line)
  BY <1>2, MessageServed
<1> DEFINE dests == Command[line].dests
<1>5. /\ dests \in Seq(Bytes) /\ DestHandles(m) = dests /\ SrcHandle(m) \in Bytes
  <2>1. SrcHandle(m) = clientHandle[c]  BY <1>4 DEF Meaning
  <2>2. clientHandle[c] \in Bytes  BY <1>1, <1>3 DEF Typed
  <2> QED  BY <1>2, <1>4, <2>1, <2>2 DEF Meaning, CommandType
<1> HIDE DEF dests
<1>6. DOMAIN dests = 1 .. Len(dests) /\ Len(dests) \in Nat  BY <1>5, LenProperties
<1>7. ASSUME NEW i \in 1 .. Len(dests)
      PROVE  piece(i) \in Seq(SendType) /\ Proper(piece(i)) /\ Plain(piece(i))
  <2>1. dests[i] \in ToSet(dests)  BY <1>6 DEF ToSet
  <2>2. DestHandles(m)[i] \in ToSet(Command[line].dests)  BY <1>5, <2>1 DEF dests
  <2> HIDE DEF c
  <2>3. Proper(piece(i)) /\ Plain(piece(i))
    BY <1>1, <1>2, <1>3, <1>4, <1>5, <2>2, NamedProper
  <2> HIDE DEF piece
  <2> QED  BY <2>3 DEF Proper
<1>8. ss \in Seq(Seq(SendType)) /\ \A i \in 1 .. Len(ss) : Proper(ss[i]) /\ Plain(ss[i])
  <2> HIDE DEF piece
  <2> QED  BY <1>5, <1>6, <1>7
<1> HIDE DEF ss
<1>9. Proper(FlattenSeq(ss)) /\ Plain(FlattenSeq(ss))  BY <1>8, FlattenProper
<1> QED  BY <1>2, <1>9, ServePlain

\* The answer to %L: the number of handles, as many handles, and the end.
LEMMA ListShape ==
  ASSUME Typed, TableSound, NEW fd \in Fds
  PROVE  LET r == ListReplies(fd)
             k == Len(table)
         IN  /\ k \in Nat /\ r \in Seq(SendType) /\ Len(r) = k + 2
             /\ FlagOf(r[1].pdu) = 11 /\ At(r[1].pdu, 1) = k
             /\ \A j \in 2 .. k + 1 : FlagOf(r[j].pdu) = 12 \/ Faults(r[j])
             /\ FlagOf(r[k + 2].pdu) = 13
             /\ \A j \in 1 .. k + 2 : r[j].fd = fd
<1> DEFINE k == Len(table)
           a == <<Send(fd, <<11, k>>)>>
           b == [i \in DOMAIN table |-> Send(fd, BuildHandleListReq(GetHandles(table)[i]))]
           z == <<Send(fd, <<13>>)>>
           r == (a \o b) \o z
<1>1. /\ k \in Nat /\ DOMAIN table = 1 .. k
      /\ \A i \in 1 .. k : table[i].handle \in Bytes
  BY EntriesLead
<1>2. \A i \in 1 .. k : GetHandles(table)[i] \in Bytes  BY <1>1 DEF GetHandles
<1>3. /\ a \in Seq(SendType) /\ Len(a) = 1 /\ a[1].fd = fd
      /\ FlagOf(a[1].pdu) = 11 /\ At(a[1].pdu, 1) = k
  <2>1. /\ <<11, k>> \in Bytes /\ FlagOf(<<11, k>>) = 11 /\ At(<<11, k>>, 1) = k
    BY <1>1, RepliesRead
  <2> DEFINE s == Send(fd, <<11, k>>)
  <2>2. s \in SendType /\ s.fd = fd /\ s.pdu = <<11, k>>  BY <2>1 DEF Send, SendType
  <2> HIDE DEF s
  <2>3. <<s>> \in Seq(SendType) /\ Len(<<s>>) = 1 /\ <<s>>[1] = s  BY <2>2
  <2>4. a = <<s>>  BY DEF s
  <2> HIDE DEF a
  <2> QED  BY <2>1, <2>2, <2>3, <2>4
<1>4. /\ z \in Seq(SendType) /\ Len(z) = 1 /\ z[1].fd = fd /\ FlagOf(z[1].pdu) = 13
  <2>1. <<13>> \in Bytes /\ FlagOf(<<13>>) = 13  BY RepliesRead
  <2> DEFINE s == Send(fd, <<13>>)
  <2>2. s \in SendType /\ s.fd = fd /\ s.pdu = <<13>>  BY <2>1 DEF Send, SendType
  <2> HIDE DEF s
  <2>3. <<s>> \in Seq(SendType) /\ Len(<<s>>) = 1 /\ <<s>>[1] = s  BY <2>2
  <2>4. z = <<s>>  BY DEF s
  <2> HIDE DEF z
  <2> QED  BY <2>1, <2>2, <2>3, <2>4
<1>5. /\ b \in Seq(SendType) /\ Len(b) = k
      /\ \A i \in 1 .. k : b[i].fd = fd /\ (FlagOf(b[i].pdu) = 12 \/ Faults(b[i]))
  <2> DEFINE one(i) == Send(fd, BuildHandleListReq(GetHandles(table)[i]))
  <2>1. ASSUME NEW i \in 1 .. k
        PROVE  one(i) \in SendType /\ one(i).fd = fd /\ (FlagOf(one(i).pdu) = 12 \/ Faults(one(i)))
    <3> DEFINE h == GetHandles(table)[i]
    <3>1. h \in Bytes  BY <1>2
    <3> HIDE DEF h
    <3>2. /\ BuildHandleListReq(h) \in Bytes
          /\ BuildHandleListReq(h) = << >> \/ FlagOf(BuildHandleListReq(h)) = 12
      BY <3>1, RepliesRead
    <3>3. Send(fd, BuildHandleListReq(h)) \in SendType
          /\ Send(fd, BuildHandleListReq(h)).fd = fd
          /\ \/ FlagOf(Send(fd, BuildHandleListReq(h)).pdu) = 12
             \/ Faults(Send(fd, BuildHandleListReq(h)))
      BY <3>2 DEF Send, SendType, Faults
    <3> QED  BY <3>3 DEF h
  <2>2. b = [i \in 1 .. k |-> one(i)]  BY <1>1
  <2> HIDE DEF one, b
  <2> QED  BY <1>1, <2>1, <2>2
<1> HIDE DEF a, b, z
<1>6. /\ a \o b \in Seq(SendType) /\ Len(a \o b) = 1 + k
      /\ \A j \in 1 .. 1 + k : (a \o b)[j] = IF j <= 1 THEN a[j] ELSE b[j - 1]
  <2> HIDE DEF k
  <2>1. /\ a \o b \in Seq(SendType) /\ Len(a \o b) = Len(a) + Len(b)
        /\ \A j \in 1 .. Len(a) + Len(b) :
             (a \o b)[j] = IF j <= Len(a) THEN a[j] ELSE b[j - Len(a)]
    BY <1>3, <1>5, ConcatProperties
  <2> QED  BY <1>3, <1>5, <2>1
<1> DEFINE ab == a \o b
<1> HIDE DEF ab, k
<1>7. /\ ab \o z \in Seq(SendType) /\ Len(ab \o z) = (1 + k) + 1
      /\ \A j \in 1 .. (1 + k) + 1 : (ab \o z)[j] = IF j <= 1 + k THEN ab[j] ELSE z[j - (1 + k)]
  <2>1. ab \in Seq(SendType) /\ Len(ab) = 1 + k  BY <1>6 DEF ab
  <2>2. /\ ab \o z \in Seq(SendType) /\ Len(ab \o z) = Len(ab) + Len(z)
        /\ \A j \in 1 .. Len(ab) + Len(z) :
             (ab \o z)[j] = IF j <= Len(ab) THEN ab[j] ELSE z[j - Len(ab)]
    BY <1>4, <2>1, ConcatProperties
  <2> QED  BY <1>4, <2>1, <2>2
<1>8. r = ab \o z  BY DEF ab
<1> HIDE DEF r
<1>9. \A j \in 1 .. 1 + k : ab[j] = IF j <= 1 THEN a[j] ELSE b[j - 1]  BY <1>6 DEF ab
<1>10. r \in Seq(SendType) /\ Len(r) = k + 2  BY <1>1, <1>7, <1>8
<1>11. r[1] = a[1]
  <2>1. 1 \in 1 .. (1 + k) + 1 /\ 1 <= 1 + k /\ 1 \in 1 .. 1 + k  BY <1>1
  <2> QED  BY <1>7, <1>8, <1>9, <2>1
<1>12. ASSUME NEW j \in 2 .. k + 1 PROVE j - 1 \in 1 .. k /\ r[j] = b[j - 1]
  <2>1. /\ j \in 1 .. (1 + k) + 1 /\ j <= 1 + k /\ j \in 1 .. 1 + k /\ ~ (j <= 1)
        /\ j - 1 \in 1 .. k
    BY <1>1
  <2> QED  BY <1>7, <1>8, <1>9, <2>1
<1>13. r[k + 2] = z[1]
  <2>1. k + 2 \in 1 .. (1 + k) + 1 /\ ~ (k + 2 <= 1 + k) /\ (k + 2) - (1 + k) = 1  BY <1>1
  <2> QED  BY <1>7, <1>8, <2>1
<1>14. \A j \in 1 .. k + 2 : r[j].fd = fd
  <2> SUFFICES ASSUME NEW j \in 1 .. k + 2 PROVE r[j].fd = fd
    OBVIOUS
  <2>1. j = 1 \/ j \in 2 .. k + 1 \/ j = k + 2  BY <1>1
  <2> QED  BY <1>3, <1>4, <1>5, <1>11, <1>12, <1>13, <2>1
<1>15. r = ListReplies(fd)  BY DEF r, a, b, z, k, ListReplies
<1>16. \A j \in 2 .. k + 1 : FlagOf(r[j].pdu) = 12 \/ Faults(r[j])  BY <1>5, <1>12
<1> QED  BY <1>1, <1>3, <1>4, <1>10, <1>11, <1>13, <1>14, <1>15, <1>16 DEF k

\* %L: the list reaches the client that asked in one piece, and nobody else.
LEMMA ListStep ==
  ASSUME IInv, NEW fd \in Fds, Polled(fd), toServer[peer[fd]] # << >>,
         NEW m, m = Head(toServer[peer[fd]]), ListHandles(fd, m), UNCHANGED clientVars
  PROVE  IInv'
<1> DEFINE sends == ListReplies(fd)
           k == Len(table)
<1>0. PICK c \in Clients : c = peer[fd]
  <2>1. peer[fd] \in Clients  BY PolledPeer DEF IInv
  <2> QED  BY <2>1
<1>1. Typed /\ TableSound /\ Lists  BY DEF IInv
<1>2. FlagOf(m) = 10 /\ Dispatch(fd, sends) /\ UNCHANGED table  BY DEF ListHandles
<1>3. /\ k \in Nat /\ sends \in Seq(SendType) /\ Len(sends) = k + 2
      /\ FlagOf(sends[1].pdu) = 11 /\ At(sends[1].pdu, 1) = k
      /\ \A j \in 2 .. k + 1 : FlagOf(sends[j].pdu) = 12 \/ Faults(sends[j])
      /\ FlagOf(sends[k + 2].pdu) = 13
      /\ \A j \in 1 .. k + 2 : sends[j].fd = fd
  BY <1>1, ListShape
<1> HIDE DEF sends, k
<1>4. Proper(sends)
  <2> SUFFICES ASSUME NEW i \in 1 .. Len(sends) PROVE Allowed(sends[i])
    BY <1>3 DEF Proper
  <2>1. i = 1 \/ i \in 2 .. k + 1 \/ i = k + 2  BY <1>3
  <2>2. (FlagOf(sends[i].pdu) \in {11, 12, 13} \/ Faults(sends[i])) /\ peer[sends[i].fd] # Nobody
    BY <1>0, <1>3, <2>1, NetAssumption
  <2> QED  BY <2>2 DEF Allowed, ServerFlags, MeantFor
<1>5. /\ SendAll(sends)
      /\ UNCHANGED <<gone, expectingHandleList, remainingHandles>>
  BY <1>2 DEF Dispatch, clientVars, listVars
<1>6. Delivered /\ \A x \in Clients : Grown(toClient[x], toClient'[x], sends, x, peer)
  BY <1>4, <1>5, ProperDelivered
<1>7. Lists'
  <2> SUFFICES ASSUME NEW x \in Clients \ gone
               PROVE  ListsOf(toClient'[x], expectingHandleList[x], remainingHandles[x], serverUp')
    BY <1>5 DEF Lists
  <2> DEFINE q == toClient[x]
             r == toClient'[x]
             e == expectingHandleList[x]
             n == remainingHandles[x]
             w == serverUp'
  <2>1. /\ q \in Seq(Bytes) /\ r \in Seq(Bytes) /\ e \in BOOLEAN /\ n \in Nat /\ w \in BOOLEAN
        /\ ListsOf(q, e, n, TRUE)
    <3>1. ListsOf(q, e, n, serverUp) /\ serverUp = TRUE  BY <1>1 DEF Lists, Typed, Polled
    <3>2. ListsOf(q, e, n, TRUE)  BY <3>1
    <3> QED  BY <1>1, <1>6, <3>2 DEF Typed, Delivered
  <2>2. Grown(q, r, sends, x, peer)  BY <1>6
  <2>3. toClient \in [Clients -> Seq(Bytes)]  BY <1>1 DEF Typed
  <2>4. Len(q) \in Nat  BY <2>1, LenProperties
  <2>5. CASE x = c
    <3>1. x # Nobody /\ peer[fd] = x  BY <1>0, <2>5, NetAssumption
    <3>2. \A i \in 1 .. Len(sends) : sends[i].fd = fd  BY <1>3
    <3>10. sends \in Seq(SendType) /\ SendAll(sends)  BY <1>3, <1>5
    <3>11. PICK y \in 0 .. Len(sends) :
            /\ toClient'[x] \in Seq(Bytes)
            /\ Len(toClient'[x]) = Len(toClient[x]) + y
            /\ \A j \in 1 .. Len(toClient[x]) : toClient'[x][j] = toClient[x][j]
            /\ \A j \in 1 .. y : /\ toClient'[x][Len(toClient[x]) + j] = sends[j].pdu
                                 /\ ~Faults(sends[j])
            /\ serverUp' => y = Len(sends)
            /\ (\A i \in 1 .. Len(sends) : ~Faults(sends[i])) => y = Len(sends)
      <4> HIDE DEF q, r, e, n, w
      <4> QED  BY <2>3, <3>1, <3>2, <3>10, AnswerArrives
    <3>3. /\ y \in 0 .. Len(sends) /\ Len(r) = Len(q) + y
          /\ \A j \in 1 .. Len(q) : r[j] = q[j]
          /\ \A j \in 1 .. y : r[Len(q) + j] = sends[j].pdu /\ ~Faults(sends[j])
          /\ w => y = Len(sends)
      BY <3>11
    <3> HIDE DEF q, r, e, n, w
    <3>4. y \in 0 .. k + 2 /\ (w => y = k + 2)  BY <1>3, <3>3
    <3>5. y >= 1 => FlagOf(r[Len(q) + 1]) = 11 /\ At(r[Len(q) + 1], 1) = k
      <4> SUFFICES ASSUME y >= 1 PROVE FlagOf(r[Len(q) + 1]) = 11 /\ At(r[Len(q) + 1], 1) = k
        OBVIOUS
      <4>1. 1 \in 1 .. y  BY <3>4
      <4>2. r[Len(q) + 1] = sends[1].pdu  BY <3>3, <4>1
      <4> QED  BY <1>3, <4>2
    <3>7. ASSUME NEW j \in 2 .. k + 1, j <= y PROVE FlagOf(r[Len(q) + j]) = 12
      <4>1. j \in 1 .. y  BY <3>4, <3>7
      <4>2. r[Len(q) + j] = sends[j].pdu /\ ~Faults(sends[j])  BY <3>3, <4>1
      <4> QED  BY <1>3, <4>2
    <3>8. y = k + 2 => FlagOf(r[Len(q) + (k + 2)]) = 13
      <4> SUFFICES ASSUME y = k + 2 PROVE FlagOf(r[Len(q) + (k + 2)]) = 13
        OBVIOUS
      <4>1. k + 2 \in 1 .. y  BY <1>3
      <4>2. r[Len(q) + (k + 2)] = sends[k + 2].pdu  BY <3>3, <4>1
      <4> QED  BY <1>3, <4>2
    <3>9. Follows(q, r, k, y, w)  BY <3>3, <3>4, <3>5, <3>7, <3>8 DEF Follows
    <3>6. ListsOf(r, e, n, w)  BY <1>3, <2>1, <3>9, ListFollows
    <3> QED  BY <3>6 DEF r, e, n, w
  <2>6. CASE x # c
    <3> HIDE DEF q, r, e, n, w
    <3>1. /\ Len(q) <= Len(r) /\ \A j \in 1 .. Len(q) : r[j] = q[j]
          /\ \A j \in Len(q) + 1 .. Len(r) :
               \E i \in 1 .. Len(sends) : peer[sends[i].fd] = x /\ r[j] = sends[i].pdu
      BY <2>2 DEF Grown
    <3>2. \A i \in 1 .. Len(sends) : peer[sends[i].fd] = c  BY <1>0, <1>3
    <3>3. \A j \in Len(q) + 1 .. Len(r) : FALSE  BY <2>6, <3>1, <3>2
    <3>5. \A j \in Len(q) + 1 .. Len(r) : FlagOf(r[j]) \notin {11, 12, 13}  BY <3>3
    <3>6. Len(q) <= Len(r) /\ \A j \in 1 .. Len(q) : r[j] = q[j]  BY <3>1
    <3>4. ListsOf(r, e, n, w)  BY <2>1, <3>5, <3>6, ListsGrow
    <3> QED  BY <3>4 DEF r, e, n, w
  <2> QED  BY <2>5, <2>6
<1> QED  BY <1>2, <1>4, <1>7, ServeStep

\* One turn of the server's loop.
LEMMA ServerStep ==
  ASSUME IInv, Server
  PROVE  IInv'
<1>1. UNCHANGED clientVars /\ ServerTurn  BY DEF Server
<1>2. CASE AddNewSocket  BY <1>1, <1>2, AcceptStep
<1>3. ASSUME NEW fd \in Fds, Disconnected(fd) PROVE IInv'  BY <1>1, <1>3, DisconnectStep
<1>4. ASSUME NEW fd \in Fds, ProcessClient(fd) PROVE IInv'
  <2>1. Polled(fd) /\ toServer[peer[fd]] # << >>  BY <1>4 DEF ProcessClient
  <2>2. PICK m \in {Head(toServer[peer[fd]])} :
          \/ Register(fd, m) \/ Refuse(fd, m)
          \/ Broadcast(fd, m) \/ Message(fd, m) \/ Multicast(fd, m)
          \/ ListHandles(fd, m)
    BY <1>4 DEF ProcessClient
  <2>3. m = Head(toServer[peer[fd]])  OBVIOUS
  <2>4. CASE Register(fd, m)  BY <1>1, <2>1, <2>3, <2>4, RegisterStep
  <2>5. CASE Refuse(fd, m)  BY <1>1, <2>1, <2>5, RefuseStep
  <2>6. CASE Broadcast(fd, m)  BY <1>1, <2>1, <2>3, <2>6, BroadcastStep
  <2>7. CASE Message(fd, m)  BY <1>1, <2>1, <2>3, <2>7, MessageStep
  <2>8. CASE Multicast(fd, m)  BY <1>1, <2>1, <2>3, <2>8, MulticastStep
  <2>9. CASE ListHandles(fd, m)  BY <1>1, <2>1, <2>3, <2>9, ListStep
  <2> QED  BY <2>2, <2>4, <2>5, <2>6, <2>7, <2>8, <2>9
<1>5. ASSUME NEW fd \in Fds, ReceiveError(fd) PROVE IInv'  BY <1>1, <1>5, ReceiveErrorStep
<1> QED  BY <1>1, <1>2, <1>3, <1>4, <1>5 DEF ServerTurn

\* The server's standard input hangs up: the lists on their way are not whole any more.
LEMMA HangUpStep ==
  ASSUME IInv, HangUp
  PROVE  IInv'
<1>1. /\ Typed /\ Connections /\ TableSound /\ Queues
      /\ Sized /\ Told /\ Answers /\ Lists /\ Meant
  BY DEF IInv
<1>2. /\ serverUp = TRUE /\ serverUp' = FALSE
      /\ UNCHANGED <<backlog, peer, toServer, toClient, gone, reset, table, pollSet>>
      /\ UNCHANGED <<phase, clientHandle, expectingHandleList, remainingHandles, refused, oversize, typed>>
  BY <1>1 DEF HangUp, StdinHangsUp, Typed, serverVars, clientVars, listVars, historyVars
<1>3. Typed'  BY <1>1, <1>2 DEF Typed
<1>4. \A x \in Clients : (Connected(x)' <=> Connected(x)) /\ (Registered(x)' <=> Registered(x))
  BY <1>2 DEF Connected, Registered
<1>5. Connections'  BY <1>1, <1>2, <1>4 DEF Connections
<1>6. TableSound'  BY <1>1, <1>2 DEF TableSound
<1>7. Queues'
  <2> SUFFICES ASSUME NEW x \in Clients
               PROVE  /\ QueueOf(toServer[x], clientHandle[x], x, Registered(x)')
                      /\ phase[x] = "running" /\ Connected(x)' /\ ~Registered(x)' => toServer[x] # << >>
    BY <1>2 DEF Queues
  <2>1. QueueOf(toServer[x], clientHandle[x], x, Registered(x))  BY <1>1 DEF Queues
  <2>2. QueueOf(toServer[x], clientHandle[x], x, Registered(x)')  BY <1>4, <2>1 DEF QueueOf
  <2> QED  BY <1>1, <1>4, <2>2 DEF Queues
<1>8. Sized' /\ Answers'  BY <1>1, <1>2 DEF Sized, Answers
<1>9. Told'  BY <1>2 DEF Told
<1>10. Lists'
  <2> SUFFICES ASSUME NEW x \in Clients \ gone
               PROVE  ListsOf(toClient[x], expectingHandleList[x], remainingHandles[x], FALSE)
    BY <1>2 DEF Lists
  <2>1. ListsOf(toClient[x], expectingHandleList[x], remainingHandles[x], TRUE)
    BY <1>1, <1>2 DEF Lists
  <2>2. \A q, i, n : Listing(q, i, n, TRUE) => Listing(q, i, n, FALSE)  BY DEF Listing
  <2> QED  BY <2>1, <2>2 DEF ListsOf
<1>11. Meant'
  <2>1. Started' = Started  BY <1>2, ServerKeepsMeaning
  <2> QED  BY <1>1, <1>2, <2>1 DEF Meant
<1> QED  BY <1>3, <1>5, <1>6, <1>7, <1>8, <1>9, <1>10, <1>11 DEF IInv

-----------------------------------------------------------------------------
(***************************************************************************)
(* The steps of the clients and their users                                *)
(***************************************************************************)

\* What was meant for a client stays so when others are started or end.
LEMMA MeaningKept ==
  ASSUME NEW m, NEW c, NEW names, NEW started, NEW more,
         MeantFor(m, c, names, started), started \subseteq more
  PROVE  MeantFor(m, c, names, more)
BY DEF MeantFor

\* A client ends: what was on its way to it is lost, nobody else is concerned.
LEMMA StopStep ==
  ASSUME IInv, NEW c \in Clients, Stop(c), UNCHANGED serverVars
  PROVE  IInv'
<1>1. /\ Typed /\ Connections /\ TableSound /\ Queues
      /\ Sized /\ Told /\ Answers /\ Lists /\ Meant
  BY DEF IInv
<1>2. /\ gone' = gone \cup {c}
      /\ reset' = IF toClient[c] # <<>> THEN reset \cup {c} ELSE reset
      /\ toClient' = [toClient EXCEPT ![c] = <<>>]
      /\ phase' = [phase EXCEPT ![c] = "exited"]
      /\ UNCHANGED <<serverUp, backlog, peer, toServer, clientHandle,
                     expectingHandleList, remainingHandles, refused, oversize, typed>>
      /\ UNCHANGED <<table, pollSet>>
  BY DEF Stop, Exit, listVars, historyVars, serverVars
<1>3. /\ toClient' \in [Clients -> Seq(Bytes)] /\ toClient'[c] = << >>
      /\ \A x \in Clients : x # c => toClient'[x] = toClient[x]
  <2>1. << >> \in Seq(Bytes)  BY EmptySeq
  <2> QED  BY <1>1, <1>2, <2>1 DEF Typed
<1>4. /\ phase' \in [Clients -> {"new", "running", "exited"}] /\ phase'[c] = "exited"
      /\ \A x \in Clients : x # c => phase'[x] = phase[x]
  BY <1>1, <1>2 DEF Typed
<1>5. Typed'
  <2>1. reset' \subseteq gone'  BY <1>1, <1>2 DEF Typed
  <2>2. gone' = {x \in Clients : phase'[x] = "exited"}  BY <1>1, <1>2, <1>4 DEF Typed
  <2> QED  BY <1>1, <1>2, <1>3, <1>4, <2>1, <2>2 DEF Typed
<1>6. /\ \A x \in Clients : Connected(x)' <=> Connected(x)
      /\ \A x \in Clients : Registered(x)' <=> Registered(x)
  BY <1>2 DEF Connected, Registered
<1>7. Connections'
  <2>1. \A x \in Clients :
          phase'[x] = "new" => ~Connected(x)' /\ toServer'[x] = << >> /\ toClient'[x] = << >>
    BY <1>1, <1>2, <1>3, <1>4, <1>6 DEF Connections
  <2>2. \A x \in gone' : toClient'[x] = << >>
    <3>1. gone \subseteq Clients  BY <1>1 DEF Typed
    <3> QED  BY <1>1, <1>2, <1>3, <3>1 DEF Connections
  <2> QED  BY <1>1, <1>2, <2>1, <2>2 DEF Connections
<1>8. TableSound'  BY <1>1, <1>2 DEF TableSound
<1>9. Queues'
  <2> SUFFICES ASSUME NEW x \in Clients
               PROVE  /\ QueueOf(toServer[x], clientHandle[x], x, Registered(x)')
                      /\ phase'[x] = "running" /\ Connected(x)' /\ ~Registered(x)' => toServer[x] # << >>
    BY <1>2 DEF Queues
  <2>1. QueueOf(toServer[x], clientHandle[x], x, Registered(x))  BY <1>1 DEF Queues
  <2>2. QueueOf(toServer[x], clientHandle[x], x, Registered(x)')  BY <1>6, <2>1 DEF QueueOf
  <2>3. phase'[x] = "running" => phase[x] = "running"  BY <1>4
  <2> QED  BY <1>1, <1>6, <2>2, <2>3 DEF Queues
<1>10. Told'  BY <1>1, <1>2, <1>3, <1>4, <1>6 DEF Told
<1>11. ASSUME NEW x \in Clients, NEW i \in 1 .. Len(toClient'[x])
       PROVE  x # c /\ i \in 1 .. Len(toClient[x]) /\ toClient'[x][i] = toClient[x][i]
  <2>1. Len(toClient'[c]) = 0  BY <1>3, EmptySeq
  <2>2. x # c
    <3>1. 1 .. 0 = {}  OBVIOUS
    <3> QED  BY <1>11, <2>1, <3>1
  <2> QED  BY <1>3, <2>2
<1>12. Answers'  BY <1>1, <1>11 DEF Answers
<1>13. Lists'  BY <1>1, <1>2, <1>3 DEF Lists
<1>14. Meant'
  <2>1. Started \subseteq Started'  BY <1>4 DEF Started
  <2>2. ASSUME NEW x \in Clients, NEW i \in 1 .. Len(toClient'[x])
        PROVE  MeantFor(toClient'[x][i], x, clientHandle, Started')
    <3>1. i \in 1 .. Len(toClient[x]) /\ toClient'[x][i] = toClient[x][i]  BY <1>11
    <3>2. MeantFor(toClient[x][i], x, clientHandle, Started)  BY <1>1, <3>1 DEF Meant
    <3>3. MeantFor(toClient[x][i], x, clientHandle, Started')  BY <2>1, <3>2, MeaningKept
    <3> QED  BY <3>1, <3>3
  <2> QED  BY <1>2, <2>2 DEF Meant
<1>15. Sized'  BY <1>1, <1>2 DEF Sized
<1> QED  BY <1>5, <1>7, <1>8, <1>9, <1>10, <1>12, <1>13, <1>14, <1>15 DEF IInv

\* A client that is started waits to be accepted; it had no connection and no
\* entry in the table.
LEMMA SetupQueues ==
  ASSUME IInv, NEW c \in Clients, phase[c] = "new", TcpClientSetup(c), UNCHANGED peer
  PROVE  /\ backlog' \in Seq(Clients) /\ Connected(c)' /\ ~Registered(c)
         /\ \A x \in Clients : x # c => (Connected(x)' <=> Connected(x))
         /\ \A i, j \in 1 .. Len(backlog') : backlog'[i] = backlog'[j] => i = j
         /\ \A fd \in Fds : peer[fd] # c
         /\ \A fd \in Fds : \A i \in 1 .. Len(backlog') : peer[fd] # backlog'[i]
         /\ toServer[c] = << >> /\ toClient[c] = << >>
<1> DEFINE l == Len(backlog)
<1>1. Typed /\ Connections /\ TableSound  BY DEF IInv
<1>2. backlog \in Seq(Clients) /\ backlog' = Append(backlog, c)
  BY <1>1 DEF Typed, TcpClientSetup
<1>3. /\ backlog' \in Seq(Clients) /\ Len(backlog') = l + 1 /\ backlog'[l + 1] = c
      /\ \A i \in 1 .. l : backlog'[i] = backlog[i]
  BY <1>2, AppendProperties
<1>4. l \in Nat /\ DOMAIN backlog = 1 .. l /\ DOMAIN backlog' = 1 .. l + 1
  <2>1. l \in Nat /\ DOMAIN backlog = 1 .. l  BY <1>2, LenProperties
  <2>2. DOMAIN backlog' = 1 .. Len(backlog')  BY <1>3, LenProperties
  <2> QED  BY <1>3, <2>1, <2>2
<1>5. ~Connected(c) /\ toServer[c] = << >> /\ toClient[c] = << >>  BY <1>1 DEF Connections
<1>6. (\A i \in 1 .. l : backlog[i] # c) /\ \A fd \in Fds : peer[fd] # c
  BY <1>4, <1>5 DEF Connected, ToSet
<1>7. ~Registered(c)
  <2>1. \A i \in 1 .. Len(table) : table[i].socket \in Fds  BY <1>1, EntriesLead
  <2> QED  BY <1>6, <2>1 DEF Registered
<1> HIDE DEF l
<1>8. \A i \in 1 .. l + 1 : i # l + 1 => i \in 1 .. l  BY <1>4
<1>9. Connected(c)'
  <2>1. l + 1 \in 1 .. l + 1  BY <1>4
  <2> QED  BY <1>3, <1>4, <2>1 DEF Connected, ToSet
<1>10. ASSUME NEW x \in Clients, x # c PROVE Connected(x)' <=> Connected(x)
  <2>1. x \in ToSet(backlog') <=> x \in ToSet(backlog)
    <3>1. ASSUME NEW i \in 1 .. l + 1, backlog'[i] = x PROVE x \in ToSet(backlog)
      <4>1. i \in 1 .. l  BY <1>3, <1>8, <1>10, <3>1
      <4> QED  BY <1>3, <1>4, <3>1, <4>1 DEF ToSet
    <3>2. ASSUME NEW i \in 1 .. l, backlog[i] = x PROVE x \in ToSet(backlog')
      <4>1. i \in 1 .. l + 1  BY <1>4
      <4> QED  BY <1>3, <1>4, <3>2, <4>1 DEF ToSet
    <3> QED  BY <1>4, <3>1, <3>2 DEF ToSet
  <2> QED  BY <2>1 DEF Connected
<1>11. ASSUME NEW i \in 1 .. l + 1, NEW j \in 1 .. l + 1, backlog'[i] = backlog'[j]
       PROVE  i = j
  <2>1. CASE i = l + 1  BY <1>3, <1>6, <1>8, <1>11, <2>1
  <2>2. CASE j = l + 1  BY <1>3, <1>6, <1>8, <1>11, <2>2
  <2>3. CASE i # l + 1 /\ j # l + 1
    <3>1. i \in 1 .. l /\ j \in 1 .. l /\ backlog[i] = backlog[j]  BY <1>3, <1>8, <1>11, <2>3
    <3> QED  BY <1>1, <3>1 DEF Connections, l
  <2> QED  BY <2>1, <2>2, <2>3
<1>12. ASSUME NEW fd \in Fds, NEW i \in 1 .. l + 1 PROVE peer[fd] # backlog'[i]
  <2>1. CASE i = l + 1  BY <1>3, <1>6, <2>1
  <2>2. CASE i # l + 1
    <3>1. i \in 1 .. l /\ backlog'[i] = backlog[i]  BY <1>3, <1>8, <2>2
    <3> QED  BY <1>1, <3>1 DEF Connections, l
  <2> QED  BY <2>1, <2>2
<1>13. Len(backlog') = l + 1  BY <1>3
<1> QED  BY <1>3, <1>5, <1>6, <1>7, <1>9, <1>10, <1>11, <1>12, <1>13

\* A client is started and sends its handle.
LEMMA StartStep ==
  ASSUME IInv, NEW c \in Clients, Start(c), UNCHANGED serverVars
  PROVE  IInv'
<1>1. /\ Typed /\ Connections /\ TableSound /\ Queues
      /\ Sized /\ Told /\ Answers /\ Lists /\ Meant
  BY DEF IInv
<1>2. PICK handle \in Names[c] :
        /\ Len(handle) <= MAX_HANDLE_LENGTH
        /\ clientHandle' = [clientHandle EXCEPT ![c] = handle]
        /\ toServer' = [toServer EXCEPT ![c] = <<(<<1>> \o HandleField(handle))>>]
  BY DEF Start
<1>3. /\ phase[c] = "new" /\ TcpClientSetup(c)
      /\ phase' = [phase EXCEPT ![c] = "running"]
      /\ UNCHANGED <<serverUp, peer, toClient, gone, reset,
                     expectingHandleList, remainingHandles, refused, oversize, typed>>
      /\ UNCHANGED <<table, pollSet>>
  BY DEF Start, listVars, historyVars, serverVars
<1>4. /\ backlog' \in Seq(Clients) /\ Connected(c)' /\ ~Registered(c)
      /\ \A x \in Clients : x # c => (Connected(x)' <=> Connected(x))
      /\ \A i, j \in 1 .. Len(backlog') : backlog'[i] = backlog'[j] => i = j
      /\ \A fd \in Fds : peer[fd] # c
      /\ \A fd \in Fds : \A i \in 1 .. Len(backlog') : peer[fd] # backlog'[i]
      /\ toServer[c] = << >> /\ toClient[c] = << >>
  BY <1>3, SetupQueues
<1>5. handle \in Bytes  BY UsersAssumption DEF Bytes
<1> DEFINE reg == <<1>> \o HandleField(handle)
<1>6. reg \in Bytes /\ Len(reg) = Len(handle) + 2  BY <1>5, RegistrationRead
<1>7. toServer' = [toServer EXCEPT ![c] = <<reg>>]  BY <1>2
<1>8. /\ toServer' \in [Clients -> Seq(Bytes)] /\ toServer'[c] = <<reg>>
      /\ \A x \in Clients : x # c => toServer'[x] = toServer[x]
      /\ Len(<<reg>>) = 1 /\ <<reg>>[1] = reg /\ <<reg>> # << >>
  <2> HIDE DEF reg
  <2>1. <<reg>> \in Seq(Bytes)  BY <1>6
  <2> QED  BY <1>1, <1>7, <2>1 DEF Typed
<1>9. /\ clientHandle' \in [Clients -> Bytes] /\ clientHandle'[c] = handle
      /\ \A x \in Clients : x # c => clientHandle'[x] = clientHandle[x]
      /\ phase' \in [Clients -> {"new", "running", "exited"}] /\ phase'[c] = "running"
      /\ \A x \in Clients : x # c => phase'[x] = phase[x]
  BY <1>1, <1>2, <1>3, <1>5 DEF Typed
<1>10. Typed'
  <2>1. gone' = {x \in Clients : phase'[x] = "exited"}  BY <1>1, <1>3, <1>9 DEF Typed
  <2>2. \A x \in Clients : Len(clientHandle'[x]) <= MAX_HANDLE_LENGTH
    BY <1>1, <1>2, <1>9 DEF Typed
  <2> QED  BY <1>1, <1>3, <1>4, <1>8, <1>9, <2>1, <2>2 DEF Typed
<1>11. \A x \in Clients : Registered(x)' <=> Registered(x)  BY <1>3 DEF Registered
<1>12. Connections'
  <2>1. \A x \in Clients :
          phase'[x] = "new" => ~Connected(x)' /\ toServer'[x] = << >> /\ toClient'[x] = << >>
    BY <1>1, <1>3, <1>4, <1>8, <1>9, Zenon DEF Connections
  <2> QED  BY <1>1, <1>3, <1>4, <2>1 DEF Connections
<1>13. TableSound'
  <2>1. ASSUME NEW e \in ToSet(table)
        PROVE  clientHandle'[peer[e.socket]] = clientHandle[peer[e.socket]]
    <3>1. PICK i \in 1 .. Len(table) : e = table[i]  BY <1>1, EntriesLead DEF ToSet
    <3>2. peer[e.socket] \in Clients /\ e.socket \in Fds  BY <1>1, <3>1, EntriesLead
    <3> QED  BY <1>4, <1>9, <3>2
  <2> QED  BY <1>1, <1>3, <2>1 DEF TableSound
<1>14. Queues'
  <2> SUFFICES ASSUME NEW x \in Clients
               PROVE  /\ QueueOf(toServer'[x], clientHandle'[x], x, Registered(x)')
                      /\ phase'[x] = "running" /\ Connected(x)' /\ ~Registered(x)' => toServer'[x] # << >>
    BY DEF Queues
  <2>1. CASE x = c
    <3>1. ~Registered(c)'  BY <1>4, <1>11
    <3>2. QueueOf(<<reg>>, handle, c, Registered(c)')
      <4> DEFINE q == <<reg>>
      <4>1. \A i \in 1 .. Len(q) : i = 1 /\ q[i] = reg  BY <1>8
      <4> HIDE DEF q
      <4>2. QueueOf(q, handle, c, Registered(c)')  BY <3>1, <4>1 DEF QueueOf
      <4> QED  BY <4>2 DEF q
    <3> HIDE DEF reg
    <3> QED  BY <1>8, <1>9, <2>1, <3>2
  <2>2. CASE x # c
    <3>1. QueueOf(toServer[x], clientHandle[x], x, Registered(x))  BY <1>1 DEF Queues
    <3>2. QueueOf(toServer'[x], clientHandle'[x], x, Registered(x)')
      BY <1>8, <1>9, <1>11, <2>2, <3>1 DEF QueueOf
    <3> QED  BY <1>1, <1>4, <1>8, <1>9, <1>11, <2>2, <3>2 DEF Queues
  <2> QED  BY <2>1, <2>2
<1>15. Told'  BY <1>1, <1>3, <1>4, <1>9 DEF Told
<1>16. Answers' /\ Lists'  BY <1>1, <1>3 DEF Answers, Lists
<1>17. Meant'
  <2>1. c \notin Started  BY <1>3 DEF Started
  <2>2. Started \subseteq Started'  BY <1>9, <2>1 DEF Started
  <2>3. ASSUME NEW x \in Clients, NEW i \in 1 .. Len(toClient[x])
        PROVE  MeantFor(toClient[x][i], x, clientHandle', Started')
    <3>1. x # c
      <4>1. Len(toClient[c]) = 0 /\ 1 .. 0 = {}  BY <1>4, EmptySeq
      <4> QED  BY <2>3, <4>1
    <3>2. MeantFor(toClient[x][i], x, clientHandle, Started)  BY <1>1 DEF Meant
    <3>3. \A y \in Started : clientHandle'[y] = clientHandle[y]  BY <1>9, <2>1 DEF Started
    <3>4. MeantFor(toClient[x][i], x, clientHandle', Started)
      BY <1>9, <3>1, <3>2, <3>3 DEF MeantFor
    <3> QED  BY <2>2, <3>4, MeaningKept
  <2> QED  BY <1>3, <2>3 DEF Meant
<1>18. Sized'
  <2> SUFFICES ASSUME NEW x \in Clients, NEW i \in 1 .. Len(toServer'[x]),
                      Len(toServer'[x][i]) > MAXBUF
               PROVE  x \in oversize
    BY <1>3 DEF Sized
  <2>1. CASE x = c
    <3>1. toServer'[x][i] = reg
      <4> HIDE DEF reg
      <4> QED  BY <1>8, <2>1
    <3>2. Len(reg) <= MAXBUF
      <4>1. Len(handle) \in Nat /\ MAX_HANDLE_LENGTH \in Nat  BY <1>5, LengthAssumption, ByteLengths
      <4> HIDE DEF reg
      <4> QED  BY <1>2, <1>6, <4>1, LengthAssumption
    <3>3. Len(reg) \in Nat /\ MAXBUF \in Nat  BY <1>6, LengthAssumption, ByteLengths
    <3> HIDE DEF reg
    <3> QED  BY <3>1, <3>2, <3>3
  <2>2. CASE x # c  BY <1>1, <1>8, <2>2 DEF Sized
  <2> QED  BY <2>1, <2>2
<1> QED  BY <1>10, <1>12, <1>13, <1>14, <1>15, <1>16, <1>17, <1>18 DEF IInv

\* A client whose handle is too long connects and ends without a word.
LEMMA TooLongStep ==
  ASSUME IInv, NEW c \in Clients, HandleTooLong(c), UNCHANGED serverVars
  PROVE  IInv'
<1>1. /\ Typed /\ Connections /\ TableSound /\ Queues
      /\ Sized /\ Told /\ Answers /\ Lists /\ Meant
  BY DEF IInv
<1>2. /\ phase[c] = "new" /\ TcpClientSetup(c)
      /\ gone' = gone \cup {c}
      /\ reset' = IF toClient[c] # <<>> THEN reset \cup {c} ELSE reset
      /\ toClient' = [toClient EXCEPT ![c] = <<>>]
      /\ phase' = [phase EXCEPT ![c] = "exited"]
      /\ UNCHANGED <<serverUp, peer, toServer, clientHandle,
                     expectingHandleList, remainingHandles, refused, oversize, typed>>
      /\ UNCHANGED <<table, pollSet>>
  BY DEF HandleTooLong, Exit, listVars, historyVars, serverVars
<1>3. /\ backlog' \in Seq(Clients) /\ Connected(c)' /\ ~Registered(c)
      /\ \A x \in Clients : x # c => (Connected(x)' <=> Connected(x))
      /\ \A i, j \in 1 .. Len(backlog') : backlog'[i] = backlog'[j] => i = j
      /\ \A fd \in Fds : peer[fd] # c
      /\ \A fd \in Fds : \A i \in 1 .. Len(backlog') : peer[fd] # backlog'[i]
      /\ toServer[c] = << >> /\ toClient[c] = << >>
  BY <1>2, SetupQueues
<1>4. toClient' = toClient /\ reset' = reset  BY <1>1, <1>2, <1>3 DEF Typed
<1>5. /\ phase' \in [Clients -> {"new", "running", "exited"}] /\ phase'[c] = "exited"
      /\ \A x \in Clients : x # c => phase'[x] = phase[x]
  BY <1>1, <1>2 DEF Typed
<1>6. Typed'
  <2>1. gone' = {x \in Clients : phase'[x] = "exited"}  BY <1>1, <1>2, <1>5 DEF Typed
  <2>2. reset' \subseteq gone'  BY <1>1, <1>2, <1>4 DEF Typed
  <2> QED  BY <1>1, <1>2, <1>3, <1>4, <1>5, <2>1, <2>2 DEF Typed
<1>7. \A x \in Clients : Registered(x)' <=> Registered(x)  BY <1>2 DEF Registered
<1>8. Connections'
  <2>1. \A x \in Clients :
          phase'[x] = "new" => ~Connected(x)' /\ toServer'[x] = << >> /\ toClient'[x] = << >>
    BY <1>1, <1>2, <1>3, <1>4, <1>5 DEF Connections
  <2>2. \A x \in gone' : toClient'[x] = << >>  BY <1>1, <1>2, <1>3, <1>4 DEF Connections
  <2> QED  BY <1>1, <1>2, <1>3, <2>1, <2>2 DEF Connections
<1>9. TableSound'  BY <1>1, <1>2 DEF TableSound
<1>10. Queues'
  <2> SUFFICES ASSUME NEW x \in Clients
               PROVE  /\ QueueOf(toServer[x], clientHandle[x], x, Registered(x)')
                      /\ phase'[x] = "running" /\ Connected(x)' /\ ~Registered(x)' => toServer[x] # << >>
    BY <1>2 DEF Queues
  <2>1. QueueOf(toServer[x], clientHandle[x], x, Registered(x))  BY <1>1 DEF Queues
  <2>2. QueueOf(toServer[x], clientHandle[x], x, Registered(x)')  BY <1>7, <2>1 DEF QueueOf
  <2>3. phase'[x] = "running" => phase[x] = "running" /\ x # c  BY <1>5
  <2> QED  BY <1>1, <1>3, <1>7, <2>2, <2>3 DEF Queues
<1>11. Told'  BY <1>1, <1>2, <1>3, <1>4, <1>5 DEF Told
<1>12. Answers' /\ Lists'  BY <1>1, <1>2, <1>4 DEF Answers, Lists
<1>13. Meant'
  <2>1. Started \subseteq Started'  BY <1>5 DEF Started
  <2>2. ASSUME NEW x \in Clients, NEW i \in 1 .. Len(toClient[x])
        PROVE  MeantFor(toClient[x][i], x, clientHandle, Started')
    <3>1. MeantFor(toClient[x][i], x, clientHandle, Started)  BY <1>1 DEF Meant
    <3> QED  BY <2>1, <3>1, MeaningKept
  <2> QED  BY <1>2, <1>4, <2>2 DEF Meant
<1>14. Sized'  BY <1>1, <1>2 DEF Sized
<1> QED  BY <1>6, <1>8, <1>9, <1>10, <1>11, <1>12, <1>13, <1>14 DEF IInv

\* A line is typed: its packet goes behind what was sent before.
LEMMA StdinStep ==
  ASSUME IInv, NEW c \in Clients, ProcessStdin(c), UNCHANGED serverVars
  PROVE  IInv'
<1>1. /\ Typed /\ Connections /\ TableSound /\ Queues
      /\ Sized /\ Told /\ Answers /\ Lists /\ Meant
  BY DEF IInv
<1>2. PICK line \in Lines[c] :
        /\ Command[line] # Invalid
        /\ PacketOf(c, Command[line]) # << >>
        /\ toServer' = IF serverUp /\ Connected(c)
                       THEN [toServer EXCEPT ![c] = Append(toServer[c], PacketOf(c, Command[line]))]
                       ELSE toServer
        /\ oversize' = IF Len(PacketOf(c, Command[line])) > MAXBUF THEN oversize \cup {c}
                       ELSE oversize
  BY DEF ProcessStdin, NoPacket
<1>3. /\ phase[c] = "running" /\ typed < MaxCommands /\ typed' = typed + 1
      /\ UNCHANGED <<serverUp, backlog, peer, toClient, gone, reset, phase, clientHandle,
                     expectingHandleList, remainingHandles, refused>>
      /\ UNCHANGED <<table, pollSet>>
  BY DEF ProcessStdin, listVars, serverVars
<1> DEFINE p == PacketOf(c, Command[line])
           q == toServer[c]
           h == clientHandle[c]
<1>4. Spoken(h, c, p)  BY <1>2, PacketSpoken
<1>5. h \in Bytes /\ q \in Seq(Bytes)  BY <1>1 DEF Typed
<1> HIDE DEF p
<1>6. p \in Bytes
  <2> HIDE DEF h
  <2> QED  BY <1>4, <1>5, SpokenRead
<1>7. /\ Append(q, p) \in Seq(Bytes) /\ Len(Append(q, p)) = Len(q) + 1 /\ Len(q) \in Nat
      /\ Append(q, p)[Len(q) + 1] = p /\ \A i \in 1 .. Len(q) : Append(q, p)[i] = q[i]
  <2> HIDE DEF q
  <2> QED  BY <1>5, <1>6, AppendProperties, LenProperties
<1>8. \/ toServer' = toServer
      \/ Connected(c) /\ toServer' = [toServer EXCEPT ![c] = Append(q, p)]
  BY <1>2 DEF p
<1>9. /\ toServer' \in [Clients -> Seq(Bytes)]
      /\ \A x \in Clients : x # c => toServer'[x] = toServer[x]
      /\ \/ toServer'[c] = q
         \/ Connected(c) /\ toServer'[c] = Append(q, p)
  BY <1>1, <1>7, <1>8 DEF Typed
<1>10. /\ \A x \in Clients : Connected(x)' <=> Connected(x)
       /\ \A x \in Clients : Registered(x)' <=> Registered(x)
  BY <1>3 DEF Connected, Registered
<1>11. Typed'
  <2>1. typed' \in 0 .. MaxCommands
    <3>1. typed \in 0 .. MaxCommands /\ MaxCommands \in Nat  BY <1>1, UsersAssumption DEF Typed
    <3> QED  BY <1>3, <3>1
  <2>2. oversize' \subseteq Clients  BY <1>1, <1>2 DEF Typed
  <2> QED  BY <1>1, <1>3, <1>9, <2>1, <2>2 DEF Typed
<1>12. Connections'
  <2>1. \A x \in Clients :
          phase'[x] = "new" => ~Connected(x)' /\ toServer'[x] = << >> /\ toClient'[x] = << >>
    BY <1>1, <1>3, <1>9, <1>10 DEF Connections
  <2> QED  BY <1>1, <1>3, <2>1 DEF Connections
<1>13. QueueOf(q, h, c, Registered(c)) /\ (Connected(c) /\ ~Registered(c) => q # << >>)
  BY <1>1, <1>3 DEF Queues
<1>14. Connected(c) => QueueOf(Append(q, p), h, c, Registered(c))
  <2> SUFFICES ASSUME Connected(c), NEW i \in 1 .. Len(q) + 1
               PROVE  \/ i = 1 /\ ~Registered(c) /\ Append(q, p)[i] = <<1>> \o HandleField(h)
                      \/ (i > 1 \/ Registered(c)) /\ Spoken(h, c, Append(q, p)[i])
    BY <1>7 DEF QueueOf
  <2> HIDE DEF q, h
  <2>1. CASE i = Len(q) + 1
    <3>1. Append(q, p)[i] = p  BY <1>7, <2>1
    <3>2. ~Registered(c) => Len(q) # 0  BY <1>5, <1>13, EmptySeq DEF q
    <3>3. i > 1 \/ Registered(c)  BY <1>7, <2>1, <3>2
    <3> QED  BY <1>4, <3>1, <3>3
  <2>2. CASE i # Len(q) + 1
    <3>1. i \in 1 .. Len(q) /\ Append(q, p)[i] = q[i]  BY <1>7, <2>2
    <3> QED  BY <1>13, <3>1 DEF QueueOf
  <2> QED  BY <2>1, <2>2
<1>15. Connected(c) => Append(q, p) # << >>
  <2> DEFINE r == Append(q, p)
  <2>1. r \in Seq(Bytes) /\ Len(r) # 0  BY <1>7
  <2> HIDE DEF r
  <2>2. r # << >>  BY <2>1, EmptySeq
  <2> QED  BY <2>2 DEF r
<1>16. Queues'
  <2> SUFFICES ASSUME NEW x \in Clients
               PROVE  /\ QueueOf(toServer'[x], clientHandle[x], x, Registered(x)')
                      /\ phase[x] = "running" /\ Connected(x)' /\ ~Registered(x)' => toServer'[x] # << >>
    BY <1>3 DEF Queues
  <2>1. CASE x = c
    <3>1. QueueOf(toServer'[c], h, c, Registered(c)) /\
            (Connected(c) /\ ~Registered(c) => toServer'[c] # << >>)
      <4> HIDE DEF q, h
      <4> QED  BY <1>9, <1>13, <1>14, <1>15
    <3>2. QueueOf(toServer'[c], h, c, Registered(c)')  BY <1>10, <3>1 DEF QueueOf
    <3> QED  BY <1>10, <2>1, <3>1, <3>2
  <2>2. CASE x # c
    <3>1. QueueOf(toServer[x], clientHandle[x], x, Registered(x))  BY <1>1 DEF Queues
    <3>2. QueueOf(toServer'[x], clientHandle[x], x, Registered(x)')
      BY <1>9, <1>10, <2>2, <3>1 DEF QueueOf
    <3> QED  BY <1>1, <1>9, <1>10, <2>2, <3>2 DEF Queues
  <2> QED  BY <2>1, <2>2
<1>17. TableSound'  BY <1>1, <1>3 DEF TableSound
<1>18. Told'
  <2>1. oversize \subseteq oversize'  BY <1>2
  <2> QED  BY <1>1, <1>3, <1>10, <2>1 DEF Told
<1>19. Answers' /\ Lists'  BY <1>1, <1>3 DEF Answers, Lists
<1>20. Meant'
  <2>1. Started' = Started  BY <1>3, ServerKeepsMeaning
  <2> QED  BY <1>1, <1>3, <2>1 DEF Meant
<1>21. Sized'
  <2> SUFFICES ASSUME NEW x \in Clients, NEW i \in 1 .. Len(toServer'[x]),
                      Len(toServer'[x][i]) > MAXBUF
               PROVE  x \in oversize'
    BY DEF Sized
  <2>1. oversize \subseteq oversize' /\ (Len(p) > MAXBUF => c \in oversize')  BY <1>2 DEF p
  <2>2. CASE toServer'[x] = toServer[x]  BY <1>1, <2>1, <2>2 DEF Sized
  <2>3. CASE toServer'[x] # toServer[x]
    <3>1. x = c /\ toServer'[c] = Append(q, p)  BY <1>9, <2>3
    <3> DEFINE r == Append(q, p)
    <3>2. Len(r) = Len(q) + 1 /\ Len(q) \in Nat /\ r[Len(q) + 1] = p /\ \A j \in 1 .. Len(q) : r[j] = q[j]
      BY <1>7
    <3>3. i \in 1 .. Len(r) /\ Len(r[i]) > MAXBUF  BY <3>1
    <3>4. \A j \in 1 .. Len(q) : Len(q[j]) > MAXBUF => c \in oversize  BY <1>1 DEF Sized
    <3> HIDE DEF r, q
    <3>5. CASE i = Len(q) + 1  BY <2>1, <3>1, <3>2, <3>3, <3>5
    <3>6. CASE i # Len(q) + 1
      <4>1. i \in 1 .. Len(q)  BY <3>2, <3>3, <3>6
      <4>2. Len(q[i]) > MAXBUF  BY <3>2, <3>3, <4>1
      <4> QED  BY <2>1, <3>1, <3>4, <4>1, <4>2
    <3> QED  BY <3>5, <3>6
  <2> QED  BY <2>2, <2>3
<1> QED  BY <1>11, <1>12, <1>16, <1>17, <1>18, <1>19, <1>20, <1>21 DEF IInv

\* A client takes the first PDU of its queue.
LEMMA ReceiveStep ==
  ASSUME IInv, NEW c \in Clients, ProcessMsgFromServer(c), UNCHANGED serverVars
  PROVE  IInv'
<1>1. /\ Typed /\ Connections /\ TableSound /\ Queues
      /\ Sized /\ Told /\ Answers /\ Lists /\ Meant
  BY DEF IInv
<1>2. PICK m \in {toClient[c][i] : i \in DOMAIN toClient[c]} :
        /\ Take(c, m)
        /\ \/ Answered(c, m) \/ Shown(c, m)
           \/ HandleCount(c, m) \/ HandleListed(c, m) \/ ListFinished(c, m)
  BY DEF ProcessMsgFromServer
<1> DEFINE q == toClient[c]
           e == expectingHandleList[c]
           n == remainingHandles[c]
<1>3. /\ phase[c] = "running" /\ q # << >> /\ m = Head(q)
      /\ toClient' = [toClient EXCEPT ![c] = Tail(q)]
      /\ UNCHANGED <<serverUp, backlog, peer, toServer, gone, reset,
                     phase, clientHandle, oversize, typed>>
      /\ UNCHANGED <<table, pollSet>>
  BY <1>2 DEF Take, serverVars
<1>4. q \in Seq(Bytes) /\ e \in BOOLEAN /\ n \in Nat /\ c \notin gone  BY <1>1, <1>3 DEF Typed
<1>5. ListsOf(q, e, n, serverUp) /\ serverUp \in BOOLEAN  BY <1>1, <1>4 DEF Lists, Typed
<1>6. \A i \in 1 .. Len(q) :
        FlagOf(q[i]) \in ServerFlags /\ MeantFor(q[i], c, clientHandle, Started)
  BY <1>1 DEF Answers, Meant
<1> DEFINE t == Tail(q)
<1>7. toClient' = [toClient EXCEPT ![c] = t]  BY <1>3
<1> DEFINE w == serverUp
<1> HIDE DEF q, e, n, w
<1>8. /\ t \in Seq(Bytes) /\ Len(q) \in Nat \ {0} /\ Len(t) = Len(q) - 1
      /\ \A i \in 1 .. Len(q) - 1 : t[i] = q[i + 1]
      /\ m = q[1] /\ m \in Bytes /\ 1 \in 1 .. Len(q)
  <2>1. Len(q) \in Nat \ {0}  BY <1>3, <1>4, EmptySeq
  <2>2. 1 \in 1 .. Len(q)  BY <2>1
  <2>3. q[1] \in Bytes  BY <1>4, <2>2, ElementOfSeq
  <2>4. Head(q) = q[1]  BY <1>3, <1>4
  <2> QED  BY <1>3, <1>4, <2>1, <2>2, <2>3, <2>4, HeadTailProperties
<1> HIDE DEF t
<1>9. \A i \in 1 .. Len(t) : i + 1 \in 1 .. Len(q) /\ t[i] = q[i + 1]  BY <1>8
<1>10. /\ toClient' \in [Clients -> Seq(Bytes)] /\ toClient'[c] = t
       /\ \A x \in Clients : x # c => toClient'[x] = toClient[x]
  BY <1>1, <1>7, <1>8 DEF Typed
<1>11. At(m, 1) \in Nat
  <2>1. 1 \in Nat  OBVIOUS
  <2> QED  BY <1>8, <2>1, BytesAreNumbers
\* The five cases of processMsgFromServer, and what is left of the lists.
<1>12. /\ refused' \subseteq Clients /\ refused \subseteq refused'
       /\ FlagOf(m) = 3 => c \in refused'
       /\ expectingHandleList' \in [Clients -> BOOLEAN]
       /\ remainingHandles' \in [Clients -> Nat]
       /\ \A x \in Clients : x # c => /\ expectingHandleList'[x] = expectingHandleList[x]
                                     /\ remainingHandles'[x] = remainingHandles[x]
       /\ ListsOf(t, expectingHandleList'[c], remainingHandles'[c], w)
  <2>1. /\ expectingHandleList \in [Clients -> BOOLEAN] /\ remainingHandles \in [Clients -> Nat]
        /\ refused \subseteq Clients
    BY <1>1 DEF Typed
  <2>2. /\ FlagOf(q[1]) = 11 => ListsOf(Tail(q), TRUE, At(q[1], 1), w)
        /\ FlagOf(q[1]) = 12 => e /\ n > 0 /\ ListsOf(Tail(q), TRUE, n - 1, w)
        /\ FlagOf(q[1]) = 13 => e /\ n = 0 /\ ListsOf(Tail(q), FALSE, 0, w)
        /\ FlagOf(q[1]) \notin {11, 12, 13} => ~e /\ ListsOf(Tail(q), FALSE, n, w)
    <3>1. ListsOf(q, e, n, w) /\ w \in BOOLEAN  BY <1>5 DEF w
    <3> QED  BY <1>3, <1>4, <3>1, ListsTaken
  <2>8. t = Tail(q) /\ m = q[1]  BY <1>8 DEF t
  <2>9. FlagOf(m) = 11 => ListsOf(t, TRUE, At(m, 1), w)  BY <2>2, <2>8
  <2>10. FlagOf(m) = 12 => n > 0 /\ ListsOf(t, TRUE, n - 1, w)  BY <2>2, <2>8
  <2>11. FlagOf(m) = 13 => ListsOf(t, FALSE, 0, w)  BY <2>2, <2>8
  <2>12. FlagOf(m) \notin {11, 12, 13} => expectingHandleList[c] = FALSE /\ ListsOf(t, FALSE, n, w)
    BY <1>4, <2>2, <2>8 DEF e
  <2>13. FlagOf(m) \in {12, 13} => expectingHandleList[c] = TRUE  BY <1>4, <2>2, <2>8 DEF e
  <2>14. n = remainingHandles[c]  BY DEF n
  <2>3. CASE Answered(c, m)
    <3>1. /\ FlagOf(m) \in {2, 3}
          /\ refused' = IF FlagOf(m) = 3 THEN refused \cup {c} ELSE refused
          /\ UNCHANGED <<expectingHandleList, remainingHandles>>
      BY <2>3 DEF Answered, listVars
    <3>2. FlagOf(m) \notin {11, 12, 13}  BY <3>1
    <3>3. expectingHandleList'[c] = FALSE /\ remainingHandles'[c] = n /\ ListsOf(t, FALSE, n, w)
      BY <2>12, <2>14, <3>1, <3>2
    <3> QED  BY <2>1, <3>1, <3>3
  <2>4. CASE Shown(c, m)
    <3>1. /\ \/ FlagOf(m) \in {4, 5, 6, 7}
             \/ FlagOf(m) \in {12, 13} /\ ~expectingHandleList[c]
          /\ UNCHANGED <<expectingHandleList, remainingHandles, refused>>
      BY <2>4 DEF Shown, listVars
    <3>2. FlagOf(m) \in {4, 5, 6, 7}  BY <2>13, <3>1
    <3>3. FlagOf(m) \notin {11, 12, 13} /\ FlagOf(m) # 3  BY <3>2
    <3>4. expectingHandleList'[c] = FALSE /\ remainingHandles'[c] = n /\ ListsOf(t, FALSE, n, w)
      BY <2>12, <2>14, <3>1, <3>3
    <3> QED  BY <2>1, <3>1, <3>3, <3>4
  <2>5. CASE HandleCount(c, m)
    <3>1. /\ FlagOf(m) = 11
          /\ expectingHandleList' = [expectingHandleList EXCEPT ![c] = TRUE]
          /\ remainingHandles' = [remainingHandles EXCEPT ![c] = At(m, 1)]
          /\ UNCHANGED refused
      BY <2>5 DEF HandleCount
    <3>2. expectingHandleList'[c] = TRUE /\ remainingHandles'[c] = At(m, 1)  BY <2>1, <3>1
    <3>3. ListsOf(t, TRUE, At(m, 1), w)  BY <2>9, <3>1
    <3>4. FlagOf(m) # 3  BY <3>1
    <3> QED  BY <1>11, <2>1, <3>1, <3>2, <3>3, <3>4
  <2>6. CASE HandleListed(c, m)
    <3>1. /\ FlagOf(m) = 12
          /\ remainingHandles' = [remainingHandles EXCEPT ![c] = IF @ > 0 THEN @ - 1 ELSE 0]
          /\ UNCHANGED <<expectingHandleList, refused>>
      BY <2>6 DEF HandleListed
    <3>2. n > 0 /\ expectingHandleList[c] = TRUE /\ FlagOf(m) # 3
      <4>1. n > 0  BY <2>10, <3>1, Zenon
      <4> QED  BY <2>13, <3>1, <4>1
    <3>6. ListsOf(t, TRUE, n - 1, w)  BY <2>10, <3>1, Zenon
    <3>3. n - 1 \in Nat  BY <1>4, <3>2
    <3>4. remainingHandles' = [remainingHandles EXCEPT ![c] = n - 1]  BY <2>14, <3>1, <3>2
    <3>5. remainingHandles'[c] = n - 1  BY <2>1, <3>4
    <3> QED  BY <2>1, <3>1, <3>2, <3>3, <3>4, <3>5, <3>6, ZenonT(60)
  <2>7. CASE ListFinished(c, m)
    <3>1. /\ FlagOf(m) = 13
          /\ expectingHandleList' = [expectingHandleList EXCEPT ![c] = FALSE]
          /\ remainingHandles' = [remainingHandles EXCEPT ![c] = 0]
          /\ UNCHANGED refused
      BY <2>7 DEF ListFinished
    <3>2. expectingHandleList'[c] = FALSE /\ remainingHandles'[c] = 0  BY <2>1, <3>1
    <3>3. ListsOf(t, FALSE, 0, w)  BY <2>11, <3>1
    <3>4. FlagOf(m) # 3  BY <3>1
    <3> QED  BY <2>1, <3>1, <3>2, <3>3, <3>4
  <2> QED  BY <1>2, <2>3, <2>4, <2>5, <2>6, <2>7
<1>13. Typed'  BY <1>1, <1>3, <1>10, <1>12 DEF Typed
<1>14. /\ \A x \in Clients : Connected(x)' <=> Connected(x)
       /\ \A x \in Clients : Registered(x)' <=> Registered(x)
  BY <1>3 DEF Connected, Registered
<1>15. Connections'
  <2>1. \A x \in Clients :
          phase'[x] = "new" => ~Connected(x)' /\ toServer'[x] = << >> /\ toClient'[x] = << >>
    <3> SUFFICES ASSUME NEW x \in Clients, phase[x] = "new"
                 PROVE  ~Connected(x)' /\ toServer[x] = << >> /\ toClient'[x] = << >>
      BY <1>3
    <3>1. x # c  BY <1>3
    <3> QED  BY <1>1, <1>10, <1>14, <3>1 DEF Connections
  <2>2. \A x \in gone' : toClient'[x] = << >>
    <3>1. gone \subseteq Clients  BY <1>1 DEF Typed
    <3> QED  BY <1>1, <1>3, <1>4, <1>10, <3>1 DEF Connections
  <2> QED  BY <1>1, <1>3, <2>1, <2>2 DEF Connections
<1>16. TableSound'  BY <1>1, <1>3 DEF TableSound
<1>17. Queues'
  <2> SUFFICES ASSUME NEW x \in Clients
               PROVE  /\ QueueOf(toServer[x], clientHandle[x], x, Registered(x)')
                      /\ phase[x] = "running" /\ Connected(x)' /\ ~Registered(x)' => toServer[x] # << >>
    BY <1>3 DEF Queues
  <2>1. QueueOf(toServer[x], clientHandle[x], x, Registered(x))  BY <1>1 DEF Queues
  <2>2. QueueOf(toServer[x], clientHandle[x], x, Registered(x)')  BY <1>14, <2>1 DEF QueueOf
  <2> QED  BY <1>1, <1>14, <2>2 DEF Queues
<1>18. Told'
  <2> SUFFICES ASSUME NEW x \in Clients, phase[x] = "running", serverUp, ~Connected(x)'
               PROVE  \/ x \in refused' \cup oversize
                      \/ \E i \in 1 .. Len(toClient'[x]) : FlagOf(toClient'[x][i]) = 3
    BY <1>3 DEF Told
  <2>1. x \in refused \cup oversize \/ \E i \in 1 .. Len(toClient[x]) : FlagOf(toClient[x][i]) = 3
    BY <1>1, <1>14 DEF Told
  <2>2. CASE x \in refused \cup oversize  BY <1>12, <2>2
  <2>3. CASE x # c  BY <1>10, <1>12, <2>1, <2>3
  <2>4. CASE x = c /\ x \notin refused \cup oversize
    <3>1. PICK i \in 1 .. Len(q) : FlagOf(q[i]) = 3  BY <2>1, <2>4 DEF q
    <3>2. CASE i = 1  BY <1>8, <1>12, <2>4, <3>1, <3>2
    <3>3. CASE i # 1
      <4>1. i - 1 \in 1 .. Len(t) /\ i - 1 \in 1 .. Len(q) - 1 /\ (i - 1) + 1 = i
        BY <1>8, <3>3
      <4>2. t[i - 1] = q[i]  BY <1>8, <4>1
      <4> QED  BY <1>10, <2>4, <3>1, <4>1, <4>2
    <3> QED  BY <3>2, <3>3
  <2> QED  BY <2>2, <2>3, <2>4
<1>19. Answers'
  <2>1. \A i \in 1 .. Len(t) : FlagOf(t[i]) \in ServerFlags  BY <1>6, <1>9
  <2> QED  BY <1>1, <1>10, <2>1 DEF Answers
<1>20. Lists'  BY <1>1, <1>3, <1>10, <1>12 DEF Lists, w
<1>21. Meant'
  <2>1. Started' = Started  BY <1>3, ServerKeepsMeaning
  <2>2. \A i \in 1 .. Len(t) : MeantFor(t[i], c, clientHandle, Started)  BY <1>6, <1>9
  <2> QED  BY <1>1, <1>3, <1>10, <2>1, <2>2 DEF Meant
<1>22. Sized'  BY <1>1, <1>3 DEF Sized
<1> QED  BY <1>13, <1>15, <1>16, <1>17, <1>18, <1>19, <1>20, <1>21, <1>22 DEF IInv

-----------------------------------------------------------------------------
(***************************************************************************)
(* The invariant and what it says                                          *)
(***************************************************************************)

\* It holds when the server begins to listen.
LEMMA InitInv == Init => IInv
<1> SUFFICES ASSUME Init PROVE IInv
  OBVIOUS
<1>1. /\ serverUp = TRUE /\ backlog = << >>
      /\ peer = [fd \in Fds |-> Nobody]
      /\ toServer = [c \in Clients |-> << >>] /\ toClient = [c \in Clients |-> << >>]
      /\ gone = {} /\ reset = {} /\ table = << >> /\ pollSet = {}
      /\ phase = [c \in Clients |-> "new"] /\ clientHandle = [c \in Clients |-> << >>]
      /\ expectingHandleList = [c \in Clients |-> FALSE]
      /\ remainingHandles = [c \in Clients |-> 0]
      /\ refused = {} /\ oversize = {} /\ typed = 0
  BY DEF Init, NetInit, ServerInit, ClientInit, NoHandle
<1>2. /\ << >> \in Seq(Clients) /\ << >> \in Seq(Bytes) /\ << >> \in Seq(EntryType)
      /\ << >> \in Bytes /\ Len(<< >>) = 0 /\ 1 .. 0 = {} /\ ToSet(<< >>) = {}
  <2>1. ToSet(<< >>) = {}  BY DEF ToSet
  <2> QED  BY <2>1, EmptySeq DEF Bytes
<1>3. Len(backlog) = 0 /\ Len(table) = 0
      /\ \A c \in Clients : Len(toServer[c]) = 0 /\ Len(toClient[c]) = 0
  BY <1>1, <1>2
<1>4. Typed
  <2>1. 0 <= MaxHandles /\ 0 \in 0 .. MaxCommands  BY MaxHandlesAssumption, UsersAssumption
  <2>3. \A c \in Clients : Len(clientHandle[c]) <= MAX_HANDLE_LENGTH
    BY <1>1, <1>2, LengthAssumption
  <2>2. gone = {c \in Clients : phase[c] = "exited"} /\ pollSet = {fd \in Fds : peer[fd] # Nobody}
    BY <1>1
  <2> QED  BY <1>1, <1>2, <1>3, <2>1, <2>2, <2>3 DEF Typed
<1>5. \A c \in Clients : ~Connected(c)
  <2>1. Nobody \notin Clients  BY NetAssumption
  <2> QED  BY <1>1, <1>2, <2>1 DEF Connected
<1>6. Connections  BY <1>1, <1>2, <1>3, <1>5 DEF Connections
<1>7. TableSound
  <2>1. DOMAIN table = {}  BY <1>1
  <2> QED  BY <1>1, <1>2, <2>1 DEF TableSound
<1>8. Queues  BY <1>2, <1>3, <1>5 DEF Queues, QueueOf
<1>9. Told  BY <1>1 DEF Told
<1>10. Answers /\ Meant  BY <1>2, <1>3 DEF Answers, Meant
<1>11. Lists
  <2> SUFFICES ASSUME NEW c \in Clients
               PROVE  ListsOf(toClient[c], expectingHandleList[c], remainingHandles[c], serverUp)
    BY DEF Lists
  <2> QED  BY <1>1, <1>2, <1>3 DEF ListsOf
<1>12. Sized  BY <1>2, <1>3 DEF Sized
<1> QED  BY <1>4, <1>6, <1>7, <1>8, <1>9, <1>10, <1>11, <1>12 DEF IInv

\* It does not depend on anything else.
LEMMA StutterStep ==
  ASSUME IInv, UNCHANGED vars
  PROVE  IInv'
<1>1. /\ UNCHANGED <<serverUp, backlog, peer, toServer, toClient, gone, reset, table, pollSet>>
      /\ UNCHANGED <<phase, clientHandle, expectingHandleList, remainingHandles, refused, oversize, typed>>
  BY DEF vars, netVars, serverVars, clientVars, listVars, historyVars
<1>2. /\ Typed /\ Connections /\ TableSound /\ Queues
      /\ Sized /\ Told /\ Answers /\ Lists /\ Meant
  BY DEF IInv
<1>3. /\ \A x \in Clients : Connected(x)' <=> Connected(x)
      /\ \A x \in Clients : Registered(x)' <=> Registered(x)
  BY <1>1 DEF Connected, Registered
<1>4. Typed'  BY <1>1, <1>2 DEF Typed
<1>5. Connections'  BY <1>1, <1>2, <1>3 DEF Connections
<1>6. TableSound' /\ Answers' /\ Lists'  BY <1>1, <1>2 DEF TableSound, Answers, Lists
<1>7. Queues'
  <2> SUFFICES ASSUME NEW x \in Clients
               PROVE  /\ QueueOf(toServer[x], clientHandle[x], x, Registered(x)')
                      /\ phase[x] = "running" /\ Connected(x)' /\ ~Registered(x)' => toServer[x] # << >>
    BY <1>1 DEF Queues
  <2>1. QueueOf(toServer[x], clientHandle[x], x, Registered(x))  BY <1>2 DEF Queues
  <2>2. QueueOf(toServer[x], clientHandle[x], x, Registered(x)')  BY <1>3, <2>1 DEF QueueOf
  <2> QED  BY <1>2, <1>3, <2>2 DEF Queues
<1>8. Told'  BY <1>1, <1>2, <1>3 DEF Told
<1>9. Meant'
  <2>1. Started' = Started  BY <1>1, ServerKeepsMeaning
  <2> QED  BY <1>1, <1>2, <2>1 DEF Meant
<1>10. Sized'  BY <1>1, <1>2 DEF Sized
<1> QED  BY <1>4, <1>5, <1>6, <1>7, <1>8, <1>9, <1>10 DEF IInv

\* It holds as long as the programs run.
LEMMA NextInv == IInv /\ [Next]_vars => IInv'
<1> SUFFICES ASSUME IInv, [Next]_vars PROVE IInv'
  OBVIOUS
<1>1. CASE Server  BY <1>1, ServerStep
<1>2. ASSUME NEW c \in Clients, Client(c) PROVE IInv'
  <2>1. UNCHANGED serverVars  BY <1>2 DEF Client
  <2>2. CASE Stop(c)  BY <2>1, <2>2, StopStep
  <2>3. CASE ProcessMsgFromServer(c)  BY <2>1, <2>3, ReceiveStep
  <2> QED  BY <1>2, <2>2, <2>3 DEF Client, ClientTurn, ServerTerminated, ListCutShort, ListedTooLong
<1>3. ASSUME NEW c \in Clients, User(c) PROVE IInv'
  <2>1. UNCHANGED serverVars  BY <1>3 DEF User
  <2>2. CASE Start(c)  BY <2>1, <2>2, StartStep
  <2>3. CASE HandleTooLong(c)  BY <2>1, <2>3, TooLongStep
  <2>4. CASE ProcessStdin(c)  BY <2>1, <2>4, StdinStep
  <2>5. CASE Stop(c)  BY <2>1, <2>5, StopStep
  <2>6. CASE InvalidCommand(c)
    <3>1. UNCHANGED vars  BY <2>1, <2>6 DEF InvalidCommand, vars
    <3> QED  BY <3>1, StutterStep
  <2> QED  BY <1>3, <2>2, <2>3, <2>4, <2>5, <2>6
       DEF User, ConnectFails, PacketFaults, Interrupted
<1>4. CASE UNCHANGED vars  BY <1>4, StutterStep
<1>5. CASE Finished  BY <1>4, <1>5 DEF Finished
<1>6. CASE HangUp  BY <1>6, HangUpStep
<1> QED  BY <1>1, <1>2, <1>3, <1>4, <1>5, <1>6 DEF Next

\* So it holds always.
LEMMA Inductive == Spec => []IInv
BY InitInv, NextInv, PTL DEF Spec

\* Every variable keeps its type, every PDU has a flag of the programs, and the
\* table never exceeds MAX_HANDLES.
THEOREM TypesHold == Spec => []ChatTypeOK
<1>1. IInv => ChatTypeOK
  <2> SUFFICES ASSUME IInv PROVE ChatTypeOK
    OBVIOUS
  <2>1. Typed /\ TableSound /\ Queues /\ Answers  BY DEF IInv
  <2>2. ToSet(backlog) \subseteq Clients
    <3>1. backlog \in Seq(Clients)  BY <2>1 DEF Typed
    <3>2. \A i \in 1 .. Len(backlog) : backlog[i] \in Clients  BY <3>1, ElementOfSeq
    <3>3. DOMAIN backlog = 1 .. Len(backlog)  BY <3>1, LenProperties
    <3> QED  BY <3>2, <3>3 DEF ToSet
  <2>3. ASSUME NEW c \in Clients, NEW m \in ToSet(toServer[c]) PROVE FlagOf(m) \in Flags
    <3>1. toServer[c] \in Seq(Bytes) /\ clientHandle[c] \in Bytes  BY <2>1 DEF Typed
    <3>2. DOMAIN toServer[c] = 1 .. Len(toServer[c])  BY <3>1, LenProperties
    <3>3. PICK i \in 1 .. Len(toServer[c]) : m = toServer[c][i]  BY <3>2 DEF ToSet
    <3>4. m = <<1>> \o HandleField(clientHandle[c]) \/ Spoken(clientHandle[c], c, m)
      BY <2>1, <3>3 DEF Queues, QueueOf
    <3>5. FlagOf(m) \in {1, 4, 5, 6, 10}  BY <3>1, <3>4, RegistrationRead, SpokenRead
    <3> QED  BY <3>5 DEF Flags
  <2>4. ASSUME NEW c \in Clients, NEW m \in ToSet(toClient[c]) PROVE FlagOf(m) \in Flags
    <3>1. toClient[c] \in Seq(Bytes)  BY <2>1 DEF Typed
    <3>2. DOMAIN toClient[c] = 1 .. Len(toClient[c])  BY <3>1, LenProperties
    <3>3. PICK i \in 1 .. Len(toClient[c]) : m = toClient[c][i]  BY <3>2 DEF ToSet
    <3> QED  BY <2>1, <3>3 DEF Answers, ServerFlags, Flags
  <2>5. \A e \in ToSet(table) : e.socket \in Fds  BY <2>1, EntriesLead DEF ToSet
  <2> QED  BY <2>1, <2>2, <2>3, <2>4, <2>5 DEF Typed, ChatTypeOK
<1> QED  BY <1>1, Inductive, PTL

\* No string and no connection is twice in the table, and every entry leads to the
\* client that registered it: its string is that client's handle or, if the handle has
\* the greatest length, what addHandle's copy of it reads like.  So a shorter handle is
\* one client's at most.
THEOREM HandlesUnique == Spec => []TableSound
<1>1. IInv => TableSound  BY DEF IInv
<1> QED  BY <1>1, Inductive, PTL

\* Whatever is on its way to a client was typed by a client whose handle will be
\* printed in front of it, and was meant for the client that gets it.
THEOREM NobodyMisled == Spec => []AddressedOnly
<1>1. IInv => AddressedOnly
  <2> SUFFICES ASSUME IInv, NEW c \in Clients, NEW m \in ToSet(toClient[c]),
                      FlagOf(m) \in {4, 5, 6}
               PROVE  \E sender \in Clients : \E line \in Lines[sender] :
                        /\ Command[line].flag = FlagOf(m)
                        /\ Printed(m) = [src |-> clientHandle[sender], text |-> Command[line].text]
                        /\ IF Command[line].flag = 4 THEN clientHandle[sender] # clientHandle[c]
                           ELSE clientHandle[c] \in ToSet(Command[line].dests)
    BY DEF AddressedOnly
  <2>1. Typed /\ Meant  BY DEF IInv
  <2>2. toClient[c] \in Seq(Bytes)  BY <2>1 DEF Typed
  <2>3. DOMAIN toClient[c] = 1 .. Len(toClient[c])  BY <2>2, LenProperties
  <2>4. PICK i \in 1 .. Len(toClient[c]) : m = toClient[c][i]  BY <2>3 DEF ToSet
  <2>5. MeantFor(m, c, clientHandle, Started)  BY <2>1, <2>4 DEF Meant
  <2>6. Started \subseteq Clients  BY DEF Started
  <2> QED  BY <2>5, <2>6 DEF MeantFor
<1> QED  BY <1>1, Inductive, PTL

\* A client that finds its connection closed by the running server has been told
\* that its handle was refused, or has sent a PDU longer than the server's buffer.
THEOREM HangUpsExplained == Spec => []DropExplained
<1>1. IInv => DropExplained
  <2> SUFFICES ASSUME IInv, NEW c \in Clients, phase[c] = "running", toClient[c] = << >>,
                      serverUp, ~Connected(c)
               PROVE  c \in refused \cup oversize
    BY DEF DropExplained
  <2>1. Told  BY DEF IInv
  <2>2. Len(toClient[c]) = 0 /\ 1 .. 0 = {}  BY EmptySeq
  <2> QED  BY <2>1, <2>2 DEF Told
<1> QED  BY <1>1, Inductive, PTL

\* The end of a handle list comes when as many handles as announced have been
\* printed: no client stops with "Expected %d handles, but received none".
THEOREM ListsEnd == Spec => []ListComplete
<1>1. IInv => ListComplete
  <2> SUFFICES ASSUME IInv, NEW c \in Clients, toClient[c] # << >>,
                      FlagOf(Head(toClient[c])) = 13
               PROVE  expectingHandleList[c] /\ remainingHandles[c] = 0
    BY DEF ListComplete
  <2> DEFINE q == toClient[c]
             e == expectingHandleList[c]
             n == remainingHandles[c]
             w == serverUp
  <2>1. Typed /\ Connections /\ Lists  BY DEF IInv
  <2>2. c \notin gone  BY <2>1 DEF Connections
  <2>3. q \in Seq(Bytes) /\ e \in BOOLEAN /\ n \in Nat /\ w \in BOOLEAN /\ ListsOf(q, e, n, w)
    BY <2>1, <2>2 DEF Typed, Lists
  <2>4. q # << >> /\ FlagOf(q[1]) = 13
    <3>1. Head(q) = q[1]  BY <2>3
    <3> QED  BY <3>1
  <2> HIDE DEF q, e, n, w
  <2>5. e /\ n = 0  BY <2>3, <2>4, ListsTaken
  <2> QED  BY <2>5 DEF e, n
<1> QED  BY <1>1, Inductive, PTL

-----------------------------------------------------------------------------
(***************************************************************************)
(* The handle table as a registry of who is called what                    *)
(***************************************************************************)

Holds == {<<peer[e.socket], clientHandle[peer[e.socket]]>> : e \in ToSet(table)}

\* A client asks for a handle it may be started with.
Chosen ==
  \A c \in Clients :
    phase[c] = "running" \/ toServer[c] # << >> => clientHandle[c] \in Names[c]

\* It is asked for once, when the client is started.
LEMMA ChosenKept == IInv /\ Chosen /\ [Next]_vars => Chosen'
<1> SUFFICES ASSUME IInv, Chosen, [Next]_vars PROVE Chosen'
  OBVIOUS
<1>1. Typed /\ Connections  BY DEF IInv
<1>2. /\ toServer \in [Clients -> Seq(Bytes)] /\ clientHandle \in [Clients -> Bytes]
      /\ phase \in [Clients -> {"new", "running", "exited"}]
  BY <1>1 DEF Typed
\* Queues only get shorter.
<1>3. ASSUME UNCHANGED <<phase, clientHandle>>,
             \A x \in Clients : toServer'[x] # << >> => toServer[x] # << >>
      PROVE  Chosen'
  BY <1>3 DEF Chosen
<1>4. CASE UNCHANGED vars
  <2>1. UNCHANGED <<phase, clientHandle, toServer>>  BY <1>4 DEF vars, netVars, clientVars
  <2> QED  BY <1>3, <2>1
<1>5. ASSUME NEW fd \in Fds, Consume(fd), peer[fd] \in Clients,
             toServer[peer[fd]] # << >>, UNCHANGED <<phase, clientHandle>>
      PROVE  Chosen'
  <2>1. \A x \in Clients : toServer'[x] # << >> => toServer[x] # << >>
    BY <1>2, <1>5 DEF Consume
  <2> QED  BY <1>3, <1>5, <2>1
<1>6. ASSUME NEW fd \in Fds, CleanupClient(fd), UNCHANGED <<phase, clientHandle>>
      PROVE  Chosen'
  <2>1. \A x \in Clients : toServer'[x] # << >> => toServer[x] # << >>
    BY <1>2, <1>6 DEF CleanupClient
  <2> QED  BY <1>3, <1>6, <2>1
<1>7. CASE Server
  <2>1. UNCHANGED <<phase, clientHandle>>  BY <1>7 DEF Server, clientVars
  <2>2. CASE AddNewSocket  BY <1>3, <2>1, <2>2 DEF AddNewSocket
  <2>3. ASSUME NEW fd \in Fds, Disconnected(fd) PROVE Chosen'
    BY <1>6, <2>1, <2>3 DEF Disconnected
  <2>4. ASSUME NEW fd \in Fds, ProcessClient(fd) PROVE Chosen'
    <3>1. toServer[peer[fd]] # << >> /\ peer[fd] \in Clients
      BY <1>1, <2>4, PolledPeer DEF ProcessClient
    <3>2. Consume(fd) \/ CleanupClient(fd)
      BY <2>4 DEF ProcessClient, Register, Refuse, Broadcast, Message, Multicast,
                  ListHandles, Dispatch
    <3> QED  BY <1>5, <1>6, <2>1, <3>1, <3>2
  <2>5. ASSUME NEW fd \in Fds, ReceiveError(fd) PROVE Chosen'
    BY <1>6, <2>1, <2>5 DEF ReceiveError
  <2> QED  BY <1>7, <2>2, <2>3, <2>4, <2>5 DEF Server, ServerTurn
<1>8. ASSUME NEW c \in Clients, Stop(c) PROVE Chosen'
  <2>1. /\ phase' = [phase EXCEPT ![c] = "exited"]
        /\ UNCHANGED <<toServer, clientHandle>>
    BY <1>8 DEF Stop
  <2>2. \A x \in Clients : phase'[x] = "running" => phase[x] = "running"  BY <1>2, <2>1
  <2> QED  BY <2>1, <2>2 DEF Chosen
<1>9. ASSUME NEW c \in Clients, Client(c) PROVE Chosen'
  <2>1. CASE Stop(c)  BY <1>8, <2>1
  <2>2. CASE ProcessMsgFromServer(c)
    <3>1. UNCHANGED <<toServer, phase, clientHandle>>
      BY <2>2 DEF ProcessMsgFromServer, Take
    <3> QED  BY <1>3, <3>1
  <2> QED  BY <1>9, <2>1, <2>2
       DEF Client, ClientTurn, ServerTerminated, ListCutShort, ListedTooLong
<1>10. ASSUME NEW c \in Clients, Start(c) PROVE Chosen'
  <2>1. PICK handle \in Names[c] :
          /\ Len(handle) <= MAX_HANDLE_LENGTH
          /\ clientHandle' = [clientHandle EXCEPT ![c] = handle]
          /\ toServer' = [toServer EXCEPT ![c] = <<(<<1>> \o HandleField(handle))>>]
    BY <1>10 DEF Start
  <2>2. phase' = [phase EXCEPT ![c] = "running"]  BY <1>10 DEF Start
  <2>3. clientHandle'[c] \in Names[c]  BY <1>2, <2>1
  <2>4. ASSUME NEW x \in Clients, x # c
        PROVE  /\ clientHandle'[x] = clientHandle[x] /\ toServer'[x] = toServer[x]
               /\ phase'[x] = phase[x]
    BY <1>2, <2>1, <2>2, <2>4
  <2> QED  BY <2>3, <2>4 DEF Chosen
<1>11. ASSUME NEW c \in Clients, HandleTooLong(c) PROVE Chosen'
  <2>1. /\ phase' = [phase EXCEPT ![c] = "exited"]
        /\ UNCHANGED <<toServer, clientHandle>>
    BY <1>11 DEF HandleTooLong
  <2>2. \A x \in Clients : phase'[x] = "running" => phase[x] = "running"  BY <1>2, <2>1
  <2> QED  BY <2>1, <2>2 DEF Chosen
<1>12. ASSUME NEW c \in Clients, ProcessStdin(c) PROVE Chosen'
  <2>1. phase[c] = "running" /\ UNCHANGED <<phase, clientHandle>>  BY <1>12 DEF ProcessStdin
  <2>2. ASSUME NEW x \in Clients, x # c PROVE toServer'[x] = toServer[x]
    <3>1. PICK pdu : \/ toServer' = [toServer EXCEPT ![c] = Append(@, pdu)]
                     \/ toServer' = toServer
      BY <1>12 DEF ProcessStdin
    <3> QED  BY <1>2, <2>2, <3>1
  <2> QED  BY <2>1, <2>2 DEF Chosen
<1>13. ASSUME NEW c \in Clients, User(c) PROVE Chosen'
  <2>1. CASE InvalidCommand(c)
    <3>1. UNCHANGED <<phase, clientHandle, toServer>>
      BY <2>1 DEF InvalidCommand, netVars, clientVars
    <3> QED  BY <1>3, <3>1
  <2> QED  BY <1>8, <1>10, <1>11, <1>12, <1>13, <2>1
       DEF User, ConnectFails, PacketFaults, Interrupted
<1>14. CASE HangUp
  <2>1. UNCHANGED <<phase, clientHandle, toServer>>
    BY <1>14 DEF HangUp, StdinHangsUp, clientVars
  <2> QED  BY <1>3, <2>1
<1> QED  BY <1>4, <1>7, <1>9, <1>13, <1>14 DEF Next, Finished

\* The pairs, by position; a client has one at most, and so has a handle, and
\* there are no more of them than entries.
LEMMA HoldsAre ==
  ASSUME Typed, TableSound
  PROVE  /\ Holds = {<<peer[table[i].socket], clientHandle[peer[table[i].socket]]>> :
                       i \in 1 .. Len(table)}
         /\ Cardinality(Holds) \in Nat /\ Cardinality(Holds) <= Len(table)
<1> DEFINE pair(i) == <<peer[table[i].socket], clientHandle[peer[table[i].socket]]>>
           f == [i \in 1 .. Len(table) |-> pair(i)]
<1>1. Len(table) \in Nat /\ DOMAIN table = 1 .. Len(table)  BY EntriesLead
<1>2. Holds = {pair(i) : i \in 1 .. Len(table)}  BY <1>1 DEF Holds, ToSet
<1>3. f \in Surjection(1 .. Len(table), Holds)
  <2> HIDE DEF pair
  <2> QED  BY <1>2 DEF Surjection
<1>4. ExistsSurjection(1 .. Len(table), Holds)
  <2> HIDE DEF f
  <2> QED  BY <1>3 DEF ExistsSurjection
<1>5. Cardinality(Holds) <= Len(table)  BY <1>1, <1>4, FS_SurjCardinalityBound
<1>6. Cardinality(Holds) \in Nat
  <2>1. IsFiniteSet(1 .. Len(table))  BY <1>1, FS_Interval
  <2>2. IsFiniteSet(Holds)
    <3> HIDE DEF f
    <3> QED  BY <1>3, <2>1, FS_Surjection
  <2> QED  BY <2>2, FS_CardinalityType
<1> QED  BY <1>2, <1>5, <1>6

\* The pairs depend on the table, its descriptors and what their clients are called.
LEMMA HoldsStay ==
  ASSUME Typed, TableSound, UNCHANGED <<table, peer>>,
         \A i \in 1 .. Len(table) :
           clientHandle'[peer[table[i].socket]] = clientHandle[peer[table[i].socket]]
  PROVE  Holds' = Holds
<1>1. DOMAIN table = 1 .. Len(table)  BY EntriesLead
<1>2. \A e \in ToSet(table) : clientHandle'[peer[e.socket]] = clientHandle[peer[e.socket]]
  BY <1>1 DEF ToSet
<1>3. Holds' = {<<peer[e.socket], clientHandle'[peer[e.socket]]>> : e \in ToSet(table)}
  BY DEF Holds, ToSet
<1> QED  BY <1>2, <1>3 DEF Holds

\* An answer to a client only brings the server down if the client has ended.
LEMMA OneAnswer ==
  ASSUME NEW fd \in Fds, peer[fd] \in Clients, NEW pdu, pdu # << >>, SendAll(<<Send(fd, pdu)>>)
  PROVE  serverUp' \in {TRUE, peer[fd] \notin gone}
<1> DEFINE sends == <<Send(fd, pdu)>>
<1>1. Len(sends) = 1 /\ sends[1].fd = fd /\ sends[1].pdu # << >>  BY DEF Send
<1>2. SendAll(sends)  OBVIOUS
<1> HIDE DEF sends
<1>3. PICK k \in 0 .. Len(sends) :
        /\ k < Len(sends) => MayKill(sends, k + 1)
        /\ serverUp' = (k = Len(sends))
  BY <1>2 DEF SendAll
<1>4. CASE k = 1
  <2>1. serverUp' = TRUE  BY <1>1, <1>3, <1>4, Zenon
  <2> QED  BY <2>1
<1>5. CASE k = 0
  <2>1. k < Len(sends) /\ k + 1 = 1 /\ ~ (k = Len(sends))  BY <1>1, <1>5
  <2>2. MayKill(sends, 1) /\ serverUp' = FALSE  BY <1>3, <2>1, Zenon
  <2>3. peer[fd] \in gone  BY <1>1, <2>2, NetAssumption DEF MayKill, Faults
  <2> QED  BY <2>2, <2>3
<1>6. k = 0 \/ k = 1  BY <1>1
<1> QED  BY <1>4, <1>5, <1>6

\* Register: a client that has no handle gets the one it asked for, which nobody has
\* unless it has the greatest length.  If the answer brings the server down, the client
\* has ended.
LEMMA RegisterMaps ==
  ASSUME IInv, Chosen, NEW fd \in Fds, Polled(fd), toServer[peer[fd]] # << >>,
         NEW m, m = Head(toServer[peer[fd]]), Register(fd, m), UNCHANGED clientVars,
         NEW c \in Clients, c = peer[fd]
  PROVE  Registration!Register(c)
<1> DEFINE h == clientHandle[c]
<1>1. Typed /\ TableSound  BY DEF IInv
<1>2. serverUp /\ h \in Bytes /\ ~Registered(c) /\ SrcHandle(m) = h
  BY Served DEF Register
<1>3. h \in Names[c]  BY DEF Chosen
<1>4. /\ ~AddRefused(table, h) /\ table' = AddHandle(table, h, fd)
      /\ SendAll(<<Send(fd, <<2>>)>>) /\ UNCHANGED <<peer, gone, clientHandle, oversize>>
  BY <1>2 DEF Register, Dispatch, clientVars, historyVars
<1>13. clientHandle[c] = h  OBVIOUS
<1> HIDE DEF h
<1> DEFINE s == Stored(h, fd)
<1>5. /\ table \in Seq(EntryType) /\ Len(table) \in Nat /\ DOMAIN table = 1 .. Len(table)
      /\ Len(table) <= MaxHandles
  BY <1>1, EntriesLead DEF Typed
<1>6. /\ table' \in Seq(EntryType) /\ Len(table') = Len(table) + 1
      /\ table'[1] = Entry(s, fd)
      /\ \A i \in 1 .. Len(table) : table'[i + 1] = table[i]
  BY <1>2, <1>4, <1>5, AddSound
<1>14. Entry(s, fd).socket = fd  BY DEF Entry
<1> HIDE DEF s
<1>7. ToSet(table') = ToSet(table) \cup {Entry(s, fd)}
  <2>1. DOMAIN table' = 1 .. Len(table) + 1  BY <1>6, LenProperties
  <2>2. ASSUME NEW j \in 1 .. Len(table) + 1
        PROVE  j = 1 \/ (j - 1 \in 1 .. Len(table) /\ table'[j] = table[j - 1])
    <3>1. j # 1 => j - 1 \in 1 .. Len(table) /\ (j - 1) + 1 = j  BY <1>5
    <3> QED  BY <1>6, <3>1
  <2>3. ToSet(table') \subseteq ToSet(table) \cup {Entry(s, fd)}
    <3> SUFFICES ASSUME NEW j \in 1 .. Len(table) + 1
                 PROVE  table'[j] \in ToSet(table) \cup {Entry(s, fd)}
      BY <2>1 DEF ToSet
    <3>1. CASE j = 1  BY <1>6, <3>1
    <3>2. CASE j # 1
      <4>1. j - 1 \in DOMAIN table /\ table'[j] = table[j - 1]  BY <1>5, <2>2, <3>2
      <4> QED  BY <4>1 DEF ToSet
    <3> QED  BY <3>1, <3>2
  <2>4. \A i \in 1 .. Len(table) : i + 1 \in 1 .. Len(table) + 1  BY <1>5
  <2>5. 1 \in 1 .. Len(table) + 1  BY <1>5
  <2>6. ToSet(table) \cup {Entry(s, fd)} \subseteq ToSet(table')
    BY <1>5, <1>6, <2>1, <2>4, <2>5 DEF ToSet
  <2> QED  BY <2>3, <2>6
<1>8. Holds' = Holds \cup {<<c, h>>}
  <2>1. Holds' = {<<peer[e.socket], clientHandle[peer[e.socket]]>> : e \in ToSet(table')}
    BY <1>4 DEF Holds
  <2>2. peer[Entry(s, fd).socket] = c /\ clientHandle[peer[Entry(s, fd).socket]] = h
    BY <1>13, <1>14
  <2> QED  BY <1>7, <2>1, <2>2 DEF Holds
<1>9. Cardinality(Holds) < MaxHandles
  <2>1. Len(table) < MaxHandles  BY <1>4, <1>5, MaxHandlesAssumption DEF AddRefused
  <2>2. Cardinality(Holds) \in Nat /\ Cardinality(Holds) <= Len(table)
    BY <1>1, HoldsAre
  <2> QED  BY <1>5, <2>1, <2>2, MaxHandlesAssumption
<1>15. Holds = {<<peer[table[i].socket], clientHandle[peer[table[i].socket]]>> :
                  i \in 1 .. Len(table)}
  BY <1>1, HoldsAre
<1>10. \A p \in Holds : p[1] # c
  <2>1. \A i \in 1 .. Len(table) : peer[table[i].socket] # c  BY <1>2 DEF Registered
  <2> QED  BY <1>15, <2>1
\* The entry of a shorter handle holds the handle itself.
<1>16. Len(h) < MAX_HANDLE_LENGTH => \A p \in Holds : p[2] # h
  <2> SUFFICES ASSUME Len(h) < MAX_HANDLE_LENGTH, NEW i \in 1 .. Len(table),
                      clientHandle[peer[table[i].socket]] = h
               PROVE  FALSE
    BY <1>15
  <2>1. table[i].socket \in Fds /\ table[i].handle = Stored(h, table[i].socket)
    BY <1>1, EntriesLead
  <2>2. table[i].handle = h  BY <1>2, <2>1, StoredRead
  <2> QED  BY <1>4, <1>5, <2>2 DEF AddRefused, InUse
<1>12. Cardinality(Holds) = Registration!Cardinality(Holds)
  BY DEF Cardinality, Registration!Cardinality
<1>11. serverUp' \in {TRUE, c \notin gone \cup oversize}
  <2>1. serverUp' \in {TRUE, c \notin gone}
    <3>1. << 2 >> # << >>  OBVIOUS
    <3> QED  BY <1>4, <3>1, OneAnswer
  <2>2. serverUp' \in BOOLEAN  BY <2>1
  <2>3. CASE c \in gone \/ c \notin oversize  BY <2>1, <2>3
  <2>4. CASE c \notin gone  BY <2>1, <2>4
  <2> QED  BY <2>3, <2>4
<1>17. h \in {x \in UNION {Names[y] : y \in Clients} : Len(x) < MAX_HANDLE_LENGTH}
         => \A p \in Holds : p[2] # h
  BY <1>16
<1> QED  BY <1>2, <1>3, <1>4, <1>8, <1>9, <1>10, <1>11, <1>12, <1>17
     DEF Registration!Register, Holds

\* A client that is dropped gives its handle back, if it has one, and nobody
\* else does.
LEMMA DropMaps ==
  ASSUME Typed, Connections, TableSound, NEW fd \in Fds, NEW c \in Clients, peer[fd] = c,
         CleanupClient(fd), UNCHANGED clientHandle
  PROVE  Holds' = {p \in Holds : p[1] # c}
<1> DEFINE pair(i) == <<peer[table[i].socket], clientHandle[peer[table[i].socket]]>>
<1>1. /\ table \in Seq(EntryType) /\ DOMAIN table = 1 .. Len(table) /\ OneToOne(table)
      /\ \A i \in 1 .. Len(table) : table[i].socket \in Fds /\ peer[table[i].socket] # Nobody
  BY EntriesLead DEF Typed
<1>2. table' = RemoveHandle(table, fd) /\ peer' = [peer EXCEPT ![fd] = Nobody]
  BY DEF CleanupClient
<1>3. /\ \A j \in DOMAIN table' : \E i \in DOMAIN table : table'[j] = table[i] /\ table[i].socket # fd
      /\ \A i \in DOMAIN table : table[i].socket # fd => \E j \in DOMAIN table' : table'[j] = table[i]
  <2> DEFINE r == RemoveHandle(table, fd)
  <2>1. /\ \A j \in DOMAIN r : \E i \in DOMAIN table : r[j] = table[i] /\ table[i].socket # fd
        /\ \A i \in DOMAIN table : table[i].socket # fd => \E j \in DOMAIN r : r[j] = table[i]
    <3>1. table \in Seq(EntryType) /\ OneToOne(table)  BY <1>1
    <3> QED  BY <3>1, RemoveExact
  <2>2. table' = r  BY <1>2
  <2> HIDE DEF r
  <2> QED  BY <2>1, <2>2
<1>4. ASSUME NEW i \in DOMAIN table
      PROVE  /\ table[i].socket # fd <=> peer[table[i].socket] # c
             /\ table[i].socket # fd => peer'[table[i].socket] = peer[table[i].socket]
  <2>1. table[i].socket \in Fds /\ peer[table[i].socket] # Nobody  BY <1>1
  <2>2. peer[table[i].socket] = c => table[i].socket = fd  BY <2>1 DEF Connections
  <2>3. table[i].socket # fd => peer'[table[i].socket] = peer[table[i].socket]
    BY <1>2, <2>1 DEF Typed
  <2> QED  BY <2>2, <2>3
<1>5. ASSUME NEW p \in Holds' PROVE p \in Holds /\ p[1] # c
  <2>1. PICK j \in DOMAIN table' : p = <<peer'[table'[j].socket], clientHandle[peer'[table'[j].socket]]>>
    BY DEF Holds, ToSet
  <2>2. PICK i \in DOMAIN table : table'[j] = table[i] /\ table[i].socket # fd  BY <1>3
  <2>3. p = pair(i) /\ peer[table[i].socket] # c  BY <1>4, <2>1, <2>2
  <2> QED  BY <2>3 DEF Holds, ToSet
<1>6. ASSUME NEW p \in Holds, p[1] # c PROVE p \in Holds'
  <2>1. PICK i \in DOMAIN table : p = pair(i)  BY DEF Holds, ToSet
  <2>2. table[i].socket # fd  BY <1>4, <1>6, <2>1
  <2>3. PICK j \in DOMAIN table' : table'[j] = table[i]  BY <1>3, <2>2
  <2>4. p = <<peer'[table'[j].socket], clientHandle[peer'[table'[j].socket]]>>  BY <1>4, <2>1, <2>2, <2>3
  <2> QED  BY <2>4 DEF Holds, ToSet
<1> QED  BY <1>5, <1>6

\* A step that leaves the table and its descriptors alone, and ends at most the
\* server's life, is no step of the registry or its Die.
LEMMA ServesMaps ==
  ASSUME Typed, Typed', Holds' = Holds, UNCHANGED <<gone, oversize>>, serverUp
  PROVE  [Registration!Next]_(Registration!vars)
<1>1. CASE serverUp'
  <2>1. UNCHANGED serverUp  BY <1>1
  <2> QED  BY <2>1 DEF Registration!vars, Holds
<1>2. CASE ~serverUp'
  <2>1. serverUp' = FALSE  BY <1>2 DEF Typed
  <2>2. Registration!Die  BY <2>1 DEF Registration!Die, Holds
  <2> QED  BY <2>2 DEF Registration!Next
<1> QED  BY <1>1, <1>2

\* A client that has left is dropped: its handle, if it has one, is free again.
LEMMA ReleaseMaps ==
  ASSUME Typed, Typed', Connections, TableSound, NEW fd \in Fds, NEW c \in Clients,
         peer[fd] = c, c \in gone \cup oversize, CleanupClient(fd), serverUp,
         UNCHANGED <<serverUp, gone, clientHandle, oversize>>
  PROVE  [Registration!Next]_(Registration!vars)
<1>1. Holds' = {p \in Holds : p[1] # c}  BY DropMaps
<1>2. CASE \E p \in Holds : p[1] = c
  <2>1. Registration!Release(c)  BY <1>1, <1>2 DEF Registration!Release, Holds
  <2> QED  BY <2>1 DEF Registration!Next
<1>3. CASE ~ \E p \in Holds : p[1] = c
  <2>1. Holds' = Holds  BY <1>1, <1>3
  <2> QED  BY <2>1, ServesMaps
<1> QED  BY <1>2, <1>3

\* One turn of the server's loop: a registration, a release, or nothing but the
\* server's end.
LEMMA ServerMaps ==
  ASSUME IInv, IInv', Chosen, Server
  PROVE  [Registration!Next]_(Registration!vars)
<1>1. Typed /\ Connections /\ TableSound /\ Typed'  BY DEF IInv
<1>5. UNCHANGED clientVars /\ UNCHANGED <<clientHandle, oversize>>
  BY DEF Server, clientVars, historyVars
<1>2. CASE AddNewSocket
  <2>1. /\ serverUp /\ UNCHANGED <<gone, table>>
        /\ peer' = [peer EXCEPT ![TcpAccept] = Head(backlog)]
    BY <1>2 DEF AddNewSocket
  <2>2. peer[TcpAccept] = Nobody
    <3>1. backlog \in Seq(Clients) /\ backlog # << >>  BY <1>1, <1>2 DEF Typed, AddNewSocket
    <3>2. Len(backlog) \in Nat \ {0} /\ Head(backlog) = backlog[1]  BY <3>1, EmptySeq, LenProperties
    <3>3. 1 \in 1 .. Len(backlog)  BY <3>2
    <3>4. backlog[1] \in Clients /\ \A fd \in Fds : peer[fd] # backlog[1]
      BY <1>1, <3>1, <3>3, ElementOfSeq DEF Connections
    <3>5. peer \in [Fds -> Clients \cup {Nobody}]  BY <1>1 DEF Typed
    <3>6. \A f, g \in Fds : peer[f] = peer[g] /\ peer[f] # Nobody => f = g
      BY <1>1 DEF Connections
    <3> QED  BY <3>4, <3>5, <3>6, AcceptFinds
  <2>3. \A e \in ToSet(table) : peer'[e.socket] = peer[e.socket]
    <3>1. \A i \in 1 .. Len(table) : table[i].socket \in Fds /\ peer[table[i].socket] # Nobody
      BY <1>1, EntriesLead
    <3>2. \A e \in ToSet(table) : e.socket \in Fds /\ e.socket # TcpAccept
      BY <1>1, <2>2, <3>1, EntriesLead DEF ToSet
    <3> QED  BY <1>1, <2>1, <3>2 DEF Typed
  <2>4. Holds' = Holds
    <3>1. ToSet(table)' = ToSet(table)  BY <2>1
    <3> QED  BY <1>5, <2>3, <3>1 DEF Holds
  <2> QED  BY <1>1, <1>5, <2>1, <2>4, ServesMaps
<1>3. ASSUME NEW fd \in Fds, Disconnected(fd)
      PROVE  [Registration!Next]_(Registration!vars)
  <2>1. /\ Polled(fd) /\ toServer[peer[fd]] = << >> /\ CleanupClient(fd)
        /\ UNCHANGED <<serverUp, gone>>
    BY <1>3 DEF Disconnected
  <2>2. PICK c \in Clients : c = peer[fd]  BY <1>1, <2>1, PolledPeer
  <2>3. serverUp /\ c \in gone  BY <2>1, <2>2 DEF Polled, Ready
  <2> QED  BY <1>1, <1>5, <2>1, <2>2, <2>3, ReleaseMaps
<1>6. ASSUME NEW fd \in Fds, ReceiveError(fd)
      PROVE  [Registration!Next]_(Registration!vars)
  <2>1. /\ Polled(fd) /\ CleanupClient(fd) /\ UNCHANGED <<serverUp, gone>>
    BY <1>6 DEF ReceiveError
  <2>2. PICK c \in Clients : c = peer[fd]  BY <1>1, <2>1, PolledPeer
  <2>3. serverUp /\ c \in oversize  BY <1>5, <1>6, <2>1, <2>2, ReceiveErrorStep DEF Polled
  <2> QED  BY <1>1, <1>5, <2>1, <2>2, <2>3, ReleaseMaps
<1>4. ASSUME NEW fd \in Fds, ProcessClient(fd)
      PROVE  [Registration!Next]_(Registration!vars)
  <2>1. Polled(fd) /\ toServer[peer[fd]] # << >>  BY <1>4 DEF ProcessClient
  <2>2. PICK c \in Clients : c = peer[fd]  BY <1>1, <2>1, PolledPeer
  <2>3. PICK m \in {Head(toServer[peer[fd]])} :
          \/ Register(fd, m) \/ Refuse(fd, m)
          \/ Broadcast(fd, m) \/ Message(fd, m) \/ Multicast(fd, m)
          \/ ListHandles(fd, m)
    BY <1>4 DEF ProcessClient
  <2>4. serverUp  BY <2>1 DEF Polled
  <2>5. CASE Register(fd, m)
    <3>1. m = Head(toServer[peer[fd]])  OBVIOUS
    <3>2. Registration!Register(c)  BY <1>5, <2>1, <2>2, <2>5, <3>1, RegisterMaps
    <3> QED  BY <3>2 DEF Registration!Next
  <2>6. CASE Refuse(fd, m)
    <3>1. CleanupClient(fd) /\ UNCHANGED gone /\ FlagOf(m) = 1  BY <2>6 DEF Refuse
    <3>2. ~Registered(c)  BY <2>1, <2>2, <3>1, Served
    <3>3. Holds' = {p \in Holds : p[1] # c}  BY <1>1, <1>5, <2>2, <3>1, DropMaps
    <3>4. \A p \in Holds : p[1] # c  BY <1>1, <3>2, HoldsAre DEF Registered
    <3>5. Holds' = Holds  BY <3>3, <3>4
    <3> QED  BY <1>1, <1>5, <2>4, <3>1, <3>5, ServesMaps
  <2>7. CASE Broadcast(fd, m) \/ Message(fd, m) \/ Multicast(fd, m) \/ ListHandles(fd, m)
    <3>1. UNCHANGED <<table, peer, gone>>
      BY <2>7 DEF Broadcast, Message, Multicast, ListHandles, Dispatch
    <3>2. Holds' = Holds  BY <1>1, <1>5, <3>1, HoldsStay
    <3> QED  BY <1>1, <1>5, <2>4, <3>1, <3>2, ServesMaps
  <2> QED  BY <2>3, <2>5, <2>6, <2>7
<1> QED  BY <1>2, <1>3, <1>4, <1>6 DEF Server, ServerTurn

\* A client that ends leaves, and so does one that sends what the server cannot
\* receive; nothing else a client does concerns the registry.
LEMMA ClientMaps ==
  ASSUME IInv, NEW c \in Clients, Client(c) \/ User(c)
  PROVE  [Registration!Next]_(Registration!vars)
<1>1. UNCHANGED table /\ Typed /\ TableSound
  BY DEF Client, User, serverVars, IInv
<1>2. ASSUME Holds' = Holds, UNCHANGED <<serverUp, gone, oversize>>
      PROVE  [Registration!Next]_(Registration!vars)
  BY <1>2 DEF Registration!vars, Holds
<1>3. ASSUME (gone \cup oversize)' = gone \cup oversize \cup {c}, UNCHANGED serverUp,
             Holds' = Holds
      PROVE  [Registration!Next]_(Registration!vars)
  <2>1. CASE c \in gone \cup oversize
    <3>1. UNCHANGED (gone \cup oversize)  BY <1>3, <2>1
    <3> QED  BY <1>3, <3>1 DEF Registration!vars, Holds
  <2>2. CASE c \notin gone \cup oversize
    <3>1. Registration!Leave(c)  BY <1>3, <2>2 DEF Registration!Leave, Holds
    <3> QED  BY <3>1 DEF Registration!Next
  <2> QED  BY <2>1, <2>2
<1>4. CASE Stop(c) \/ HandleTooLong(c)
  <2>1. /\ gone' = gone \cup {c}
        /\ UNCHANGED <<serverUp, peer, clientHandle, oversize>>
    BY <1>4 DEF Stop, HandleTooLong, Exit, historyVars
  <2>2. Holds' = Holds  BY <1>1, <2>1, HoldsStay
  <2> QED  BY <1>3, <2>1, <2>2
<1>5. CASE Start(c)
  <2>1. /\ phase[c] = "new" /\ TcpClientSetup(c)
        /\ UNCHANGED <<serverUp, gone, peer, oversize>>
    BY <1>5 DEF Start, historyVars
  <2>2. \A fd \in Fds : peer[fd] # c  BY <2>1, SetupQueues
  <2>3. PICK handle \in Names[c] :
          /\ Len(handle) <= MAX_HANDLE_LENGTH
          /\ clientHandle' = [clientHandle EXCEPT ![c] = handle]
          /\ toServer' = [toServer EXCEPT ![c] = <<(<<1>> \o HandleField(handle))>>]
    BY <1>5 DEF Start
  <2>4. \A x \in Clients : x # c => clientHandle'[x] = clientHandle[x]
    BY <1>1, <2>3 DEF Typed
  <2>5. \A i \in 1 .. Len(table) :
          clientHandle'[peer[table[i].socket]] = clientHandle[peer[table[i].socket]]
    BY <1>1, <2>2, <2>4, EntriesLead
  <2>6. Holds' = Holds  BY <1>1, <2>1, <2>5, HoldsStay
  <2> QED  BY <1>2, <2>1, <2>6
<1>6. CASE ProcessStdin(c)
  <2>1. UNCHANGED <<serverUp, gone, peer, clientHandle>>  BY <1>6 DEF ProcessStdin
  <2>2. oversize' = oversize \/ oversize' = oversize \cup {c}  BY <1>6 DEF ProcessStdin
  <2>3. Holds' = Holds  BY <1>1, <2>1, HoldsStay
  <2>4. CASE oversize' = oversize  BY <1>2, <2>1, <2>3, <2>4
  <2>5. CASE oversize' = oversize \cup {c}  BY <1>3, <2>1, <2>3, <2>5
  <2> QED  BY <2>2, <2>4, <2>5
<1>7. CASE ProcessMsgFromServer(c) \/ InvalidCommand(c)
  <2>1. UNCHANGED <<serverUp, gone, peer, clientHandle, oversize>>
    BY <1>7 DEF ProcessMsgFromServer, Take, InvalidCommand, netVars, clientVars, historyVars
  <2>2. Holds' = Holds  BY <1>1, <2>1, HoldsStay
  <2> QED  BY <1>2, <2>1, <2>2
<1> QED  BY <1>4, <1>5, <1>6, <1>7
     DEF Client, ClientTurn, ServerTerminated, ListCutShort, ListedTooLong,
         User, ConnectFails, PacketFaults, Interrupted

\* The handle table with the descriptors implements the registry: a handle goes to
\* a client that asked for it, while there is room and, unless it has the greatest
\* length, nobody has it; it is free again only after its client has ended or has sent
\* what the server cannot receive.
THEOREM HandlesRegistered == Spec => ImplementsRegistry
<1>1. Init => Registration!Init /\ Chosen
  <2> SUFFICES ASSUME Init PROVE Registration!Init /\ Chosen
    OBVIOUS
  <2>1. /\ table = << >> /\ gone = {} /\ oversize = {} /\ serverUp = TRUE
        /\ toServer = [c \in Clients |-> << >>] /\ phase = [c \in Clients |-> "new"]
    BY DEF Init, NetInit, ServerInit, ClientInit
  <2>2. ToSet(table) = {}  BY <2>1 DEF ToSet
  <2> QED  BY <2>1, <2>2 DEF Registration!Init, Chosen
<1>2. IInv /\ IInv' /\ Chosen /\ [Next]_vars => [Registration!Next]_(Registration!vars)
  <2> SUFFICES ASSUME IInv, IInv', Chosen, [Next]_vars
               PROVE  [Registration!Next]_(Registration!vars)
    OBVIOUS
  <2>5. Typed /\ TableSound /\ Typed'  BY DEF IInv
  <2>1. CASE Server  BY <2>1, ServerMaps
  <2>2. ASSUME NEW c \in Clients, Client(c) \/ User(c)
        PROVE  [Registration!Next]_(Registration!vars)
    BY <2>2, ClientMaps
  <2>3. CASE UNCHANGED vars
    <3>1. UNCHANGED <<table, peer, serverUp, gone, clientHandle, oversize>>
      BY <2>3 DEF vars, netVars, serverVars, clientVars, historyVars
    <3>2. Holds' = Holds  BY <2>5, <3>1, HoldsStay
    <3> QED  BY <3>1, <3>2 DEF Registration!vars, Holds
  <2>4. CASE HangUp
    <3>1. /\ serverUp /\ UNCHANGED <<table, peer, gone, clientHandle, oversize>>
      BY <2>4 DEF HangUp, StdinHangsUp, serverVars, clientVars, historyVars
    <3>2. Holds' = Holds  BY <2>5, <3>1, HoldsStay
    <3> QED  BY <2>5, <3>1, <3>2, ServesMaps
  <2> QED  BY <2>1, <2>2, <2>3, <2>4 DEF Next, Finished
<1>3. Spec => []Chosen
  BY <1>1, ChosenKept, Inductive, PTL DEF Spec
<1> QED  BY <1>1, <1>2, <1>3, Inductive, PTL DEF Spec, ImplementsRegistry, Registration!Spec
=============================================================================
