--------------------------- MODULE ChecksumProofs ---------------------------
(***************************************************************************)
(* The two programs that rest on in_cksum.  The UDP lab, for any number of *)
(* clients, any set-ups, lines and dice: in_cksum notices every byte       *)
(* errorFlipBits flips, two programs on the same dice undo each other's    *)
(* flips, a drop list takes exactly what it names, and a client that waits *)
(* for nothing has lost a datagram.  The packet trace, for any capture     *)
(* files: its verdicts tell exactly which packets were damaged, and its    *)
(* ports are those that were sent.                                         *)
(***************************************************************************)
EXTENDS UdpEcho, Trace, FiniteSetTheorems, SequenceTheorems, WellFoundedInduction, TLAPS

Bytes == Seq(ByteValue)

-----------------------------------------------------------------------------
(***************************************************************************)
(* What FoldLeft adds up                                                   *)
(***************************************************************************)

\* p[k] is the sum of the first k elements of q, for k up to n.
IsSums(p, n, q) ==
  /\ p \in [0 .. n -> Nat]
  /\ p[0] = 0
  /\ \A k \in 1 .. n : p[k] = p[k - 1] + q[k]

\* g adds up q over every set of positions up to m.
IsAdder(g, m, q) ==
  g = [s \in SUBSET (1 .. m) |-> IF s = {} THEN 0
                                 ELSE LET x == Max(s) IN g[s \ {x}] + q[x]]

\* Induction over an interval, for a set given by its elements: of the
\* intervals that end outside the set one would be minimal.
LEMMA IntervalInduction ==
  ASSUME NEW n \in Nat, NEW S, 0 \in S,
         \A k \in 1 .. n : k - 1 \in S => k \in S
  PROVE  0 .. n \subseteq S
<1> SUFFICES ASSUME NEW b \in 0 .. n, b \notin S PROVE FALSE
  OBVIOUS
<1> DEFINE T == {0 .. m : m \in {k \in 0 .. n : k \notin S}}
<1>1. T \subseteq FiniteSubsetsOf(Nat)
  <2> SUFFICES ASSUME NEW m \in 0 .. n PROVE 0 .. m \in FiniteSubsetsOf(Nat)
    OBVIOUS
  <2>1. IsFiniteSet(0 .. m)
    <3>1. 0 \in Int /\ m \in Int  OBVIOUS
    <3> QED  BY <3>1, FS_Interval
  <2>2. 0 .. m \in SUBSET Nat  BY SMT
  <2> QED  BY <2>1, <2>2 DEF FiniteSubsetsOf
<1>2. T # {}  OBVIOUS
<1>3. PICK x \in T : \A y \in T : ~ (<<y, x>> \in StrictSubsetOrdering(Nat))
  <2> HIDE DEF T
  <2> QED  BY <1>1, <1>2, WFMin, FS_StrictSubsetOrderingWellFounded
<1>4. PICK m \in 0 .. n : m \notin S /\ x = 0 .. m  BY <1>3
<1>5. m \in 1 .. n  BY <1>4
<1>6. m - 1 \in 0 .. n /\ m - 1 \notin S  BY <1>4, <1>5
<1>7. 0 .. m - 1 \in T  BY <1>6
<1>8. <<0 .. m - 1, 0 .. m>> \in StrictSubsetOrdering(Nat)
  <2>1. 0 .. m - 1 \subseteq 0 .. m /\ 0 .. m \subseteq Nat  BY <1>5
  <2>2. m \in 0 .. m /\ m \notin 0 .. m - 1  BY <1>5
  <2> QED  BY <2>1, <2>2 DEF StrictSubsetOrdering
<1> QED  BY <1>3, <1>4, <1>7, <1>8

\* The greatest position of a set of positions up to m that has m.
LEMMA TopPosition ==
  ASSUME NEW m \in Nat, NEW s \in SUBSET (1 .. m), m \in s
  PROVE  Max(s) = m
<1>1. \A y \in s : m >= y  OBVIOUS
<1>2. \E x \in s : \A y \in s : x >= y  BY <1>1
<1>3. Max(s) \in s /\ \A y \in s : Max(s) >= y  BY <1>2 DEF Max
<1>4. Max(s) >= m /\ m >= Max(s) /\ Max(s) \in 1 .. m
  <2> HIDE DEF Max
  <2> QED  BY <1>1, <1>3
<1>5. \A x \in 1 .. m : x >= m /\ m >= x => x = m  OBVIOUS
<1> QED  BY <1>4, <1>5

\* The function that FoldLeft folds with is there.
LEMMA AdderExists ==
  ASSUME NEW q, NEW n \in Nat
  PROVE  \E g : IsAdder(g, n, q)
<1> DEFINE S == {m \in 0 .. n : \E g : IsAdder(g, m, q)}
<1>1. 0 \in S
  <2>1. SUBSET (1 .. 0) = {{}}
    <3>1. 1 .. 0 = {}  OBVIOUS
    <3> QED  BY <3>1
  <2>2. IsAdder([s \in {{}} |-> 0], 0, q)  BY <2>1 DEF IsAdder
  <2> QED  BY <2>2
<1>2. ASSUME NEW m \in 1 .. n, m - 1 \in S PROVE m \in S
  <2>1. PICK g : IsAdder(g, m - 1, q)  BY <1>2
  <2> DEFINE h == [s \in SUBSET (1 .. m) |->
                     IF m \in s THEN g[s \ {m}] + q[m] ELSE g[s]]
             Rest(s) == IF s = {} THEN 0 ELSE LET x == Max(s) IN h[s \ {x}] + q[x]
  <2>2. ASSUME NEW s \in SUBSET (1 .. m) PROVE h[s] = Rest(s)
    <3>1. CASE m \in s
      <4>1. Max(s) = m  BY <3>1, TopPosition
      <4>2. s \ {m} \in SUBSET (1 .. m) /\ m \notin s \ {m} /\ s # {}  BY <3>1
      <4>3. h[s \ {m}] = g[s \ {m}] /\ h[s] = g[s \ {m}] + q[m]  BY <3>1, <4>2
      <4> HIDE DEF h
      <4> QED  BY <4>1, <4>2, <4>3
    <3>2. CASE m \notin s
      <4>1. s \in SUBSET (1 .. m - 1)  BY <3>2
      <4>2. g[s] = IF s = {} THEN 0 ELSE LET x == Max(s) IN g[s \ {x}] + q[x]
        BY <2>1, <4>1 DEF IsAdder
      <4>3. \A x : s \ {x} \in SUBSET (1 .. m) /\ m \notin s \ {x}  BY <3>2
      <4>4. h[s] = g[s] /\ \A x : h[s \ {x}] = g[s \ {x}]  BY <3>2, <4>3
      <4> HIDE DEF h
      <4> QED  BY <4>2, <4>4
    <3> QED  BY <3>1, <3>2
  <2>3. h = [s \in SUBSET (1 .. m) |-> Rest(s)]
    <3>1. h = [s \in SUBSET (1 .. m) |-> h[s]]  OBVIOUS
    <3> HIDE DEF h, Rest
    <3> QED  BY <2>2, <3>1, Zenon
  <2>4. IsAdder(h, m, q)
    <3> HIDE DEF h
    <3> QED  BY <2>3 DEF IsAdder
  <2>5. m \in 0 .. n  OBVIOUS
  <2> QED  BY <2>4, <2>5
<1>3. n \in S
  <2> HIDE DEF S
  <2>1. 0 .. n \subseteq S  BY <1>1, <1>2, IntervalInduction
  <2> QED  BY <2>1
<1> QED  BY <1>3

\* FoldLeft adds up the elements of a sequence from the first to the last.
LEMMA FoldSums ==
  ASSUME NEW q \in Seq(Nat)
  PROVE  \E p : /\ IsSums(p, Len(q), q)
                /\ FoldLeft(LAMBDA sum, w : sum + w, 0, q) = p[Len(q)]
<1> DEFINE n == Len(q)
           R(h) == h = [s \in SUBSET DOMAIN q |->
                          IF s = {} THEN 0 ELSE LET x == Max(s) IN h[s \ {x}] + q[x]]
           g == CHOOSE h : R(h)
           p == [k \in 0 .. n |-> g[1 .. k]]
<1>1. n \in Nat /\ DOMAIN q = 1 .. n /\ \A k \in 1 .. n : q[k] \in Nat
  BY LenProperties, ElementOfSeq
<1>2. FoldLeft(LAMBDA sum, w : sum + w, 0, q) = g[DOMAIN q]
  BY DEF FoldLeft, MapThenFoldSet
<1>3. R(g)
  <2>1. \E h : R(h)
    <3>1. PICK h : IsAdder(h, n, q)
      <4> HIDE DEF n
      <4> QED  BY <1>1, AdderExists
    <3>2. R(h)  BY <1>1, <3>1 DEF IsAdder
    <3> QED  BY <3>2
  <2> HIDE DEF R
  <2> QED  BY <2>1
<1>4. IsAdder(g, n, q)
  <2> HIDE DEF g
  <2> QED  BY <1>1, <1>3 DEF IsAdder
<1> HIDE DEF g, n
<1>5. p[0] = 0
  <2>1. 1 .. 0 = {} /\ 0 \in 0 .. n /\ {} \in SUBSET (1 .. n)  BY <1>1
  <2>2. g[{}] = 0  BY <1>4, <2>1 DEF IsAdder
  <2> QED  BY <2>1, <2>2
<1>6. ASSUME NEW k \in 1 .. n PROVE p[k] = p[k - 1] + q[k]
  <2>1. k \in 0 .. n /\ k - 1 \in 0 .. n /\ k \in Nat  BY <1>1
  <2>2. k \in 1 .. k /\ 1 .. k \in SUBSET (1 .. n)  BY <1>1, <2>1
  <2>6. (1 .. k) \ {k} = 1 .. k - 1  BY <2>1
  <2>7. 1 .. k # {}  BY <2>2
  <2>3. Max(1 .. k) = k
    <3>1. 1 .. k \in SUBSET (1 .. k)  OBVIOUS
    <3> QED  BY <2>1, <2>2, <3>1, TopPosition
  <2>4. g[1 .. k] = g[(1 .. k) \ {k}] + q[k]  BY <1>4, <2>2, <2>3, <2>7 DEF IsAdder
  <2>5. p[k] = g[1 .. k] /\ p[k - 1] = g[1 .. k - 1]  BY <2>1
  <2> HIDE DEF p
  <2> QED  BY <2>4, <2>5, <2>6
<1>7. p \in [0 .. n -> Nat]
  <2> DEFINE S == {k \in 0 .. n : p[k] \in Nat}
  <2>1. 0 \in S  BY <1>1, <1>5
  <2>2. ASSUME NEW k \in 1 .. n, k - 1 \in S PROVE k \in S
    <3>1. k \in 0 .. n /\ p[k - 1] \in Nat /\ q[k] \in Nat  BY <1>1, <2>2
    <3>2. p[k] = p[k - 1] + q[k]  BY <1>6
    <3> HIDE DEF p
    <3> QED  BY <3>1, <3>2
  <2>3. 0 .. n \subseteq S
    <3> HIDE DEF S
    <3> QED  BY <1>1, <2>1, <2>2, IntervalInduction
  <2>4. p = [k \in 0 .. n |-> p[k]]  OBVIOUS
  <2> HIDE DEF p
  <2> QED  BY <2>3, <2>4
<1>8. p[n] = g[1 .. n]  BY <1>1
<1> HIDE DEF p
<1> QED  BY <1>1, <1>2, <1>5, <1>6, <1>7, <1>8 DEF IsSums, n

-----------------------------------------------------------------------------
(***************************************************************************)
(* The checksum                                                            *)
(***************************************************************************)

\* The words of n bytes.
WordsIn(n) == (n + 1) \div 2

\* The length, the domain and the bytes of a packet.
LEMMA BytesOf ==
  ASSUME NEW b \in Bytes
  PROVE  /\ Len(b) \in Nat /\ DOMAIN b = 1 .. Len(b)
         /\ \A i \in 1 .. Len(b) : b[i] \in Nat /\ b[i] <= Byte - 1
         /\ WordsIn(Len(b)) \in Nat
<1>1. Byte \in Nat  BY ByteAssumption
<1>2. Len(b) \in Nat /\ DOMAIN b = 1 .. Len(b)  BY LenProperties DEF Bytes
<1>3. ASSUME NEW i \in 1 .. Len(b) PROVE b[i] \in Nat /\ b[i] <= Byte - 1
  <2>1. b[i] \in ByteValue  BY ElementOfSeq DEF Bytes
  <2> QED  BY <1>1, <2>1 DEF ByteValue
<1>4. WordsIn(Len(b)) \in Nat  BY <1>2 DEF WordsIn
<1> QED  BY <1>2, <1>3, <1>4

\* A byte times the number of values, and the size of a word.
LEMMA Sizes ==
  /\ Word \in Nat /\ Word >= 4 /\ Byte \in Nat /\ Byte >= 2
  /\ \A y \in Nat : Byte * y \in Nat /\ (y <= Byte - 1 => Byte * y <= Word - Byte)
<1>1. Byte \in Nat /\ Byte >= 2  BY ByteAssumption
<1>2. Word \in Nat /\ Word >= 4
  <2>1. \A x \in Nat : x >= 2 => x * x \in Nat /\ x * x >= 4
    <3> SUFFICES ASSUME NEW x \in Nat, x >= 2 PROVE x * x \in Nat /\ x * x >= 4
      OBVIOUS
    <3>1. PICK z \in Nat : x = z + 2
      <4>1. x - 2 \in Nat /\ x = (x - 2) + 2  OBVIOUS
      <4> QED  BY <4>1
    <3>2. x * x = z * z + 4 * z + 4 /\ z * z \in Nat  BY <3>1
    <3> QED  BY <3>1, <3>2
  <2> QED  BY <1>1, <2>1 DEF Word
<1>3. ASSUME NEW y \in Nat
      PROVE  Byte * y \in Nat /\ (y <= Byte - 1 => Byte * y <= Word - Byte)
  <2>1. Byte * y \in Nat  BY <1>1
  <2>2. ASSUME y <= Byte - 1 PROVE Byte * y <= Word - Byte
    <3>1. Byte - 1 - y \in Nat  BY <1>1, <2>2
    <3>2. Byte * (Byte - 1 - y) \in Nat  BY <1>1, <3>1
    <3>3. Byte * (Byte - 1 - y) = Byte * Byte - Byte - Byte * y  BY <1>1
    <3>4. Byte * Byte \in Nat  BY <1>1
    <3> QED  BY <1>1, <2>1, <3>2, <3>3, <3>4 DEF Word
  <2> QED  BY <2>1, <2>2
<1> QED  BY <1>1, <1>2, <1>3

\* The words of a packet are words.
LEMMA WordsTyped ==
  ASSUME NEW b \in Bytes
  PROVE  /\ Words(b) \in Seq(Nat) /\ Len(Words(b)) = WordsIn(Len(b))
         /\ \A i \in 1 .. WordsIn(Len(b)) :
              /\ Words(b)[i] = WordAt(b, i)
              /\ WordAt(b, i) \in Nat /\ WordAt(b, i) <= Word - 1
<1> DEFINE n == WordsIn(Len(b))
<1>1. ASSUME NEW i \in 1 .. n
      PROVE  WordAt(b, i) \in Nat /\ WordAt(b, i) <= Word - 1
  <2>1. Len(b) \in Nat /\ i \in Nat /\ i >= 1  BY BytesOf
  <2>2. 2 * i - 1 \in 1 .. Len(b)  BY <2>1 DEF WordsIn
  <2>3. b[2 * i - 1] \in Nat /\ b[2 * i - 1] <= Byte - 1  BY <2>2, BytesOf
  <2>4. CASE 2 * i <= Len(b)
    <3>1. 2 * i \in 1 .. Len(b)  BY <2>1, <2>4
    <3>2. b[2 * i] \in Nat /\ b[2 * i] <= Byte - 1  BY <3>1, BytesOf
    <3>3. Byte * b[2 * i] \in Nat /\ Byte * b[2 * i] <= Word - Byte  BY <3>2, Sizes
    <3>4. WordAt(b, i) = b[2 * i - 1] + Byte * b[2 * i]  BY <2>4 DEF WordAt
    <3> QED  BY <2>3, <3>3, <3>4, Sizes
  <2>5. CASE ~ (2 * i <= Len(b))
    <3>1. WordAt(b, i) = b[2 * i - 1] + 0  BY <2>5 DEF WordAt
    <3>2. Byte - 1 <= Word - 1
      <4>1. Byte * 0 <= Word - Byte /\ Byte * 0 = 0  BY Sizes
      <4> QED  BY <4>1, Sizes
    <3> QED  BY <2>3, <3>1, <3>2, Sizes
  <2> QED  BY <2>4, <2>5
<1>2. Words(b) = [i \in 1 .. n |-> WordAt(b, i)]  BY DEF Words, WordsIn
<1>3. n \in Nat  BY BytesOf
<1>4. Words(b) \in Seq(Nat) /\ Len(Words(b)) = n
  <2> HIDE DEF n
  <2>1. Words(b) \in [1 .. n -> Nat]  BY <1>1, <1>2
  <2> QED  BY <1>3, <2>1, IsASeq, LenProperties
<1>5. \A i \in 1 .. n : Words(b)[i] = WordAt(b, i)  BY <1>2
<1> QED  BY <1>1, <1>4, <1>5

\* The sum of the words, one after the other.
LEMMA TotalSums ==
  ASSUME NEW b \in Bytes
  PROVE  \E p : /\ IsSums(p, WordsIn(Len(b)), Words(b))
                /\ Total(b) = p[WordsIn(Len(b))]
  BY WordsTyped, FoldSums DEF Total

\* What in_cksum adds up is bounded by the number of words.
LEMMA TotalBound ==
  ASSUME NEW b \in Bytes
  PROVE  Total(b) \in Nat /\ Total(b) <= WordsIn(Len(b)) * (Word - 1)
<1> DEFINE n == WordsIn(Len(b))
           M == Word - 1
<1>1. PICK p : IsSums(p, n, Words(b)) /\ Total(b) = p[n]  BY TotalSums
<1>2. n \in Nat /\ M \in Nat  BY BytesOf, Sizes
<1> DEFINE S == {k \in 0 .. n : p[k] <= k * M}
<1>3. 0 \in S
  <2>1. p[0] = 0 /\ 0 \in 0 .. n  BY <1>1, <1>2 DEF IsSums
  <2>2. 0 * M = 0  BY <1>2
  <2> QED  BY <2>1, <2>2
<1>4. ASSUME NEW k \in 1 .. n, k - 1 \in S PROVE k \in S
  <2>1. k \in 0 .. n /\ k - 1 \in 0 .. n /\ k \in Nat /\ k - 1 \in Nat  BY <1>2
  <2>2. p[k] = p[k - 1] + Words(b)[k] /\ p[k - 1] \in Nat /\ p[k] \in Nat
    BY <1>1, <2>1 DEF IsSums
  <2>3. Words(b)[k] \in Nat /\ Words(b)[k] <= M  BY WordsTyped
  <2>4. (k - 1) * M + M = k * M /\ k * M \in Nat /\ (k - 1) * M \in Nat
    <3> HIDE DEF M
    <3>1. \A x, y \in Nat : x - 1 \in Nat => (x - 1) * y + y = x * y  OBVIOUS
    <3> QED  BY <1>2, <2>1, <3>1
  <2>5. p[k - 1] <= (k - 1) * M  BY <1>4
  <2> HIDE DEF M
  <2> QED  BY <1>2, <2>1, <2>2, <2>3, <2>4, <2>5
<1>5. n \in S
  <2> HIDE DEF S
  <2>1. 0 .. n \subseteq S  BY <1>2, <1>3, <1>4, IntervalInduction
  <2> QED  BY <1>2, <2>1
<1>6. p[n] \in Nat  BY <1>1, <1>2 DEF IsSums
<1> QED  BY <1>1, <1>5, <1>6

\* A change of one word changes the sum by as much.
LEMMA TotalChanges ==
  ASSUME NEW b \in Bytes, NEW c \in Bytes, Len(c) = Len(b),
         NEW j \in 1 .. WordsIn(Len(b)), NEW d \in Int,
         WordAt(c, j) = WordAt(b, j) + d,
         \A i \in 1 .. WordsIn(Len(b)) : i # j => WordAt(c, i) = WordAt(b, i)
  PROVE  Total(c) = Total(b) + d
<1> DEFINE n == WordsIn(Len(b))
<1>1. PICK p : IsSums(p, n, Words(b)) /\ Total(b) = p[n]  BY TotalSums
<1>2. PICK q : IsSums(q, n, Words(c)) /\ Total(c) = q[n]  BY TotalSums
<1>3. n \in Nat  BY BytesOf
<1> DEFINE S == {k \in 0 .. n : q[k] = p[k] + (IF k < j THEN 0 ELSE d)}
<1>4. 0 \in S
  <2>1. p[0] = 0 /\ q[0] = 0 /\ 0 \in 0 .. n /\ 0 < j
    BY <1>1, <1>2, <1>3 DEF IsSums
  <2> QED  BY <2>1
<1>5. ASSUME NEW k \in 1 .. n, k - 1 \in S PROVE k \in S
  <2>1. k \in 0 .. n /\ k - 1 \in 0 .. n  BY <1>3
  <2>2. p[k] = p[k - 1] + WordAt(b, k) /\ p[k - 1] \in Nat /\ WordAt(b, k) \in Nat
    BY <1>1, <2>1, WordsTyped DEF IsSums
  <2>3. q[k] = q[k - 1] + WordAt(c, k) /\ q[k - 1] \in Nat /\ WordAt(c, k) \in Nat
    BY <1>2, <2>1, WordsTyped DEF IsSums
  <2>4. q[k - 1] = p[k - 1] + (IF k - 1 < j THEN 0 ELSE d)  BY <1>5
  <2>5. WordAt(c, k) = WordAt(b, k) + (IF k = j THEN d ELSE 0)  BY <2>2
  <2>6. j \in Nat /\ k \in Nat  BY <1>3
  <2>7. q[k] = p[k] + (IF k < j THEN 0 ELSE d)
    BY <2>2, <2>3, <2>4, <2>5, <2>6
  <2> QED  BY <2>1, <2>7
<1>6. n \in S
  <2> HIDE DEF S
  <2>1. 0 .. n \subseteq S  BY <1>3, <1>4, <1>5, IntervalInduction
  <2> QED  BY <1>3, <2>1
<1>7. ~ (n < j)  BY <1>3
<1> QED  BY <1>1, <1>2, <1>6, <1>7

\* Quotient and remainder.
LEMMA Division ==
  ASSUME NEW x \in Nat, NEW w \in Nat, w > 0
  PROVE  /\ x \div w \in Nat /\ x % w \in Nat /\ x % w <= w - 1
         /\ x = w * (x \div w) + (x % w)
<1>1. x \div w \in Int /\ x % w \in 0 .. w - 1 /\ x = w * (x \div w) + (x % w)  BY SMT
<1>2. x \div w >= 0  BY SMT
<1> QED  BY <1>1, <1>2

\* They are the only such numbers.
LEMMA DivisionIs ==
  ASSUME NEW w \in Nat, w > 0, NEW h \in Nat, NEW l \in Nat, l < w
  PROVE  (w * h + l) \div w = h /\ (w * h + l) % w = l
<1> DEFINE x == w * h + l
<1>1. x \in Nat  OBVIOUS
<1>2. /\ x \div w \in Nat /\ x % w \in Nat /\ x % w <= w - 1
      /\ x = w * (x \div w) + (x % w)
  BY <1>1, Division
<1>3. \A a, b \in Nat : a < b => w * a + w <= w * b
  <2> SUFFICES ASSUME NEW a \in Nat, NEW b \in Nat, a < b PROVE w * a + w <= w * b
    OBVIOUS
  <2>1. b - a - 1 \in Nat  OBVIOUS
  <2>2. w * (b - a - 1) \in Nat  BY <2>1
  <2>3. w * (b - a - 1) = w * b - w * a - w  OBVIOUS
  <2>4. w * a \in Nat /\ w * b \in Nat  OBVIOUS
  <2> QED  BY <2>2, <2>3, <2>4
<1>4. x \div w = h
  <2>1. ~ (x \div w < h) /\ ~ (h < x \div w)
    <3>1. w * (x \div w) \in Nat /\ w * h \in Nat  BY <1>2
    <3>2. x \div w < h => w * (x \div w) + w <= w * h  BY <1>2, <1>3
    <3>3. h < x \div w => w * h + w <= w * (x \div w)  BY <1>2, <1>3
    <3>4. w * (x \div w) + (x % w) = w * h + l  BY <1>2
    <3>5. \A a, b, r \in Nat : r <= w - 1 /\ a + r = b + l => ~ (a + w <= b) /\ ~ (b + w <= a)
      OBVIOUS
    <3>6. ~ (w * (x \div w) + w <= w * h) /\ ~ (w * h + w <= w * (x \div w))
      <4> HIDE DEF x
      <4> QED  BY <1>2, <3>1, <3>4, <3>5
    <3> HIDE DEF x
    <3> QED  BY <3>2, <3>3, <3>6, Zenon
  <2>2. \A a, b \in Nat : ~ (a < b) /\ ~ (b < a) => a = b  OBVIOUS
  <2> HIDE DEF x
  <2> QED  BY <1>2, <2>1, <2>2, Zenon
<1>5. x % w = l
  <2>1. w * h \in Nat /\ w * h + l = w * h + (x % w)  BY <1>2, <1>4
  <2> HIDE DEF x
  <2> QED  BY <1>2, <2>1
<1> QED  BY <1>4, <1>5

\* Adding the carries back keeps a sum that is not too large, up to multiples of
\* Word - 1: it takes only two additions.
LEMMA FoldReduces ==
  ASSUME NEW s \in Nat, s <= Word * (Word - 1)
  PROVE  /\ Fold(s) \in Nat /\ Fold(s) <= Word - 1
         /\ \E k \in Nat : s = k * (Word - 1) + Fold(s)
<1> DEFINE M == Word - 1
           high == s \div Word
           low == s % Word
           once == high + low
<1>1. Word \in Nat /\ Word >= 4 /\ M \in Nat /\ M = Word - 1  BY Sizes
<1>2. high \in Nat /\ low \in Nat /\ low <= Word - 1 /\ s = Word * high + low
  BY <1>1, Division
<1> HIDE DEF M, high, low
<1>3. high <= M
  <2> SUFFICES ASSUME high >= Word PROVE FALSE  BY <1>1, <1>2
  <2>1. high - M - 1 \in Nat  BY <1>1, <1>2
  <2>2. Word * (high - M - 1) \in Nat  BY <1>1, <2>1
  <2>3. Word * (high - M - 1) = Word * high - Word * M - Word  BY <1>1, <1>2
  <2>4. Word * high \in Nat /\ Word * M \in Nat /\ s <= Word * M  BY <1>1, <1>2 DEF M
  <2> QED  BY <1>1, <1>2, <2>2, <2>3, <2>4
<1>4. s = high * M + once /\ high * M \in Nat
  <2>1. Word * high = high * M + high /\ high * M \in Nat  BY <1>1, <1>2
  <2> QED  BY <1>2, <2>1
<1>5. Fold(s) = (once + once \div Word) % Word  BY DEF Fold, high, low
<1>6. once \in Nat  BY <1>2
<1>7. CASE once < Word
  <2>1. once \div Word = 0 /\ once % Word = once
    <3>1. Word * 0 + once = once  BY <1>1, <1>6
    <3> HIDE DEF once
    <3> QED  BY <1>1, <1>6, <1>7, <3>1, DivisionIs
  <2>2. Fold(s) = once  BY <1>5, <1>6, <2>1
  <2> HIDE DEF once
  <2>3. Fold(s) \in Nat /\ Fold(s) <= M  BY <1>1, <1>6, <1>7, <2>2
  <2> QED  BY <1>2, <1>4, <2>2, <2>3 DEF M
<1>8. CASE once >= Word
  <2>1. once <= M + M  BY <1>1, <1>2, <1>3
  <2>2. once - Word \in Nat /\ once - Word < Word - 1  BY <1>1, <1>6, <1>8, <2>1
  <2> HIDE DEF once
  <2>3. once \div Word = 1
    <3>1. Word * 1 + (once - Word) = once  BY <1>1, <1>6
    <3>2. once - Word < Word  BY <1>1, <2>2
    <3> QED  BY <1>1, <2>2, <3>1, <3>2, DivisionIs
  <2>4. (once + 1) % Word = once - M
    <3>1. once - M \in Nat /\ once - M < Word  BY <1>1, <1>6, <2>2
    <3>2. Word * 1 + (once - M) = once + 1  BY <1>1, <1>6
    <3> QED  BY <1>1, <3>1, <3>2, DivisionIs
  <2>5. Fold(s) = once - M  BY <1>5, <2>3, <2>4
  <2>6. (high + 1) * M = high * M + M /\ high + 1 \in Nat  BY <1>1, <1>2
  <2>7. s = (high + 1) * M + Fold(s)  BY <1>1, <1>4, <1>6, <2>5, <2>6
  <2>8. Fold(s) \in Nat /\ Fold(s) <= M  BY <1>1, <1>6, <2>1, <2>2, <2>5
  <2> QED  BY <2>6, <2>7, <2>8 DEF M
<1> QED
  <2> HIDE DEF once
  <2> QED  BY <1>1, <1>6, <1>7, <1>8

\* A packet short enough for in_cksum.
Short(b) == b \in Bytes /\ WordsIn(Len(b)) <= Word

\* What in_cksum adds up of such a packet.
LEMMA ShortSum ==
  ASSUME NEW b, Short(b)
  PROVE  /\ Total(b) \in Nat /\ Total(b) <= Word * (Word - 1)
         /\ InCksum(b) \in Nat /\ InCksum(b) <= Word - 1
         /\ \E k \in Nat : Total(b) = k * (Word - 1) + ((Word - 1) - InCksum(b))
<1> DEFINE n == WordsIn(Len(b))
           M == Word - 1
<1>1. b \in Bytes /\ n \in Nat /\ n <= Word  BY BytesOf DEF Short
<1>2. Word \in Nat /\ M \in Nat  BY Sizes
<1>3. Total(b) \in Nat /\ Total(b) <= n * M  BY <1>1, TotalBound
<1>4. n * M <= Word * M /\ n * M \in Nat /\ Word * M \in Nat
  <2> HIDE DEF n, M
  <2>1. Word - n \in Nat  BY <1>1, <1>2
  <2>2. (Word - n) * M \in Nat  BY <1>2, <2>1
  <2>3. (Word - n) * M = Word * M - n * M  BY <1>1, <1>2
  <2>4. n * M \in Nat /\ Word * M \in Nat  BY <1>1, <1>2
  <2> QED  BY <2>2, <2>3, <2>4
<1>5. Total(b) <= Word * M
  <2> HIDE DEF n, M
  <2> QED  BY <1>3, <1>4
<1>6. /\ Fold(Total(b)) \in Nat /\ Fold(Total(b)) <= M
      /\ \E k \in Nat : Total(b) = k * M + Fold(Total(b))
  BY <1>3, <1>5, FoldReduces
<1>7. InCksum(b) = M - Fold(Total(b))  BY DEF InCksum
<1>8. InCksum(b) \in Nat /\ InCksum(b) <= M /\ Fold(Total(b)) = M - InCksum(b)
  <2> HIDE DEF M
  <2> QED  BY <1>2, <1>6, <1>7
<1> QED  BY <1>3, <1>5, <1>6, <1>8

\* A packet whose sum is a multiple of Word - 1, as the checksum makes it.
Balanced(b) == Short(b) /\ \E k \in Nat : Total(b) = k * (Word - 1)

\* Filling in the checksum, in place of word j, balances a packet.
LEMMA SealedBalanced ==
  ASSUME NEW b, Short(b), NEW j \in Nat, j >= 1, 2 * j <= Len(b)
  PROVE  Balanced(Sealed(b, 2 * j - 1)) /\ Len(Sealed(b, 2 * j - 1)) = Len(b)
<1> DEFINE lo == 2 * j - 1
           Put(c, x, y) == [c EXCEPT ![lo] = x, ![lo + 1] = y]
           zero == Put(b, 0, 0)
           sum == InCksum(zero)
           seal == Put(zero, sum % Byte, sum \div Byte)
           n == WordsIn(Len(b))
<1>1. Byte \in Nat /\ Byte >= 2 /\ Word \in Nat /\ Word >= 4 /\ Word = Byte * Byte
  BY Sizes DEF Word
<1>2. b \in Bytes /\ Len(b) \in Nat /\ DOMAIN b = 1 .. Len(b) /\ n \in Nat
  BY BytesOf DEF Short
<1>3. lo \in 1 .. Len(b) /\ lo + 1 \in 1 .. Len(b) /\ lo + 1 = 2 * j /\ lo # lo + 1
  BY <1>2
<1>4. ASSUME NEW c \in Bytes, Len(c) = Len(b), NEW x \in ByteValue, NEW y \in ByteValue
      PROVE  /\ Put(c, x, y) \in Bytes /\ Len(Put(c, x, y)) = Len(b)
             /\ Put(c, x, y)[lo] = x /\ Put(c, x, y)[lo + 1] = y
             /\ \A i \in 1 .. Len(b) :
                  i # lo /\ i # lo + 1 => Put(c, x, y)[i] = c[i]
  <2> DEFINE d == Put(c, x, y)
             e == [c EXCEPT ![lo] = x]
  <2>1. DOMAIN c = 1 .. Len(b)  BY <1>4, BytesOf
  <2>2. e \in Bytes /\ Len(e) = Len(b)
    BY <1>3, <1>4, <2>1, ExceptSeq DEF Bytes
  <2>3. d = [e EXCEPT ![lo + 1] = y]  OBVIOUS
  <2>4. d \in Bytes /\ Len(d) = Len(b)
    <3> HIDE DEF d, e
    <3> QED  BY <1>3, <1>4, <2>2, <2>3, ExceptSeq, LenProperties DEF Bytes
  <2>5. d = [i \in 1 .. Len(b) |-> IF i = lo + 1 THEN y ELSE IF i = lo THEN x ELSE c[i]]
    BY <1>3, <2>1
  <2> HIDE DEF lo
  <2> QED  BY <1>3, <2>4, <2>5
<1> HIDE DEF lo, Put
<1>5. 0 \in ByteValue  BY <1>1 DEF ByteValue
<1>6. zero \in Bytes /\ Len(zero) = Len(b) /\ zero[lo] = 0 /\ zero[lo + 1] = 0
  BY <1>2, <1>4, <1>5
<1>7. Short(zero)  BY <1>6 DEF Short
<1>8. sum \in Nat /\ sum <= Word - 1
      /\ \E k \in Nat : Total(zero) = k * (Word - 1) + ((Word - 1) - sum)
  <2> HIDE DEF zero
  <2> QED  BY <1>7, ShortSum
<1> HIDE DEF zero, sum
<1>9. /\ sum % Byte \in ByteValue /\ sum \div Byte \in ByteValue
      /\ sum = (sum % Byte) + Byte * (sum \div Byte)
  <2>1. /\ sum \div Byte \in Nat /\ sum % Byte \in Nat /\ sum % Byte <= Byte - 1
        /\ sum = Byte * (sum \div Byte) + (sum % Byte)
    BY <1>1, <1>8, Division
  <2> DEFINE h == sum \div Byte
             l == sum % Byte
  <2> HIDE DEF h, l
  <2>2. h \in Nat /\ l \in Nat /\ l <= Byte - 1 /\ sum = Byte * h + l
    BY <2>1 DEF h, l
  <2>3. h <= Byte - 1
    <3> SUFFICES ASSUME h >= Byte PROVE FALSE  BY <1>1, <2>2
    <3>1. h - Byte \in Nat  BY <1>1, <2>2
    <3>2. Byte * (h - Byte) \in Nat  BY <1>1, <3>1
    <3>3. Byte * (h - Byte) = Byte * h - Word  BY <1>1, <2>2
    <3>4. Byte * h \in Nat  BY <1>1, <2>2
    <3> QED  BY <1>1, <1>8, <2>2, <3>2, <3>3, <3>4
  <2>4. h \in ByteValue /\ l \in ByteValue  BY <1>1, <2>2, <2>3 DEF ByteValue
  <2>5. Byte * h \in Nat  BY <1>1, <2>2
  <2>6. sum = l + Byte * h  BY <2>2, <2>5
  <2> QED  BY <2>4, <2>6 DEF h, l
<1>10. /\ seal \in Bytes /\ Len(seal) = Len(b)
       /\ seal[lo] = sum % Byte /\ seal[lo + 1] = sum \div Byte
       /\ \A i \in 1 .. Len(b) : i # lo /\ i # lo + 1 => seal[i] = zero[i]
  BY <1>4, <1>6, <1>9, SMTT(30)
<1> HIDE DEF seal
<1>11. WordAt(zero, j) = 0 /\ WordAt(seal, j) = sum
  <2>1. 2 * j - 1 = lo /\ 2 * j = lo + 1  BY <1>3 DEF lo
  <2>2. WordAt(zero, j) = 0 + Byte * 0
    BY <1>6, <2>1 DEF WordAt
  <2>3. WordAt(seal, j) = (sum % Byte) + Byte * (sum \div Byte)
    BY <1>10, <2>1 DEF WordAt
  <2> QED  BY <1>1, <1>9, <2>2, <2>3
<1>12. ASSUME NEW i \in 1 .. n, i # j PROVE WordAt(seal, i) = WordAt(zero, i)
  <2>1. 2 * i - 1 \in 1 .. Len(b)  BY <1>2 DEF WordsIn
  <2>2. 2 * i <= Len(b) => 2 * i \in 1 .. Len(b)  BY <1>2
  <2>3. 2 * i - 1 # lo /\ 2 * i - 1 # lo + 1 /\ 2 * i # lo /\ 2 * i # lo + 1
    BY <1>12 DEF lo
  <2>4. seal[2 * i - 1] = zero[2 * i - 1]  BY <1>10, <2>1, <2>3
  <2>5. 2 * i <= Len(b) => seal[2 * i] = zero[2 * i]  BY <1>10, <2>2, <2>3
  <2> QED  BY <1>6, <1>10, <2>4, <2>5 DEF WordAt
<1>13. Total(seal) = Total(zero) + sum
  <2>1. j \in 1 .. n  BY <1>2, <1>3 DEF WordsIn
  <2>2. WordAt(seal, j) = WordAt(zero, j) + sum /\ sum \in Int  BY <1>8, <1>11
  <2> HIDE DEF n
  <2> QED  BY <1>6, <1>10, <1>12, <2>1, <2>2, TotalChanges DEF n
<1>14. \E k \in Nat : Total(seal) = k * (Word - 1)
  <2>1. PICK k \in Nat : Total(zero) = k * (Word - 1) + ((Word - 1) - sum)  BY <1>8
  <2>2. (k + 1) * (Word - 1) = k * (Word - 1) + (Word - 1) /\ k + 1 \in Nat
        /\ k * (Word - 1) \in Nat
    BY <1>1
  <2> DEFINE A == k * (Word - 1)
             C == (k + 1) * (Word - 1)
  <2>3. C = A + (Word - 1) /\ A \in Nat /\ Total(zero) = A + ((Word - 1) - sum)
    BY <2>1, <2>2
  <2> HIDE DEF A, C
  <2>4. Total(seal) = C  BY <1>1, <1>8, <1>13, <2>3
  <2> QED  BY <2>2, <2>4 DEF C
<1>15. Short(seal)  BY <1>10 DEF Short
<1>16. seal = Sealed(b, 2 * j - 1)  BY DEF seal, sum, zero, Put, lo, Sealed
<1> QED  BY <1>10, <1>14, <1>15, <1>16 DEF Balanced

\* What another byte at place i does to the words.
LEMMA ByteWords ==
  ASSUME NEW b \in Bytes, NEW f \in Bytes, Len(f) = Len(b), NEW i \in 1 .. Len(b),
         \A k \in 1 .. Len(b) : k # i => f[k] = b[k]
  PROVE  \E d \in Int : /\ d >= 1 - Byte /\ d <= Byte - 1
                        /\ d = 0 => f = b
                        /\ Total(f) = Total(b) + d \/ Total(f) = Total(b) + Byte * d
<1> DEFINE d == f[i] - b[i]
           n == WordsIn(Len(b))
           j == WordsIn(i)
<1>1. Byte \in Nat /\ Byte >= 2  BY Sizes
<1>2. /\ Len(b) \in Nat /\ DOMAIN b = 1 .. Len(b) /\ b[i] \in Nat /\ b[i] <= Byte - 1
      /\ n \in Nat
  BY BytesOf
<1>3. f[i] \in Nat /\ f[i] <= Byte - 1  BY BytesOf
<1>4. f \in Bytes /\ Len(f) = Len(b)  OBVIOUS
<1>5. f[i] = b[i] + d /\ \A k \in 1 .. Len(b) : k # i => f[k] = b[k]
  BY <1>2, <1>3
<1>6. d \in Int /\ d >= 1 - Byte /\ d <= Byte - 1  BY <1>1, <1>2, <1>3
<1>7. d = 0 => f = b
  <2>1. d = 0 => \A k \in 1 .. Len(b) : f[k] = b[k]  BY <1>2, <1>3
  <2> HIDE DEF d
  <2> QED  BY <2>1, SeqEqual DEF Bytes
<1> HIDE DEF d
<1>8. j \in 1 .. n /\ (i = 2 * j - 1 \/ i = 2 * j)  BY <1>2 DEF WordsIn
<1>9. ASSUME NEW k \in 1 .. n, k # j PROVE WordAt(f, k) = WordAt(b, k)
  <2>1. 2 * k - 1 \in 1 .. Len(b)  BY <1>2 DEF WordsIn
  <2>2. 2 * k <= Len(b) => 2 * k \in 1 .. Len(b)  BY <1>2
  <2>3. 2 * k - 1 # i /\ 2 * k # i
    <3> HIDE DEF j
    <3> QED  BY <1>8, <1>9
  <2>4. f[2 * k - 1] = b[2 * k - 1]  BY <1>5, <2>1, <2>3
  <2>5. 2 * k <= Len(b) => f[2 * k] = b[2 * k]  BY <1>5, <2>2, <2>3
  <2> QED  BY <1>4, <2>4, <2>5 DEF WordAt
<1>10. 2 * j - 1 \in 1 .. Len(b)  BY <1>2 DEF WordsIn
<1>11. b[2 * j - 1] \in Nat /\ (2 * j <= Len(b) => b[2 * j] \in Nat)
  <2>1. 2 * j <= Len(b) => 2 * j \in 1 .. Len(b)  BY <1>2, <1>8
  <2> QED  BY <1>10, <2>1, BytesOf
<1>12. CASE i = 2 * j - 1
  <2>1. f[2 * j - 1] = b[2 * j - 1] + d  BY <1>5, <1>12
  <2>2. 2 * j <= Len(b) => f[2 * j] = b[2 * j]
    <3>1. 2 * j # i /\ (2 * j <= Len(b) => 2 * j \in 1 .. Len(b))  BY <1>2, <1>8, <1>12
    <3> QED  BY <1>5, <3>1
  <2>3. WordAt(f, j) = WordAt(b, j) + d
    <3>1. CASE 2 * j <= Len(b)
      <4>1. WordAt(f, j) = f[2 * j - 1] + Byte * f[2 * j]  BY <1>4, <3>1 DEF WordAt
      <4>2. WordAt(b, j) = b[2 * j - 1] + Byte * b[2 * j]  BY <3>1 DEF WordAt
      <4>3. Byte * b[2 * j] \in Nat  BY <1>11, <3>1, Sizes
      <4> HIDE DEF j
      <4> QED  BY <1>6, <1>11, <2>1, <2>2, <3>1, <4>1, <4>2, <4>3
    <3>2. CASE ~ (2 * j <= Len(b))
      <4>1. WordAt(f, j) = f[2 * j - 1] + 0  BY <1>4, <3>2 DEF WordAt
      <4>2. WordAt(b, j) = b[2 * j - 1] + 0  BY <3>2 DEF WordAt
      <4> HIDE DEF j
      <4> QED  BY <1>6, <1>11, <2>1, <4>1, <4>2
    <3> QED  BY <3>1, <3>2
  <2>4. Total(f) = Total(b) + d
    <3> HIDE DEF j, n
    <3> QED  BY <1>4, <1>6, <1>8, <1>9, <2>3, TotalChanges DEF n
  <2> QED  BY <1>6, <1>7, <2>4
<1>13. CASE i = 2 * j
  <2>1. 2 * j <= Len(b) /\ f[2 * j] = b[2 * j] + d  BY <1>2, <1>5, <1>13
  <2>2. f[2 * j - 1] = b[2 * j - 1]
    <3>1. 2 * j - 1 # i  BY <1>8, <1>13
    <3> QED  BY <1>5, <1>10, <3>1
  <2>3. Byte * d \in Int  BY <1>1, <1>6
  <2>4. WordAt(f, j) = WordAt(b, j) + Byte * d
    <3>1. WordAt(f, j) = f[2 * j - 1] + Byte * f[2 * j]  BY <1>4, <2>1 DEF WordAt
    <3>2. WordAt(b, j) = b[2 * j - 1] + Byte * b[2 * j]  BY <2>1 DEF WordAt
    <3>3. Byte * b[2 * j] \in Nat  BY <1>11, <2>1, Sizes
    <3>4. Byte * f[2 * j] = Byte * b[2 * j] + Byte * d
      <4>1. \A x, y, z \in Int : x * (y + z) = x * y + x * z  OBVIOUS
      <4> HIDE DEF j
      <4> QED  BY <1>1, <1>6, <1>11, <2>1, <4>1
    <3> HIDE DEF j
    <3> QED  BY <1>11, <2>2, <2>3, <3>1, <3>2, <3>3, <3>4
  <2>5. Total(f) = Total(b) + Byte * d
    <3> HIDE DEF j, n
    <3> QED  BY <1>4, <1>8, <1>9, <2>3, <2>4, TotalChanges DEF n
  <2> QED  BY <1>6, <1>7, <2>5
<1> QED  BY <1>8, <1>12, <1>13

\* A byte that changed on the way is noticed: the sum changes by less than Word - 1.
THEOREM DamageDetected ==
  ASSUME NEW b, Balanced(b), NEW f \in Bytes, Len(f) = Len(b), NEW i \in 1 .. Len(b),
         \A k \in 1 .. Len(b) : k # i => f[k] = b[k],
         Accepted(f)
  PROVE  f = b
<1> DEFINE M == Word - 1
<1>1. b \in Bytes /\ WordsIn(Len(b)) <= Word  BY DEF Balanced, Short
<1>2. PICK d \in Int : /\ d >= 1 - Byte /\ d <= Byte - 1
                       /\ d = 0 => f = b
                       /\ Total(f) = Total(b) + d \/ Total(f) = Total(b) + Byte * d
  BY <1>1, ByteWords
<1>4. Short(f) /\ InCksum(f) = 0  BY <1>1 DEF Short, Accepted
<1>5. Byte \in Nat /\ Byte >= 2 /\ Word \in Nat /\ M \in Nat /\ M = Word - 1  BY Sizes
<1> HIDE DEF M
<1>6. PICK k \in Nat : Total(b) = k * M  BY DEF Balanced, M
<1>7. PICK m \in Nat : Total(f) = m * M + (M - 0)  BY <1>4, ShortSum DEF M
<1>8. PICK e \in Int : /\ Total(f) = Total(b) + e
                       /\ e >= 1 - M /\ e <= M - 1
                       /\ e = 0 => d = 0
  <2>2. Byte <= Word - Byte
    <3>1. 1 \in Nat /\ 1 <= Byte - 1  BY <1>5
    <3>2. Byte * 1 <= Word - Byte /\ Byte * 1 = Byte  BY <1>5, <3>1, Sizes
    <3> QED  BY <3>2
  <2>3. CASE Total(f) = Total(b) + d
    <3>1. d >= 1 - M /\ d <= M - 1  BY <1>2, <1>5, <2>2
    <3> QED  BY <2>3, <3>1
  <2>4. CASE Total(f) = Total(b) + Byte * d
    <3>1. CASE d >= 0
      <4>1. d \in Nat /\ d <= Byte - 1  BY <1>2, <3>1
      <4>2. Byte * d \in Nat /\ Byte * d <= Word - Byte  BY <4>1, Sizes
      <4>3. Byte * d = 0 => d = 0  BY <1>5, <4>1
      <4>4. Byte * d \in Int /\ Byte * d >= 1 - M /\ Byte * d <= M - 1
        <5> DEFINE x == Byte * d
        <5> HIDE DEF x
        <5>1. x \in Nat /\ x <= Word - Byte  BY <4>2 DEF x
        <5>2. x \in Int /\ x >= 1 - M /\ x <= M - 1  BY <1>5, <2>2, <5>1
        <5> QED  BY <5>2 DEF x
      <4> QED  BY <2>4, <4>3, <4>4
    <3>2. CASE d < 0
      <4>1. 0 - d \in Nat /\ 0 - d <= Byte - 1  BY <1>2, <1>5, <3>2
      <4>2. Byte * (0 - d) \in Nat /\ Byte * (0 - d) <= Word - Byte  BY <4>1, Sizes
      <4>3. Byte * (0 - d) = 0 - Byte * d  BY <1>5
      <4>4. Byte * d \in Int  BY <1>5
      <4>5. Byte * d # 0
        <5>1. \A x, y \in Nat : x >= 1 /\ y >= 1 => x * y >= 1  BY SMT
        <5>2. Byte * (0 - d) >= 1  BY <1>5, <3>2, <4>1, <5>1
        <5> QED  BY <4>3, <4>4, <5>2
      <4>6. Byte * d >= 1 - M /\ Byte * d <= M - 1
        <5> DEFINE x == Byte * d
        <5> HIDE DEF x
        <5>1. x \in Int /\ 0 - x \in Nat /\ 0 - x <= Word - Byte
          BY <4>2, <4>3, <4>4 DEF x
        <5>2. x >= 1 - M /\ x <= M - 1  BY <1>5, <2>2, <5>1
        <5> QED  BY <5>2 DEF x
      <4> QED  BY <2>4, <4>4, <4>5, <4>6
    <3> QED  BY <1>2, <3>1, <3>2
  <2> QED  BY <1>2, <2>3, <2>4
<1>9. e = 0
  <2>1. (m + 1 - k) * M = e
    <3>1. (m + 1 - k) * M = m * M + M - k * M  BY <1>5
    <3>2. m * M \in Nat /\ k * M \in Nat  BY <1>5
    <3> DEFINE A == m * M
               C == k * M
               D == (m + 1 - k) * M
    <3>3. D = A + M - C /\ A \in Nat /\ C \in Nat /\ Total(b) = C /\ Total(f) = A + (M - 0)
      BY <1>6, <1>7, <3>1, <3>2
    <3> HIDE DEF A, C, D
    <3>4. D = e  BY <1>5, <1>8, <3>3
    <3> QED  BY <3>4 DEF D
  <2>2. ASSUME NEW z \in Int, z >= 1 PROVE z * M >= M
    <3>1. (z - 1) * M \in Nat
      <4>1. z - 1 \in Nat  BY <2>2
      <4> QED  BY <1>5, <4>1
    <3>2. (z - 1) * M = z * M - M /\ z * M \in Int  BY <1>5
    <3> QED  BY <1>5, <3>1, <3>2
  <2> DEFINE z == m + 1 - k
  <2>3. z \in Int /\ 0 - z \in Int  OBVIOUS
  <2>4. (0 - z) * M = 0 - z * M /\ z * M \in Int  BY <1>5
  <2>5. z * M = e  BY <2>1
  <2> HIDE DEF z
  <2>6. ~ (z >= 1)  BY <1>5, <1>8, <2>2, <2>3, <2>5
  <2>7. ~ (0 - z >= 1)
    <3>1. (0 - z) * M = 0 - e  BY <2>4, <2>5
    <3> QED  BY <1>5, <1>8, <2>2, <2>3, <3>1
  <2>8. z = 0  BY <2>3, <2>6, <2>7
  <2>9. 0 * M = 0  BY <1>5
  <2> QED  BY <2>5, <2>8, <2>9
<1> QED  BY <1>2, <1>8, <1>9

\* A packet that is accepted is balanced.
LEMMA AcceptedBalanced ==
  ASSUME NEW b, Short(b), Accepted(b)
  PROVE  Balanced(b)
<1> DEFINE M == Word - 1
<1>1. PICK k \in Nat : Total(b) = k * M + (M - InCksum(b))  BY ShortSum
<1>2. InCksum(b) = 0 /\ M \in Nat  BY Sizes DEF Accepted
<1> HIDE DEF M
<1>3. (k + 1) * M = k * M + M /\ k * M \in Nat /\ k + 1 \in Nat  BY <1>2
<1>4. Total(b) = (k + 1) * M
  <2> DEFINE A == k * M
  <2>1. Total(b) = A + (M - 0) /\ A \in Nat /\ (k + 1) * M = A + M  BY <1>1, <1>2, <1>3
  <2> HIDE DEF A
  <2> QED  BY <1>2, <2>1
<1> QED  BY <1>3, <1>4 DEF Balanced, M

\* A packet with a byte flipped is a packet.
LEMMA FlipTyped ==
  ASSUME NEW b \in Bytes, NEW i \in 1 .. Len(b)
  PROVE  FlipByte(b, i) \in Bytes /\ Len(FlipByte(b, i)) = Len(b)
<1>1. Len(b) \in Nat /\ b[i] \in Nat /\ b[i] <= Byte - 1 /\ Byte \in Nat
  BY BytesOf, Sizes
<1>2. (Byte - 1) - b[i] \in ByteValue  BY <1>1 DEF ByteValue
<1>3. FlipByte(b, i) = [b EXCEPT ![i] = (Byte - 1) - b[i]]  BY DEF FlipByte
<1> QED  BY <1>1, <1>2, <1>3, ExceptSeq DEF Bytes

\* Flipping a byte is such a change, unless it leaves the byte as it was.
LEMMA FlipDetected ==
  ASSUME NEW b, Balanced(b), NEW i \in 1 .. Len(b), Accepted(FlipByte(b, i))
  PROVE  FlipByte(b, i) = b
<1> DEFINE f == FlipByte(b, i)
<1>1. b \in Bytes  BY DEF Balanced, Short
<1>2. DOMAIN b = 1 .. Len(b)  BY <1>1, BytesOf
<1>3. f \in Bytes /\ Len(f) = Len(b)  BY <1>1, FlipTyped
<1>4. \A k \in 1 .. Len(b) : k # i => f[k] = b[k]  BY <1>2 DEF FlipByte
<1> HIDE DEF f
<1>5. Accepted(f)  BY DEF f
<1>6. f = b  BY <1>3, <1>4, <1>5, DamageDetected
<1> QED  BY <1>6 DEF f

-----------------------------------------------------------------------------
(***************************************************************************)
(* The inductive invariant                                                 *)
(***************************************************************************)

Event == [kind : {"drop", "flip", "info"}, all : BOOLEAN, numbers : SUBSET Int]

Library == [rate : Nat, msgNo : Nat, constant : Seq(Event), chance : Seq(Event),
            seed : Seeds, drawn : Nat, nextSeed : Nat, reported : Nat,
            set : [seed : Seq(Int), rate : Seq(Nat), drop : Seq(Seq(Int)),
                   flip : Seq(Seq(Int))]]

ClientState == [pc : {"setup", "typing", "waiting", "done"},
                seq : Nat, pdu : Bytes, keys : Seq(Bytes)]

Typed ==
  /\ setup \in Setups
  /\ lib \in [Programs -> Library]
  /\ rand \in [Seeds -> Seq(Draws)]
  /\ client \in [Clients -> ClientState]
  /\ toServer \in Seq([from : Clients, bytes : Bytes])
  /\ toClient \in [Clients -> Seq(Bytes)]
  /\ sends \in [Programs -> Nat]
  /\ lost \subseteq Programs \X Nat \X Clients

\* A program keeps the settings it has started with, and counts what it sends; its
\* draws are known.
Libraries ==
  \A p \in Programs :
    /\ lib[p].msgNo = sends[p]
    /\ lib[p].rate = Started(setup, p).rate
    /\ lib[p].constant = Started(setup, p).constant
    /\ lib[p].chance = Started(setup, p).chance
    /\ lib[p].seed = Started(setup, p).seed
    /\ lib[p].drawn <= Len(rand[lib[p].seed])

\* Where the datagram of a waiting client may be.
AtServer(c) == \E i \in 1 .. Len(toServer) : toServer[i].from = c
Returning(c) == toClient[c] # << >>
Dropped(c) == \E l \in lost : l[3] = c

\* It is in one of the three places, and in one only.
Conversation(c) ==
  /\ client[c].pc = "waiting" <=> AtServer(c) \/ Returning(c) \/ Dropped(c)
  /\ AtServer(c) => ~Returning(c) /\ ~Dropped(c)
  /\ Returning(c) => ~Dropped(c)
  /\ \A i, j \in 1 .. Len(toServer) :
       toServer[i].from = c /\ toServer[j].from = c => i = j
  /\ Len(toClient[c]) <= 1
  /\ client[c].pc # "done" => c \in setup.clients

\* What the server will receive is what the client has sent, or that with one
\* byte flipped.
Delivered(m) ==
  LET pdu == client[m.from].pdu
  IN  /\ Balanced(pdu)
      /\ m.bytes = pdu \/ \E i \in 1 .. Len(pdu) : m.bytes = FlipByte(pdu, i)

\* The draws of client and server: the client is at the end of what is known, the
\* server at the same place or, while a datagram is on its way to it, before the
\* draws the client's library made for this datagram.
Lockstep(c) ==
  /\ Len(rand[lib[c].seed]) = lib[c].drawn
  /\ toServer = << >> /\ ~Dropped(c) => lib[Server].drawn = lib[c].drawn
  /\ \A i \in 1 .. Len(toServer) :
       \E t \in Throws(rand, lib[Server]) :
         LET o == Sent(lib[Server], rand, client[c].pdu, t)
         IN  o.out = <<toServer[i].bytes>> /\ o.lib.drawn = lib[c].drawn

IInv ==
  /\ Typed
  /\ Libraries
  /\ \A c \in Clients : Conversation(c)
  /\ \A i \in 1 .. Len(toServer) : Delivered(toServer[i])
  /\ InStep => \A c \in setup.clients : Lockstep(c)
  /\ EchoRestored
  /\ DropListExact

-----------------------------------------------------------------------------
(***************************************************************************)
(* The library: settings and sends                                         *)
(***************************************************************************)

Override == [seed : Seq(Int), rate : Seq(Nat), drop : Seq(Seq(Int)),
             flip : Seq(Seq(Int))]

\* A drop list is set, and it has a number.
Lists(o) == IsSet(o.drop) /\ Numbers(o.drop[1]) # {}

\* A library that has sent nothing yet, of a process with the given settings: with
\* a drop list, chance does nothing but flip.
Fresh(l, o) ==
  /\ l \in [rate : Nat, msgNo : Nat, constant : Seq(Event), chance : Seq(Event),
            seed : Int, drawn : Nat, nextSeed : Nat, reported : Nat, set : {o}]
  /\ l.msgNo = 0 /\ l.drawn = 0 /\ l.reported = 0
  /\ Lists(o) => l.chance \in Seq({FlipBits})

\* The number of a setting that is set.
LEMMA SettingTyped ==
  ASSUME NEW S, NEW q \in Seq(S), IsSet(q)
  PROVE  q[1] \in S
<1>1. Len(q) # 0  BY EmptySeq DEF IsSet, Unset
<1>2. 1 \in 1 .. Len(q)  BY <1>1, LenProperties
<1> QED  BY <1>2, ElementOfSeq

\* The numbers of a list are integers, and the events of the library are events.
LEMMA EventsTyped ==
  /\ \A list \in Seq(Int) : DropThese(Numbers(list)) \in Event
  /\ DropAll \in Event /\ FlipBits \in Event /\ InfoSeqNo \in Event
<1>1. ASSUME NEW list \in Seq(Int) PROVE Numbers(list) \in SUBSET Int
  <2>1. \A i \in DOMAIN list : list[i] \in Int  BY ElementOfSeq, LenProperties
  <2> QED  BY <2>1 DEF Numbers, ToSet
<1>2. \A list \in Seq(Int) : DropThese(Numbers(list)) \in Event
  BY <1>1 DEF DropThese, Event
<1>3. DropAll \in Event /\ FlipBits \in Event /\ InfoSeqNo \in Event
  BY DEF DropAll, FlipBits, InfoSeqNo, Event
<1> QED  BY <1>2, <1>3

\* What the drop list of a process adds to the constant events.
ListEvents(o) ==
  IF IsSet(o.drop) /\ Numbers(o.drop[1]) # {} THEN <<DropThese(Numbers(o.drop[1]))>>
  ELSE << >>

\* Every step of the start leaves a library that has sent nothing.
LEMMA EventFresh ==
  ASSUME NEW o, NEW l, Fresh(l, o), NEW e \in Event
  PROVE  /\ Fresh(AddStandard(l, e), o)
         /\ AddStandard(l, e).constant = Append(l.constant, e)
         /\ e = FlipBits \/ ~Lists(o) => Fresh(AddRandom(l, e), o)
         /\ AddRandom(l, e).constant = l.constant
<1>1. l.constant \in Seq(Event) /\ l.chance \in Seq(Event)  BY DEF Fresh
<1>2. Append(l.constant, e) \in Seq(Event) /\ Append(l.chance, e) \in Seq(Event)
  BY <1>1, AppendProperties
<1>3. AddStandard(l, e) = [l EXCEPT !.constant = Append(l.constant, e)]
      /\ AddRandom(l, e) = [l EXCEPT !.chance = Append(l.chance, e)]
  BY DEF AddStandard, AddRandom
<1>4. Fresh(AddStandard(l, e), o) /\ AddStandard(l, e).constant = Append(l.constant, e)
  BY <1>2, <1>3 DEF Fresh
<1>5. AddRandom(l, e).constant = l.constant
  BY <1>2, <1>3 DEF Fresh
<1>6. ASSUME e = FlipBits \/ ~Lists(o) PROVE Fresh(AddRandom(l, e), o)
  <2>1. ASSUME Lists(o) PROVE Append(l.chance, e) \in Seq({FlipBits})
    <3>1. l.chance \in Seq({FlipBits}) /\ e \in {FlipBits}  BY <1>6, <2>1 DEF Fresh
    <3> QED  BY <3>1, AppendProperties
  <2> DEFINE q == Append(l.chance, e)
  <2>2. q \in Seq(Event) /\ (Lists(o) => q \in Seq({FlipBits}))  BY <1>2, <2>1
  <2>3. AddRandom(l, e) = [l EXCEPT !.chance = q]  BY <1>3
  <2> HIDE DEF q
  <2> QED  BY <2>2, <2>3 DEF Fresh
<1> QED  BY <1>4, <1>5, <1>6

\* So does a new seed.
LEMMA SeedFresh ==
  ASSUME NEW o, NEW l, Fresh(l, o), NEW x \in Int
  PROVE  Fresh(SetRandSeed(l, x), o) /\ SetRandSeed(l, x).constant = l.constant
  BY DEF Fresh, SetRandSeed

\* So does a new rate.
LEMMA RateFresh ==
  ASSUME NEW o, NEW l, Fresh(l, o), NEW r \in Nat
  PROVE  Fresh([l EXCEPT !.rate = r], o) /\ [l EXCEPT !.rate = r].constant = l.constant
  BY DEF Fresh

\* The constructors.
LEMMA LoadedFresh ==
  ASSUME NEW o \in Override
  PROVE  Fresh(Loaded(o, 0), o) /\ Loaded(o, 0).constant = ListEvents(o)
<1> DEFINE l0 == [rate |-> 0, msgNo |-> 0, constant |-> << >>, chance |-> << >>,
                  seed |-> 0, drawn |-> 0, nextSeed |-> RANDOM_SEED,
                  set |-> o, reported |-> 0]
           l1 == LoadSeed(l0)
           l2 == LoadRate(l1)
           l3 == LoadDrop(l2)
<1>1. Fresh(l0, o) /\ l0.constant = << >>
  BY EmptySeq DEF Fresh, RANDOM_SEED
<1> HIDE DEF l0
<1>2. o.seed \in Seq(Int) /\ o.rate \in Seq(Nat) /\ o.drop \in Seq(Seq(Int))
      /\ o.flip \in Seq(Seq(Int))
  BY DEF Override
<1>3. Fresh(l1, o) /\ l1.constant = << >>
  <2>1. l0.set = o  BY <1>1 DEF Fresh
  <2>2. IsSet(o.seed) => o.seed[1] \in Int  BY <1>2, SettingTyped
  <2>3. l1 = l0 \/ (IsSet(o.seed) /\ l1 = SetRandSeed(l0, o.seed[1]))
    BY <2>1 DEF LoadSeed
  <2> HIDE DEF l1
  <2> QED  BY <1>1, <2>2, <2>3, SeedFresh
<1> HIDE DEF l1
<1>4. Fresh(l2, o) /\ l2.constant = << >>
  <2>1. l1.set = o  BY <1>3 DEF Fresh
  <2>2. IsSet(o.rate) => o.rate[1] \in Nat  BY <1>2, SettingTyped
  <2>3. l2 = l1 \/ (IsSet(o.rate) /\ l2 = [l1 EXCEPT !.rate = o.rate[1]])
    BY <2>1 DEF LoadRate
  <2> HIDE DEF l2
  <2> QED  BY <1>3, <2>2, <2>3, RateFresh
<1> HIDE DEF l2
<1>5. Fresh(l3, o) /\ l3.constant = ListEvents(o)
  <2>1. l2.set = o  BY <1>4 DEF Fresh
  <2>2. CASE ~IsSet(o.drop)
    <3>1. l3 = l2  BY <2>1, <2>2 DEF LoadDrop
    <3> QED  BY <1>4, <2>2, <3>1 DEF ListEvents
  <2>3. CASE IsSet(o.drop)
    <3>1. o.drop[1] \in Seq(Int)  BY <1>2, <2>3, SettingTyped
    <3> DEFINE N == Numbers(o.drop[1])
    <3>2. DropThese(N) \in Event  BY <3>1, EventsTyped
    <3>3. l3 = IF N = {} THEN AddRandom(l2, DropAll) ELSE AddStandard(l2, DropThese(N))
      BY <2>1, <2>3 DEF LoadDrop
    <3>4. Append(<< >>, DropThese(N)) = <<DropThese(N)>>  OBVIOUS
    <3>5. ListEvents(o) = IF N # {} THEN <<DropThese(N)>> ELSE << >>
      BY <2>3 DEF ListEvents
    <3> HIDE DEF l3, N
    <3>6. CASE N = {}
      <4>1. l3 = AddRandom(l2, DropAll)  BY <3>3, <3>6
      <4>2. ListEvents(o) = << >>  BY <3>5, <3>6
      <4>3. ~Lists(o)  BY <3>6 DEF Lists, N
      <4>4. Fresh(l3, o) /\ l3.constant = l2.constant
        BY <1>4, <4>1, <4>3, EventFresh, EventsTyped
      <4> QED  BY <1>4, <4>2, <4>4
    <3>7. CASE N # {}
      <4>1. l3 = AddStandard(l2, DropThese(N))  BY <3>3, <3>7
      <4>2. ListEvents(o) = <<DropThese(N)>>  BY <3>5, <3>7
      <4>3. Fresh(l3, o) /\ l3.constant = Append(l2.constant, DropThese(N))
        BY <1>4, <3>2, <4>1, EventFresh
      <4> QED  BY <1>4, <3>4, <4>2, <4>3
    <3> QED  BY <3>6, <3>7
  <2> QED  BY <2>2, <2>3
<1> HIDE DEF l3
<1>6. Loaded(o, 0) = LoadFlip(l3)  BY DEF Loaded, l3, l2, l1, l0
<1>7. LoadFlip(l3) = l3 \/ LoadFlip(l3) = AddRandom(l3, FlipBits)
  BY DEF LoadFlip
<1> QED  BY <1>5, <1>6, <1>7, EventFresh, EventsTyped, ZenonT(60)

\* The programs start with a library that has sent nothing, with the drop list's
\* event in front of the one that reports.
LEMMA StartedFresh ==
  ASSUME NEW s \in Setups, NEW p \in Programs
  PROVE  /\ Started(s, p) \in Library
         /\ Started(s, p).msgNo = 0 /\ Started(s, p).drawn = 0
         /\ Started(s, p).reported = 0
         /\ Started(s, p).constant = Append(ListEvents(s.set[p]), InfoSeqNo)
         /\ Lists(s.set[p]) => Started(s, p).chance \in Seq({FlipBits})
<1> DEFINE o == s.set[p]
           l0 == Loaded(o, 0)
           l1 == AddStandard(l0, InfoSeqNo)
           l2 == SetUserRate(l1, s.rate[p])
           l3 == SetUserDrop(l2, TRUE)
           l4 == SetUserFlip(l3, TRUE)
           l5 == SetUserSeed(l4, l0.nextSeed)
           all == Append(ListEvents(o), InfoSeqNo)
<1>1. o \in Override /\ s.rate[p] \in Nat
  BY UdpEchoAssumption DEF Setup, Override
<1>2. Started(s, p) = [l5 EXCEPT !.nextSeed = l5.nextSeed + 1]
  BY DEF Started, SendErrInit
<1> HIDE DEF o
<1>3. Fresh(l0, o) /\ l0.constant = ListEvents(o)  BY <1>1, LoadedFresh
<1> HIDE DEF l0
<1>4. Fresh(l1, o) /\ l1.constant = all  BY <1>1, <1>3, EventFresh, EventsTyped
<1> HIDE DEF l1, all
<1>5. Fresh(l2, o) /\ l2.constant = all
  <2>1. l2 = l1 \/ l2 = [l1 EXCEPT !.rate = s.rate[p]]  BY DEF SetUserRate
  <2> HIDE DEF l2
  <2> QED  BY <1>1, <1>4, <2>1, RateFresh
<1> HIDE DEF l2
<1>6. Fresh(l3, o) /\ l3.constant = all
  <2>0. l2.set = o  BY <1>5 DEF Fresh
  <2>1. l3 = l2 \/ (~IsSet(o.drop) /\ l3 = AddRandom(l2, DropAll))
    BY <2>0 DEF SetUserDrop
  <2>2. ~IsSet(o.drop) => ~Lists(o)  BY DEF Lists
  <2> HIDE DEF l3
  <2> QED  BY <1>1, <1>5, <2>1, <2>2, EventFresh, EventsTyped
<1> HIDE DEF l3
<1>7. Fresh(l4, o) /\ l4.constant = all
  <2>1. l4 = l3 \/ l4 = AddRandom(l3, FlipBits)  BY DEF SetUserFlip
  <2> HIDE DEF l4
  <2> QED  BY <1>1, <1>6, <2>1, EventFresh, EventsTyped
<1> HIDE DEF l4
<1>8. Fresh(l5, o) /\ l5.constant = all
  <2>1. l5 = l4 \/ l5 = SetRandSeed(l4, l0.nextSeed)  BY DEF SetUserSeed
  <2>2. l0.nextSeed \in Int  BY <1>3 DEF Fresh
  <2> HIDE DEF l5
  <2> QED  BY <1>7, <2>1, <2>2, SeedFresh
<1> HIDE DEF l5
<1> DEFINE l == Started(s, p)
<1>9. Fresh(l, o) /\ l.constant = all
  <2> HIDE DEF l
  <2>1. l = [l5 EXCEPT !.nextSeed = l5.nextSeed + 1]  BY <1>2 DEF l
  <2>2. l5.nextSeed + 1 \in Nat  BY <1>8 DEF Fresh
  <2> QED  BY <1>8, <2>1, <2>2 DEF Fresh
<1>10. l.seed \in Seeds  BY SeedsAssumption
<1> HIDE DEF l
<1>11. l \in Library
  BY <1>1, <1>9, <1>10 DEF Fresh, Library, Override
<1> QED  BY <1>9, <1>11 DEF l, all, o, Fresh

\* The drop list of settings o names message n.
Names(o, n) == IsSet(o.drop) /\ n \in Numbers(o.drop[1])

\* The constant events when there is a drop list.
LEMMA PairOf ==
  ASSUME NEW d, NEW e
  PROVE  /\ DOMAIN Append(<<d>>, e) = {1, 2}
         /\ Append(<<d>>, e)[1] = d /\ Append(<<d>>, e)[2] = e
<1> DEFINE q == Append(<<d>>, e)
<1>1. <<d>> \in Seq({d, e}) /\ Len(<<d>>) = 1 /\ <<d>>[1] = d  OBVIOUS
<1>2. e \in {d, e}  OBVIOUS
<1>3. /\ q \in Seq({d, e}) /\ Len(q) = Len(<<d>>) + 1
      /\ \A i \in 1 .. Len(<<d>>) : q[i] = <<d>>[i]
      /\ q[Len(<<d>>) + 1] = e
  BY <1>1, <1>2, AppendProperties
<1>4. DOMAIN q = 1 .. Len(q)  BY <1>3, LenProperties
<1> HIDE DEF q
<1>5. Len(q) = 2 /\ q[2] = e  BY <1>1, <1>3
<1>6. q[1] = d
  <2>1. 1 \in 1 .. Len(<<d>>)  BY <1>1
  <2> QED  BY <1>1, <1>3, <2>1
<1>7. DOMAIN q = {1, 2}
  <2>1. \A n \in Nat : n = 2 => 1 .. n = {1, 2}  OBVIOUS
  <2> QED  BY <1>4, <1>5, <2>1
<1> QED  BY <1>5, <1>6, <1>7 DEF q

\* The list is the only constant event that drops.
LEMMA ListedIs ==
  ASSUME NEW o \in Override, NEW l, l.constant = Append(ListEvents(o), InfoSeqNo),
         l.reported \in Nat, NEW n \in Nat
  PROVE  /\ Listed(l, n) <=> Names(o, n)
         /\ Reported(l, n) = l.reported + (IF Names(o, n) THEN 0 ELSE 1)
<1> DEFINE N == Numbers(o.drop[1])
           I == {i \in DOMAIN l.constant :
                   /\ l.constant[i].kind = "info"
                   /\ \A j \in 1 .. i - 1 : ~Drops(l.constant[j], n)}
<1>1. ~Drops(InfoSeqNo, n) /\ InfoSeqNo.kind = "info"  BY DEF Drops, InfoSeqNo
<1>2. (Drops(DropThese(N), n) <=> n \in N) /\ DropThese(N).kind # "info"
  BY DEF Drops, DropThese
<1>3. Reported(l, n) = l.reported + Cardinality(I)  BY DEF Reported
<1>4. CASE IsSet(o.drop) /\ N # {}
  <2>2. /\ DOMAIN l.constant = {1, 2}
        /\ l.constant[1] = DropThese(N) /\ l.constant[2] = InfoSeqNo
    <3>1. ListEvents(o) = <<DropThese(N)>>  BY <1>4 DEF ListEvents
    <3> QED  BY <3>1, PairOf
  <2>3. Names(o, n) <=> n \in N  BY <1>4 DEF Names
  <2> HIDE DEF N
  <2>4. Listed(l, n) <=> n \in N  BY <1>1, <1>2, <2>2 DEF Listed
  <2>5. I = IF n \in N THEN {} ELSE {2}
    <3>1. 1 \notin I  BY <1>2, <2>2
    <3>2. 2 \in I <=> n \notin N
      <4>1. 1 .. 2 - 1 = {1}  OBVIOUS
      <4> QED  BY <1>1, <1>2, <2>2, <4>1
    <3>3. I \subseteq {1, 2}  BY <2>2
    <3> HIDE DEF I
    <3> QED  BY <3>1, <3>2, <3>3
  <2>6. Cardinality(I) = IF n \in N THEN 0 ELSE 1
    <3> HIDE DEF I
    <3> QED  BY <2>5, FS_EmptySet, FS_Singleton
  <2> QED  BY <1>3, <2>3, <2>4, <2>6
<1>5. CASE ~ (IsSet(o.drop) /\ N # {})
  <2>1. l.constant = <<InfoSeqNo>>
    <3>1. ListEvents(o) = << >>  BY <1>5 DEF ListEvents
    <3>2. \A e : Append(<< >>, e) = <<e>>  OBVIOUS
    <3> QED  BY <3>1, <3>2, Zenon
  <2>2. DOMAIN l.constant = {1} /\ l.constant[1] = InfoSeqNo
    <3>1. \A e : DOMAIN <<e>> = {1} /\ <<e>>[1] = e  OBVIOUS
    <3> QED  BY <2>1, <3>1, Zenon
  <2>3. ~Names(o, n)  BY <1>5 DEF Names
  <2>4. ~Listed(l, n)  BY <1>1, <2>2 DEF Listed
  <2>5. I = {1}
    <3>1. 1 .. 1 - 1 = {}  OBVIOUS
    <3> QED  BY <1>1, <2>2, <3>1
  <2>6. Cardinality(I) = 1
    <3> HIDE DEF I
    <3> QED  BY <2>5, FS_Singleton
  <2> QED  BY <1>3, <2>3, <2>4, <2>6
<1> QED  BY <1>4, <1>5

\* The draws used by a send with throws t, and whether it is dropped.
Used(l, t) ==
  IF Chosen(l, t) = {} THEN 1 ELSE IF FlipBits \in Chosen(l, t) THEN 3 ELSE 2
IsDropped(l, t) ==
  Listed(l, l.msgNo + 1) \/ \E e \in Chosen(l, t) : Drops(e, l.msgNo + 1)

\* The counters of a library.
WithCounts(l, m, d, n) == [l EXCEPT !.msgNo = m, !.drawn = d, !.reported = n]

\* The parts of the outcome of a send with throws t.
LibAfter(l, t) ==
  WithCounts(l, l.msgNo + 1, l.drawn + Used(l, t), Reported(l, l.msgNo + 1))
RandAfter(l, r, t) ==
  IF l.drawn + Used(l, t) <= Len(r[l.seed]) THEN r
  ELSE [r EXCEPT ![l.seed] = SubSeq(r[l.seed], 1, l.drawn) \o SubSeq(t, 1, Used(l, t))]
OutOf(l, b, t) ==
  IF IsDropped(l, t) THEN << >>
  ELSE IF FlipBits \in Chosen(l, t) THEN <<FlipByte(b, FlippedByte(b, t))>> ELSE <<b>>

\* They are what Sent puts together.
LEMMA SentIs ==
  ASSUME NEW l, NEW r, NEW b, NEW t
  PROVE  /\ Sent(l, r, b, t).lib = LibAfter(l, t)
         /\ Sent(l, r, b, t).rand = RandAfter(l, r, t)
         /\ Sent(l, r, b, t).out = OutOf(l, b, t)
  BY Zenon
  DEF Sent, Used, IsDropped, Counted, WithCounts, LibAfter, RandAfter, OutOf

\* What a send counts keeps the rest of the library.
LEMMA CountsKeep ==
  ASSUME NEW l \in Library, NEW t
  PROVE  LET k == LibAfter(l, t)
             n == l.msgNo + 1
         IN  /\ k.msgNo = n /\ k.drawn = l.drawn + Used(l, t)
             /\ k.reported = Reported(l, n)
             /\ k.rate = l.rate /\ k.constant = l.constant
             /\ k.chance = l.chance /\ k.seed = l.seed
             /\ Reported(l, n) \in Nat => k \in Library
<1> DEFINE m == l.msgNo + 1
           d == l.drawn + Used(l, t)
           n == Reported(l, m)
           k == WithCounts(l, m, d, n)
<1>1. m \in Nat /\ d \in Nat
  <2>1. Used(l, t) \in {1, 2, 3}  BY DEF Used
  <2>2. l.msgNo \in Nat /\ l.drawn \in Nat  BY DEF Library
  <2> QED  BY <2>1, <2>2
<1>2. LibAfter(l, t) = k  BY DEF LibAfter
<1> HIDE DEF m, d, n
<1>3. /\ k.msgNo = m /\ k.drawn = d /\ k.reported = n
      /\ k.rate = l.rate /\ k.constant = l.constant
      /\ k.chance = l.chance /\ k.seed = l.seed
  BY DEF Library, WithCounts
<1>4. n \in Nat => k \in Library  BY <1>1 DEF Library, WithCounts
<1> HIDE DEF k
<1> QED  BY <1>2, <1>3, <1>4 DEF m, d, n

\* A byte that is not there is not flipped; two flips of a byte restore it.
LEMMA FlipAnywhere ==
  ASSUME NEW b \in Bytes, NEW i
  PROVE  /\ FlipByte(b, i) \in Bytes /\ Len(FlipByte(b, i)) = Len(b)
         /\ FlipByte(b, i) = b \/ i \in 1 .. Len(b)
         /\ FlipByte(FlipByte(b, i), i) = b
<1>1. DOMAIN b = 1 .. Len(b) /\ Len(b) \in Nat  BY BytesOf
<1>2. CASE i \in 1 .. Len(b)
  <2> DEFINE f == FlipByte(b, i)
             g == FlipByte(f, i)
  <2>1. f \in Bytes /\ Len(f) = Len(b)  BY <1>2, FlipTyped
  <2>2. f[i] = (Byte - 1) - b[i] /\ \A k \in 1 .. Len(b) : k # i => f[k] = b[k]
    BY <1>1, <1>2 DEF FlipByte
  <2> HIDE DEF f
  <2>3. g \in Bytes /\ Len(g) = Len(f)  BY <1>2, <2>1, FlipTyped
  <2>4. g[i] = (Byte - 1) - f[i] /\ \A k \in 1 .. Len(b) : k # i => g[k] = f[k]
    <3>1. DOMAIN f = 1 .. Len(b)  BY <2>1, BytesOf
    <3> QED  BY <1>2, <3>1 DEF FlipByte
  <2> HIDE DEF g
  <2>5. g[i] = b[i]
    <3>1. b[i] \in Nat /\ Byte \in Nat  BY <1>2, BytesOf, Sizes
    <3> QED  BY <2>2, <2>4, <3>1
  <2>6. \A k \in 1 .. Len(g) : g[k] = b[k]  BY <2>1, <2>2, <2>3, <2>4, <2>5
  <2>7. g = b  BY <2>1, <2>3, <2>6, SeqEqual DEF Bytes
  <2> QED  BY <1>2, <2>1, <2>7 DEF f, g
<1>3. CASE i \notin 1 .. Len(b)
  <2>1. FlipByte(b, i) = b
    <3>1. b \in [1 .. Len(b) -> ByteValue]  BY LenProperties DEF Bytes
    <3> QED  BY <1>3, <3>1 DEF FlipByte
  <2> QED  BY <2>1
<1> QED  BY <1>2, <1>3

\* The throws are three draws.
LEMMA ThrowTyped ==
  ASSUME NEW l, NEW r, NEW t \in Throws(r, l)
  PROVE  t \in Seq(Draws) /\ Len(t) = 3 /\ \A i \in 1 .. 3 : t[i] \in Draws
         /\ t[1] \in Draws
<1>1. t \in [1 .. 3 -> Draws]  BY DEF Throws
<1>2. PICK n \in Nat : n = 3  OBVIOUS
<1>3. t \in [1 .. n -> Draws]  BY <1>1, <1>2
<1>4. t \in Seq(Draws) /\ Len(t) = n  BY <1>3, SeqDef, LenProperties
<1>5. 1 \in 1 .. n  BY <1>2
<1> QED  BY <1>2, <1>3, <1>4, <1>5

\* The entry of a list that a draw picks is one of the list's.
LEMMA PickedIndex ==
  ASSUME NEW n \in Nat, NEW d \in Nat, Dice \in Nat, Dice >= 1, d <= Dice - 1, n >= 1
  PROVE  1 + (n * d) \div Dice \in 1 .. n
<1> DEFINE x == n * d
           h == x \div Dice
<1>1. x \in Nat /\ x <= n * (Dice - 1)
  <2>1. Dice - 1 - d \in Nat  OBVIOUS
  <2>2. n * (Dice - 1 - d) \in Nat  BY <2>1
  <2>3. n * (Dice - 1 - d) = n * (Dice - 1) - n * d  OBVIOUS
  <2>4. n * d \in Nat /\ n * (Dice - 1) \in Int  OBVIOUS
  <2> QED  BY <2>2, <2>3, <2>4
<1>2. n * (Dice - 1) = Dice * n - n /\ Dice * n \in Nat  OBVIOUS
<1> HIDE DEF x
<1>3. h \in Nat /\ x % Dice \in Nat /\ x = Dice * h + (x % Dice)
  BY <1>1, Division
<1>4. Dice * h \in Nat  BY <1>3
<1> HIDE DEF h
<1>5. h < n
  <2> SUFFICES ASSUME h >= n PROVE FALSE  BY <1>3
  <2>1. h - n \in Nat  BY <1>3
  <2>2. Dice * (h - n) \in Nat  BY <2>1
  <2>3. Dice * (h - n) = Dice * h - Dice * n  BY <1>3
  <2> DEFINE y == Dice * h
             z == Dice * n
             w == x % Dice
  <2>4. y \in Nat /\ z \in Nat /\ w \in Nat /\ y - z \in Nat
        /\ x = y + w /\ x <= z - n
    BY <1>1, <1>2, <1>3, <1>4, <2>2, <2>3
  <2> HIDE DEF y, z, w
  <2> QED  BY <1>1, <2>4
<1>6. 1 + h \in 1 .. n  BY <1>3, <1>5
<1> QED  BY <1>6 DEF h, x

\* When all chance events are one event, that is what chance chooses.
LEMMA OneOfThem ==
  ASSUME NEW l, NEW r, NEW t \in Throws(r, l), NEW e, l.chance \in Seq({e})
  PROVE  Chosen(l, t) \subseteq {e}
<1>1. CASE l.chance = << >>  BY <1>1 DEF Chosen
<1>2. CASE l.chance # << >>
  <2> DEFINE n == Len(l.chance)
             d == t[2]
             i == 1 + (n * d) \div Dice
  <2>1. n \in Nat /\ n >= 1  BY <1>2, EmptySeq, LenProperties
  <2>2. d \in Nat /\ d <= Dice - 1 /\ Dice \in Nat /\ Dice >= 1
    <3>1. 2 \in 1 .. 3  OBVIOUS
    <3>2. d \in Draws  BY <3>1, ThrowTyped
    <3>3. d \in 0 .. Dice - 1 /\ Dice \in Nat /\ Dice # 0  BY <3>2, SendErrAssumption
    <3> HIDE DEF d
    <3> QED  BY <3>3
  <2>3. Chosen(l, t) \subseteq {l.chance[i]}  BY DEF Chosen
  <2> HIDE DEF n, d
  <2>4. i \in 1 .. n  BY <2>1, <2>2, PickedIndex
  <2> HIDE DEF i
  <2>5. l.chance[i] \in {e}  BY <2>4, ElementOfSeq DEF n
  <2> QED  BY <2>3, <2>5
<1> QED  BY <1>1, <1>2

\* What a send leaves behind.
LEMMA SendKeeps ==
  ASSUME NEW o \in Override, NEW l \in Library, NEW r \in [Seeds -> Seq(Draws)],
         l.constant = Append(ListEvents(o), InfoSeqNo),
         Lists(o) => l.chance \in Seq({FlipBits}),
         l.drawn <= Len(r[l.seed]),
         NEW b \in Bytes, NEW s \in SendtoErr(l, r, b)
  PROVE  /\ s.lib \in Library /\ s.lib.msgNo = l.msgNo + 1
         /\ s.lib.rate = l.rate /\ s.lib.constant = l.constant
         /\ s.lib.chance = l.chance /\ s.lib.seed = l.seed
         /\ s.lib.reported = l.reported + (IF Names(o, l.msgNo + 1) THEN 0 ELSE 1)
         /\ s.rand \in [Seeds -> Seq(Draws)]
         /\ s.lib.drawn <= Len(s.rand[l.seed])
         /\ \A x \in Seeds : Len(r[x]) <= Len(s.rand[x])
         /\ \/ s.out = << >>
            \/ \E x \in Bytes : /\ s.out = <<x>>
                                /\ x = b \/ \E i \in 1 .. Len(b) : x = FlipByte(b, i)
         /\ Names(o, l.msgNo + 1) => s.out = << >>
         /\ Lists(o) => (s.out = << >> <=> Names(o, l.msgNo + 1))
<1>1. PICK t \in Throws(r, l) : s = Sent(l, r, b, t)  BY DEF SendtoErr
<1>2. s.lib = LibAfter(l, t) /\ s.rand = RandAfter(l, r, t) /\ s.out = OutOf(l, b, t)
  BY <1>1, SentIs
<1>3. /\ l.msgNo \in Nat /\ l.drawn \in Nat /\ l.reported \in Nat /\ l.seed \in Seeds
      /\ l.rate \in Nat
  BY DEF Library
<1>4. /\ Listed(l, l.msgNo + 1) <=> Names(o, l.msgNo + 1)
      /\ Reported(l, l.msgNo + 1) =
           l.reported + (IF Names(o, l.msgNo + 1) THEN 0 ELSE 1)
  BY <1>3, ListedIs
<1>5. Used(l, t) \in {1, 2, 3}  BY DEF Used
<1>6. /\ s.lib \in Library /\ s.lib.msgNo = l.msgNo + 1
      /\ s.lib.drawn = l.drawn + Used(l, t)
      /\ s.lib.rate = l.rate /\ s.lib.constant = l.constant
      /\ s.lib.chance = l.chance /\ s.lib.seed = l.seed
      /\ s.lib.reported = l.reported + (IF Names(o, l.msgNo + 1) THEN 0 ELSE 1)
  <2>1. Reported(l, l.msgNo + 1) \in Nat  BY <1>3, <1>4
  <2>2. l \in Library  OBVIOUS
  <2> DEFINE k == LibAfter(l, t)
             n == l.msgNo + 1
  <2>3. /\ k.msgNo = n /\ k.drawn = l.drawn + Used(l, t)
        /\ k.reported = Reported(l, n)
    BY CountsKeep
  <2>4. /\ k.rate = l.rate /\ k.constant = l.constant
        /\ k.chance = l.chance /\ k.seed = l.seed
    BY CountsKeep
  <2>5. k \in Library  BY <2>1, CountsKeep
  <2>6. s.lib = k  BY <1>2
  <2> HIDE DEF k
  <2> QED  BY <1>4, <2>3, <2>4, <2>5, <2>6, Zenon
<1>7. /\ s.rand \in [Seeds -> Seq(Draws)]
      /\ s.lib.drawn <= Len(s.rand[l.seed])
      /\ \A x \in Seeds : Len(r[x]) <= Len(s.rand[x])
  <2> DEFINE q == SubSeq(r[l.seed], 1, l.drawn)
             u == SubSeq(t, 1, Used(l, t))
  <2>1. r[l.seed] \in Seq(Draws) /\ Len(r[l.seed]) \in Nat
    <3>1. r[l.seed] \in Seq(Draws)  BY <1>3
    <3> QED  BY <3>1, LenProperties
  <2>2. \A x \in Seeds : Len(r[x]) \in Nat  BY LenProperties
  <2>3. CASE l.drawn + Used(l, t) <= Len(r[l.seed])
    <3>1. s.rand = r  BY <1>2, <2>3 DEF RandAfter
    <3> QED  BY <1>6, <2>2, <2>3, <3>1
  <2>4. CASE ~ (l.drawn + Used(l, t) <= Len(r[l.seed]))
    <3>1. q \in Seq(Draws) /\ Len(q) = l.drawn
      BY <1>3, <2>1, SubSeqProperties
    <3>2. u \in Seq(Draws) /\ Len(u) = Used(l, t)
      <4>2. t \in Seq(Draws) /\ Len(t) = 3  BY <1>1, ThrowTyped
      <4> DEFINE k == Used(l, t)
      <4>3. k \in {1, 2, 3}  BY <1>5
      <4> HIDE DEF k
      <4>4. SubSeq(t, 1, k) \in Seq(Draws) /\ Len(SubSeq(t, 1, k)) = k
        <5>1. k \in Int /\ 1 <= k /\ k - 1 + 1 = k  BY <4>3
        <5>2. \A i \in 1 .. k : i \in 1 .. 3  BY <4>3
        <5>3. \A i \in 1 .. k : t[i] \in Draws  BY <1>1, <5>2, ThrowTyped
        <5> QED  BY <5>1, <5>3, SubSeqProperties
      <4> QED  BY <4>4 DEF k
    <3>3. s.rand = [r EXCEPT ![l.seed] = q \o u]  BY <1>2, <2>4 DEF RandAfter
    <3> HIDE DEF q, u
    <3>4. q \o u \in Seq(Draws) /\ Len(q \o u) = l.drawn + Used(l, t)
      <4>1. q \in Seq(Draws) /\ u \in Seq(Draws)  BY <3>1, <3>2
      <4>2. q \o u \in Seq(Draws) /\ Len(q \o u) = Len(q) + Len(u)
        BY <4>1, ConcatProperties
      <4> QED  BY <3>1, <3>2, <4>2, Zenon
    <3>5. s.rand \in [Seeds -> Seq(Draws)] /\ s.rand[l.seed] = q \o u
      BY <1>3, <3>3, <3>4
    <3>6. \A x \in Seeds : x # l.seed => s.rand[x] = r[x]  BY <3>3
    <3>7. Len(r[l.seed]) <= l.drawn + Used(l, t)  BY <1>3, <1>5, <2>1, <2>4
    <3>8. ASSUME NEW x \in Seeds PROVE Len(r[x]) <= Len(s.rand[x])
      <4>1. CASE x = l.seed  BY <3>4, <3>5, <3>7, <4>1
      <4>2. CASE x # l.seed  BY <2>2, <3>6, <4>2
      <4> QED  BY <4>1, <4>2
    <3>9. l.drawn + Used(l, t) <= l.drawn + Used(l, t)  BY <1>3, <1>5
    <3>10. s.lib.drawn <= Len(s.rand[l.seed])  BY <1>6, <3>4, <3>5, <3>9
    <3> QED  BY <3>5, <3>8, <3>10
  <2> QED  BY <2>3, <2>4
<1>8. \/ s.out = << >>
      \/ \E x \in Bytes : /\ s.out = <<x>>
                          /\ x = b \/ \E i \in 1 .. Len(b) : x = FlipByte(b, i)
  <2> DEFINE i == FlippedByte(b, t)
  <2>1. s.out \in {<< >>, <<FlipByte(b, i)>>, <<b>>}  BY <1>2 DEF OutOf
  <2> HIDE DEF i
  <2>2. FlipByte(b, i) \in Bytes /\ (FlipByte(b, i) = b \/ i \in 1 .. Len(b))
    BY FlipAnywhere
  <2> QED  BY <2>1, <2>2
<1>9. Names(o, l.msgNo + 1) => s.out = << >>  BY <1>2, <1>4 DEF IsDropped, OutOf
<1>10. Lists(o) => (s.out = << >> <=> Names(o, l.msgNo + 1))
  <2> SUFFICES ASSUME Lists(o), ~Names(o, l.msgNo + 1) PROVE s.out # << >>
    BY <1>9
  <2>1. Chosen(l, t) \subseteq {FlipBits}
    <3>1. l.chance \in Seq({FlipBits})  OBVIOUS
    <3> QED  BY <1>1, <3>1, OneOfThem
  <2>2. \A n : ~Drops(FlipBits, n)  BY DEF Drops, FlipBits
  <2>3. ~IsDropped(l, t)  BY <1>4, <2>1, <2>2 DEF IsDropped
  <2>4. s.out = <<b>> \/ s.out = <<FlipByte(b, FlippedByte(b, t))>>
    BY <1>2, <2>3 DEF OutOf
  <2>5. \A x : <<x>> # << >>  OBVIOUS
  <2> QED  BY <2>4, <2>5, Zenon
<1> QED  BY <1>6, <1>7, <1>8, <1>9, <1>10

\* A library of a process without overrides that has sent nothing.
Plain(rate, constant, chance, seed, next) ==
  [rate |-> rate, msgNo |-> 0, constant |-> constant, chance |-> chance,
   seed |-> seed, drawn |-> 0, nextSeed |-> next, set |-> NoOverrides, reported |-> 0]

\* What the start does to it, call by call.
LEMMA PlainLoads ==
  ASSUME NEW x, NEW con, NEW ch, NEW sd, NEW nx
  PROVE  /\ LoadFlip(LoadDrop(LoadRate(LoadSeed(Plain(x, con, ch, sd, nx)))))
              = Plain(x, con, ch, sd, nx)
         /\ Plain(x, con, ch, sd, nx).nextSeed = nx
<1> DEFINE l == Plain(x, con, ch, sd, nx)
<1>1. ~IsSet(NoOverrides.seed) /\ ~IsSet(NoOverrides.rate)
      /\ ~IsSet(NoOverrides.drop) /\ ~IsSet(NoOverrides.flip)
  BY DEF NoOverrides, IsSet
<1>2. l.set = NoOverrides /\ l.nextSeed = nx  BY DEF Plain
<1>3. LoadSeed(l) = l /\ LoadRate(l) = l /\ LoadDrop(l) = l /\ LoadFlip(l) = l
  <2> HIDE DEF l
  <2> QED  BY <1>1, <1>2 DEF LoadSeed, LoadRate, LoadDrop, LoadFlip
<1> HIDE DEF l
<1>4. LoadFlip(LoadDrop(LoadRate(LoadSeed(l)))) = l  BY <1>3, Zenon
<1> QED  BY <1>2, <1>4 DEF l

\* An event more.
AddTo(events, e) == Append(events, e)

\* The constant event it adds.
LEMMA PlainInfo ==
  ASSUME NEW x, NEW con, NEW ch, NEW sd, NEW nx
  PROVE  AddStandard(Plain(x, con, ch, sd, nx), InfoSeqNo)
           = Plain(x, AddTo(con, InfoSeqNo), ch, sd, nx)
  BY DEF AddStandard, Plain, AddTo

\* The chance events it adds.
DropOn(l) == SetUserDrop(l, TRUE)
FlipOn(l) == SetUserFlip(l, TRUE)

\* Random drops.
LEMMA PlainDrops ==
  ASSUME NEW x, NEW con, NEW ch, NEW sd, NEW nx
  PROVE  DropOn(Plain(x, con, ch, sd, nx))
           = Plain(x, con, AddTo(ch, DropAll), sd, nx)
<1> DEFINE l == Plain(x, con, ch, sd, nx)
<1>1. l.set = NoOverrides /\ ~IsSet(NoOverrides.drop)
  BY DEF Plain, NoOverrides, IsSet
<1>2. SetUserDrop(l, TRUE) = [l EXCEPT !.chance = Append(@, DropAll)]
  <2> HIDE DEF l
  <2> QED  BY <1>1 DEF SetUserDrop, AddRandom
<1>3. [l EXCEPT !.chance = Append(@, DropAll)] = Plain(x, con, AddTo(ch, DropAll), sd, nx)
  BY DEF Plain, AddTo
<1> QED  BY <1>2, <1>3 DEF DropOn

\* Random flips.
LEMMA PlainFlips ==
  ASSUME NEW x, NEW con, NEW ch, NEW sd, NEW nx
  PROVE  FlipOn(Plain(x, con, ch, sd, nx))
           = Plain(x, con, AddTo(ch, FlipBits), sd, nx)
<1> DEFINE l == Plain(x, con, ch, sd, nx)
<1>1. l.set = NoOverrides /\ ~IsSet(NoOverrides.flip)
  BY DEF Plain, NoOverrides, IsSet
<1>2. SetUserFlip(l, TRUE) = [l EXCEPT !.chance = Append(@, FlipBits)]
  <2> HIDE DEF l
  <2> QED  BY <1>1 DEF SetUserFlip, AddRandom
<1>3. [l EXCEPT !.chance = Append(@, FlipBits)] = Plain(x, con, AddTo(ch, FlipBits), sd, nx)
  BY DEF Plain, AddTo
<1> QED  BY <1>2, <1>3 DEF FlipOn

\* The same for the rate and the seed.
LEMMA PlainSets ==
  ASSUME NEW x, NEW con, NEW ch, NEW sd, NEW nx, NEW y
  PROVE  /\ SetUserRate(Plain(x, con, ch, sd, nx), y) = Plain(y, con, ch, sd, nx)
         /\ SetUserSeed(Plain(x, con, ch, sd, nx), y) = Plain(x, con, ch, y, nx)
<1> DEFINE l == Plain(x, con, ch, sd, nx)
<1>1. l.set = NoOverrides /\ ~IsSet(NoOverrides.seed) /\ ~IsSet(NoOverrides.rate)
  BY DEF Plain, NoOverrides, IsSet
<1>2. SetUserRate(l, y) = [l EXCEPT !.rate = y]
      /\ SetUserSeed(l, y) = [l EXCEPT !.seed = y, !.drawn = 0]
  <2> HIDE DEF l
  <2> QED  BY <1>1 DEF SetUserRate, SetUserSeed, SetRandSeed
<1>3. [l EXCEPT !.rate = y] = Plain(y, con, ch, sd, nx)  BY DEF Plain
<1>4. [l EXCEPT !.seed = y, !.drawn = 0] = Plain(x, con, ch, y, nx)
  <2> DEFINE m == Plain(x, con, ch, y, nx)
  <2>1. [l EXCEPT !.seed = y] = m  BY DEF Plain
  <2>2. [l EXCEPT !.seed = y, !.drawn = 0] = [[l EXCEPT !.seed = y] EXCEPT !.drawn = 0]
    OBVIOUS
  <2>3. [m EXCEPT !.drawn = 0] = m  BY DEF Plain
  <2> QED  BY <2>1, <2>2, <2>3, Zenon
<1> QED  BY <1>2, <1>3, <1>4

\* A program of the lab as its README starts it: random drops and flips, one seed.
LEMMA StartedPlain ==
  ASSUME NEW s \in Setups, NEW p \in Programs, s.set[p] = NoOverrides
  PROVE  /\ Started(s, p).chance = Append(<<DropAll>>, FlipBits)
         /\ Started(s, p).seed = RANDOM_SEED
         /\ Started(s, p).rate = s.rate[p]
<1> DEFINE r == s.rate[p]
           n == RANDOM_SEED
           none == << >>
           con == AddTo(none, InfoSeqNo)
           ch == AddTo(none, DropAll)
           ch2 == AddTo(ch, FlipBits)
           a0 == Plain(0, none, none, 0, n)
           a5 == Plain(r, con, ch2, n, n)
<1>1. Loaded(NoOverrides, 0) = a0
  <2>1. Loaded(NoOverrides, 0) = LoadFlip(LoadDrop(LoadRate(LoadSeed(a0))))
    BY DEF Loaded, Plain
  <2> QED  BY <2>1, PlainLoads
<1>2. a0.nextSeed = n  BY PlainLoads
<1> HIDE DEF none, r, n
<1>3. AddStandard(a0, InfoSeqNo) = Plain(0, con, none, 0, n)  BY PlainInfo
<1>4. SetUserRate(Plain(0, con, none, 0, n), r) = Plain(r, con, none, 0, n)
  BY PlainSets
<1>5. DropOn(Plain(r, con, none, 0, n)) = Plain(r, con, ch, 0, n)
  BY PlainDrops
<1>6. FlipOn(Plain(r, con, ch, 0, n)) = Plain(r, con, ch2, 0, n)
  BY PlainFlips
<1>7. SetUserSeed(Plain(r, con, ch2, 0, n), n) = a5  BY PlainSets
<1>8. Started(s, p) =
        [SetUserSeed(FlipOn(DropOn(SetUserRate(
           AddStandard(Loaded(NoOverrides, 0), InfoSeqNo), r))),
           Loaded(NoOverrides, 0).nextSeed)
         EXCEPT !.nextSeed = @ + 1]
  BY DEF Started, SendErrInit, DropOn, FlipOn, r
<1>9. Started(s, p) = [a5 EXCEPT !.nextSeed = @ + 1]
  <2>1. Started(s, p) =
          [SetUserSeed(FlipOn(DropOn(SetUserRate(
             AddStandard(a0, InfoSeqNo), r))), n)
           EXCEPT !.nextSeed = @ + 1]
    BY <1>1, <1>2, <1>8
  <2> HIDE DEF a0, a5, ch, ch2, con
  <2> QED  BY <1>3, <1>4, <1>5, <1>6, <1>7, <2>1
<1>10. Started(s, p).chance = ch2 /\ Started(s, p).seed = n /\ Started(s, p).rate = r
  BY <1>9 DEF Plain
<1>11. ch = <<DropAll>>
  <2>1. \A e : Append(<< >>, e) = <<e>>  OBVIOUS
  <2> QED  BY <2>1, Zenon DEF none, AddTo
<1> QED  BY <1>10, <1>11 DEF r, n, AddTo

-----------------------------------------------------------------------------
(***************************************************************************)
(* Two libraries that throw the same dice                                  *)
(***************************************************************************)

\* A library of the lab as its README starts it.
InLab(l) ==
  /\ l \in Library
  /\ l.chance = Append(<<DropAll>>, FlipBits)
  /\ l.constant = Append(ListEvents(NoOverrides), InfoSeqNo)

\* It drops a message when the dice say so, and for no other reason.
LEMMA LabDrops ==
  ASSUME NEW l, InLab(l), NEW r, NEW t \in Throws(r, l)
  PROVE  IsDropped(l, t) <=> DropAll \in Chosen(l, t)
<1>1. l.msgNo \in Nat /\ l.reported \in Nat  BY DEF InLab, Library
<1>2. NoOverrides \in Override /\ ~IsSet(NoOverrides.drop)
  BY EmptySeq DEF NoOverrides, Override, IsSet, Unset
<1>3. ~Listed(l, l.msgNo + 1)
  <2>1. l.msgNo + 1 \in Nat  BY <1>1
  <2>2. ~Names(NoOverrides, l.msgNo + 1)  BY <1>2 DEF Names
  <2> QED  BY <1>1, <1>2, <2>1, <2>2, ListedIs DEF InLab
<1>4. Chosen(l, t) \subseteq {DropAll, FlipBits}
  <2> DEFINE i == (2 * t[2]) \div Dice
  <2>1. l.chance[1] = DropAll /\ l.chance[2] = FlipBits /\ Len(l.chance) = 2
    <3>1. DOMAIN l.chance = {1, 2} /\ l.chance[1] = DropAll /\ l.chance[2] = FlipBits
      BY PairOf DEF InLab
    <3>2. Len(l.chance) = 2
      <4>1. l.chance \in Seq(Event)  BY DEF InLab, Library
      <4>2. Len(l.chance) \in Nat /\ DOMAIN l.chance = 1 .. Len(l.chance)
        BY <4>1, LenProperties
      <4>3. \A n \in Nat : 1 .. n = {1, 2} => n = 2
        <5> SUFFICES ASSUME NEW n \in Nat, 1 .. n = {1, 2} PROVE n = 2  OBVIOUS
        <5>1. 2 \in 1 .. n /\ 3 \notin 1 .. n  OBVIOUS
        <5> QED  BY <5>1
      <4> QED  BY <3>1, <4>2, <4>3
    <3> QED  BY <3>1, <3>2
  <2>2. t[2] \in Nat /\ t[2] <= Dice - 1 /\ Dice \in Nat /\ Dice >= 1
    <3>1. t[2] \in Draws
      <4>1. 2 \in 1 .. 3  OBVIOUS
      <4> QED  BY <4>1, ThrowTyped
    <3>2. t[2] \in 0 .. Dice - 1  BY <3>1, SendErrAssumption
    <3>3. Dice \in Nat /\ Dice # 0  BY SendErrAssumption
    <3> DEFINE x == t[2]
    <3> HIDE DEF x
    <3>4. x \in 0 .. Dice - 1  BY <3>2 DEF x
    <3>5. x \in Nat /\ x <= Dice - 1  BY <3>3, <3>4
    <3> QED  BY <3>3, <3>5 DEF x
  <2>3. i \in {0, 1}
    <3> DEFINE x == 2 * t[2]
    <3>1. x \in Nat /\ x <= 2 * Dice - 2 /\ Dice > 0  BY <2>2
    <3> HIDE DEF x
    <3>2. /\ x \div Dice \in Nat /\ x % Dice \in Nat
          /\ x = Dice * (x \div Dice) + (x % Dice)
      BY <2>2, <3>1, Division
    <3> DEFINE h == x \div Dice
    <3>3. h \in Nat /\ Dice * h <= 2 * Dice - 2
      <4> DEFINE y == Dice * h
                 z == x % Dice
      <4>1. y \in Nat /\ z \in Nat /\ x = y + z  BY <2>2, <3>2
      <4> HIDE DEF y, z
      <4>2. y <= 2 * Dice - 2  BY <2>2, <3>1, <4>1
      <4> QED  BY <3>2, <4>2 DEF y
    <3> HIDE DEF h
    <3>4. h <= 1
      <4> SUFFICES ASSUME h >= 2 PROVE FALSE  BY <3>3
      <4>1. h - 2 \in Nat  BY <3>3
      <4>2. Dice * (h - 2) \in Nat  BY <2>2, <4>1
      <4>3. Dice * (h - 2) = Dice * h - 2 * Dice /\ Dice * h \in Nat  BY <2>2, <3>3
      <4> QED  BY <2>2, <3>3, <4>2, <4>3
    <3> QED  BY <3>3, <3>4 DEF h, x
  <2>4. Chosen(l, t) \subseteq {l.chance[1 + i]}  BY <2>1 DEF Chosen
  <2> HIDE DEF i
  <2>5. 1 + i = 1 \/ 1 + i = 2  BY <2>3
  <2> QED  BY <2>1, <2>4, <2>5
<1>5. \A n : Drops(DropAll, n) /\ ~Drops(FlipBits, n)  BY DEF Drops, DropAll, FlipBits
<1> QED  BY <1>3, <1>4, <1>5 DEF IsDropped

\* Throws that agree on the draws a send uses choose the same event and byte.
LEMMA SameThrow ==
  ASSUME NEW l, NEW k, k.rate = l.rate, k.chance = l.chance, NEW t, NEW u,
         u[1] = t[1],
         Used(l, t) # 1 => u[2] = t[2],
         Used(l, t) = 3 => u[3] = t[3]
  PROVE  /\ Chosen(k, u) = Chosen(l, t)
         /\ Used(k, u) = Used(l, t)
         /\ FlipBits \in Chosen(l, t) =>
              \A b, c : Len(b) = Len(c) => FlippedByte(b, u) = FlippedByte(c, t)
<1>1. Chosen(k, u) = Chosen(l, t)
  <2>1. CASE l.chance # << >> /\ t[1] <= l.rate
    <3>1. Chosen(l, t) # {}  BY <2>1 DEF Chosen
    <3>2. Used(l, t) # 1  BY <3>1 DEF Used
    <3> QED  BY <2>1, <3>2 DEF Chosen
  <2>2. CASE ~ (l.chance # << >> /\ t[1] <= l.rate)
    BY <2>2 DEF Chosen
  <2> QED  BY <2>1, <2>2
<1>2. Used(k, u) = Used(l, t)  BY <1>1 DEF Used
<1>3. ASSUME FlipBits \in Chosen(l, t), NEW b, NEW c, Len(b) = Len(c)
      PROVE  FlippedByte(b, u) = FlippedByte(c, t)
  <2>1. Used(l, t) = 3  BY <1>3 DEF Used
  <2> QED  BY <1>3, <2>1 DEF FlippedByte
<1> QED  BY <1>1, <1>2, <1>3

\* A library of the lab sends what another sends that throws the same.
LEMMA SameOut ==
  ASSUME NEW l, InLab(l), NEW k, InLab(k), k.rate = l.rate, k.seed = l.seed,
         NEW r, NEW q, NEW b, NEW t \in Throws(r, l), t \in Throws(q, k)
  PROVE  /\ Used(k, t) = Used(l, t)
         /\ OutOf(k, b, t) = OutOf(l, b, t)
<1>1. k.chance = l.chance  BY DEF InLab
<1>2. Chosen(k, t) = Chosen(l, t) /\ Used(k, t) = Used(l, t)  BY <1>1, SameThrow
<1>3. IsDropped(k, t) <=> DropAll \in Chosen(k, t)  BY LabDrops
<1>4. IsDropped(l, t) <=> DropAll \in Chosen(l, t)  BY LabDrops
<1> QED  BY <1>2, <1>3, <1>4 DEF OutOf

\* A library at the end of the known draws makes them known; one that stands where
\* it stood may throw the same.
LEMMA ThrowsFollow ==
  ASSUME NEW l \in Library, NEW k \in Library, k.seed = l.seed, k.drawn = l.drawn,
         NEW r \in [Seeds -> Seq(Draws)], Len(r[l.seed]) = l.drawn,
         NEW t \in Throws(r, l)
  PROVE  /\ t \in Throws(RandAfter(l, r, t), k)
         /\ Len(RandAfter(l, r, t)[l.seed]) = l.drawn + Used(l, t)
<1> DEFINE q == SubSeq(r[l.seed], 1, l.drawn)
           n == Used(l, t)
           u == SubSeq(t, 1, n)
           z == RandAfter(l, r, t)
<1>1. l.drawn \in Nat /\ l.seed \in Seeds  BY DEF Library
<1>2. n \in {1, 2, 3}  BY DEF Used
<1>3. z = [r EXCEPT ![l.seed] = q \o u]
  <2>1. ~ (l.drawn + Used(l, t) <= Len(r[l.seed]))  BY <1>1, <1>2
  <2> QED  BY <2>1 DEF RandAfter
<1>4. q \in Seq(Draws) /\ Len(q) = l.drawn
  <2>1. r[l.seed] \in Seq(Draws)  BY <1>1
  <2> QED  BY <1>1, <2>1, SubSeqProperties, LenProperties
<1> HIDE DEF n
<1>5. u \in Seq(Draws) /\ Len(u) = n /\ \A i \in 1 .. n : u[i] = t[i]
  <2>1. t \in Seq(Draws) /\ Len(t) = 3  BY ThrowTyped
  <2>2. n \in Int /\ 1 <= n /\ n - 1 + 1 = n  BY <1>2
  <2>3. \A i \in 1 .. n : i \in 1 .. 3  BY <1>2
  <2>4. \A i \in 1 .. n : t[i] \in Draws  BY <2>3, ThrowTyped
  <2>5. /\ SubSeq(t, 1, n) \in Seq(Draws) /\ Len(SubSeq(t, 1, n)) = n - 1 + 1
        /\ \A i \in 1 .. n - 1 + 1 : SubSeq(t, 1, n)[i] = t[1 + i - 1]
    BY <2>2, <2>4, SubSeqProperties
  <2>6. \A i \in 1 .. n : 1 + i - 1 = i  OBVIOUS
  <2> QED  BY <2>2, <2>5, <2>6
<1> HIDE DEF q, u, z
<1>6. z[l.seed] = q \o u  BY <1>1, <1>3
<1>7. /\ Len(q \o u) = l.drawn + n
      /\ \A i \in 1 .. n : (q \o u)[l.drawn + i] = t[i]
  <2>1. /\ Len(q \o u) = Len(q) + Len(u)
        /\ \A i \in 1 .. Len(q) + Len(u) :
             (q \o u)[i] = IF i <= Len(q) THEN q[i] ELSE u[i - Len(q)]
    BY <1>4, <1>5, ConcatProperties
  <2> DEFINE v == q \o u
             d == l.drawn
  <2> HIDE DEF v, d
  <2>2. /\ Len(v) = d + n /\ d \in Nat /\ n \in Nat
        /\ \A i \in 1 .. d + n : v[i] = IF i <= d THEN q[i] ELSE u[i - d]
    BY <1>1, <1>2, <1>4, <1>5, <2>1 DEF v, d
  <2>3. ASSUME NEW i \in 1 .. n PROVE v[d + i] = t[i]
    <3>1. d + i \in 1 .. d + n /\ ~ (d + i <= d) /\ d + i - d = i  BY <2>2
    <3> QED  BY <1>5, <2>2, <3>1
  <2> QED  BY <2>2, <2>3 DEF v, d
<1>8. ASSUME NEW i \in 1 .. 3, k.drawn + i <= Len(z[k.seed])
      PROVE  t[i] = z[k.seed][k.drawn + i]
  <2>1. i \in 1 .. n
    <3>1. l.drawn + i <= l.drawn + n  BY <1>6, <1>7, <1>8
    <3> QED  BY <1>1, <1>2, <3>1
  <2> QED  BY <1>6, <1>7, <2>1
<1>9. t \in [1 .. 3 -> Draws]  BY DEF Throws
<1>10. t \in Throws(z, k)  BY <1>8, <1>9 DEF Throws
<1> QED  BY <1>6, <1>7, <1>10 DEF z, n

\* What one library has flipped another that throws the same dice flips back.
LEMMA FlipsBack ==
  ASSUME NEW k, InLab(k), NEW r \in [Seeds -> Seq(Draws)],
         NEW t \in Throws(r, k), NEW u \in Throws(r, k),
         k.drawn + Used(k, t) = Len(r[k.seed]),
         NEW b \in Bytes, NEW x, OutOf(k, b, t) = <<x>>
  PROVE  /\ OutOf(k, x, u) = <<b>>
         /\ Used(k, u) = Used(k, t)
         /\ RandAfter(k, r, u) = r
<1> DEFINE n == Used(k, t)
<1>1. k.drawn \in Nat  BY DEF InLab, Library
<1>2. n \in {1, 2, 3}  BY DEF Used
<1>3. ASSUME NEW i \in 1 .. 3, i <= n PROVE u[i] = t[i]
  <2> HIDE DEF n
  <2>1. k.drawn + i <= k.drawn + n  BY <1>1, <1>2, <1>3
  <2>2. k.drawn + i <= Len(r[k.seed])  BY <2>1 DEF n
  <2> QED  BY <2>2 DEF Throws
<1>4. u[1] = t[1] /\ (n # 1 => u[2] = t[2]) /\ (n = 3 => u[3] = t[3])
  <2> HIDE DEF n
  <2>1. 1 \in 1 .. 3 /\ 2 \in 1 .. 3 /\ 3 \in 1 .. 3  OBVIOUS
  <2>2. 1 <= n /\ (n # 1 => 2 <= n) /\ (n = 3 => 3 <= n)  BY <1>2
  <2> QED  BY <1>3, <2>1, <2>2
<1>5. /\ Chosen(k, u) = Chosen(k, t) /\ Used(k, u) = n
      /\ FlipBits \in Chosen(k, t) =>
           \A a, c : Len(a) = Len(c) => FlippedByte(a, u) = FlippedByte(c, t)
  BY <1>4, SameThrow
<1>6. ~IsDropped(k, t)
  <2>1. << >> # <<x>>  OBVIOUS
  <2> QED  BY <2>1 DEF OutOf
<1>7. ~IsDropped(k, u)
  <2>1. IsDropped(k, t) <=> DropAll \in Chosen(k, t)  BY LabDrops
  <2>2. IsDropped(k, u) <=> DropAll \in Chosen(k, u)  BY LabDrops
  <2> QED  BY <1>5, <1>6, <2>1, <2>2
<1>8. \A y, z : <<y>> = <<z>> => y = z  OBVIOUS
<1>9. OutOf(k, x, u) = <<b>>
  <2>1. CASE FlipBits \in Chosen(k, t)
    <3> DEFINE i == FlippedByte(b, t)
    <3>1. OutOf(k, b, t) = <<FlipByte(b, i)>>  BY <1>6, <2>1 DEF OutOf
    <3>2. x = FlipByte(b, i)  BY <1>8, <3>1
    <3>3. Len(x) = Len(b) /\ FlipByte(FlipByte(b, i), i) = b  BY <3>2, FlipAnywhere
    <3>4. FlippedByte(x, u) = i  BY <1>5, <2>1, <3>3
    <3>5. OutOf(k, x, u) = <<FlipByte(x, FlippedByte(x, u))>>
      BY <1>5, <1>7, <2>1 DEF OutOf
    <3> HIDE DEF i
    <3> QED  BY <3>2, <3>3, <3>4, <3>5
  <2>2. CASE FlipBits \notin Chosen(k, t)
    <3>1. OutOf(k, b, t) = <<b>>  BY <1>6, <2>2 DEF OutOf
    <3>2. OutOf(k, x, u) = <<x>>  BY <1>5, <1>7, <2>2 DEF OutOf
    <3> QED  BY <1>8, <3>1, <3>2
  <2> QED  BY <2>1, <2>2
<1>10. RandAfter(k, r, u) = r
  <2> HIDE DEF n
  <2>1. k.drawn + Used(k, u) = Len(r[k.seed])  BY <1>5 DEF n
  <2>2. k.drawn + Used(k, u) <= Len(r[k.seed])
    <3>1. k.drawn + Used(k, u) \in Nat  BY <1>1, <1>2, <1>5
    <3> QED  BY <2>1, <3>1
  <2> QED  BY <2>2 DEF RandAfter
<1> QED  BY <1>5, <1>9, <1>10

-----------------------------------------------------------------------------
(***************************************************************************)
(* The invariant at the start                                              *)
(***************************************************************************)

\* What a set-up is made of.
LEMMA SetupTyped ==
  ASSUME NEW s \in Setups
  PROVE  /\ s.clients \subseteq Clients
         /\ s.set \in [Programs -> Override]
         /\ \A c \in Clients : c \in Programs /\ c # Server
         /\ Server \in Programs
  BY UdpEchoAssumption DEF Setup, Override, Programs

\* Of an empty sequence.
LEMMA NothingIn ==
  Len(<< >>) = 0 /\ DOMAIN << >> = {} /\ 1 .. Len(<< >>) = {}
  OBVIOUS

\* Nothing has been sent, nothing dropped.
LEMMA InitIInv ==
  ASSUME Init
  PROVE  IInv
<1>1. setup \in Setups /\ setup.clients \subseteq Clients  BY SetupTyped DEF Init
<1>2. \A p \in Programs : lib[p] = Started(setup, p)  BY DEF Init
<1>3. ASSUME NEW p \in Programs
      PROVE  /\ lib[p] \in Library /\ lib[p].msgNo = 0 /\ lib[p].drawn = 0
             /\ lib[p].reported = 0
  BY <1>1, <1>2, StartedFresh
<1>4. ASSUME NEW c \in Clients
      PROVE  /\ client[c] \in ClientState
             /\ client[c].pc # "waiting"
             /\ client[c].pc # "done" => c \in setup.clients
             /\ toClient[c] = << >>
  <2> DEFINE pc == IF c \in setup.clients THEN "setup" ELSE "done"
  <2>1. client[c] = [pc |-> pc, seq |-> 0, pdu |-> << >>, keys |-> << >>]
    BY <1>4 DEF Init
  <2>2. pc \in {"setup", "done"} /\ (pc # "done" => c \in setup.clients)  OBVIOUS
  <2>3. << >> \in Bytes /\ << >> \in Seq(Bytes)  BY EmptySeq DEF Bytes
  <2> HIDE DEF pc
  <2>4. client[c].pc = pc  BY <2>1
  <2>5. client[c] \in ClientState
    BY <2>1, <2>2, <2>3 DEF ClientState
  <2>6. pc # "waiting"  BY <2>2
  <2>7. toClient[c] = << >>  BY <1>4 DEF Init
  <2> QED  BY <2>2, <2>4, <2>5, <2>6, <2>7
<1>5. /\ toServer = << >> /\ lost = {} /\ \A p \in Programs : sends[p] = 0
      /\ \A s \in Seeds : rand[s] = << >>
  BY DEF Init
<1>6. Typed
  <2>1. lib \in [Programs -> Library]  BY <1>3 DEF Init
  <2>2. rand \in [Seeds -> Seq(Draws)]  BY EmptySeq DEF Init
  <2>3. client \in [Clients -> ClientState]
    <3>1. client = [c \in Clients |-> client[c]]  BY DEF Init
    <3> QED  BY <1>4, <3>1
  <2>4. toServer \in Seq([from : Clients, bytes : Bytes])  BY <1>5, EmptySeq
  <2>5. toClient \in [Clients -> Seq(Bytes)]  BY EmptySeq DEF Init
  <2>6. sends \in [Programs -> Nat]  BY DEF Init
  <2>7. lost \subseteq Programs \X Nat \X Clients  BY <1>5
  <2> QED  BY <1>1, <2>1, <2>2, <2>3, <2>4, <2>5, <2>6, <2>7 DEF Typed
<1>7. Libraries
  <2> SUFFICES ASSUME NEW p \in Programs
               PROVE  /\ lib[p].msgNo = sends[p]
                      /\ lib[p].drawn <= Len(rand[lib[p].seed])
    BY <1>2 DEF Libraries
  <2>1. lib[p].seed \in Seeds  BY <1>3 DEF Library
  <2>2. Len(rand[lib[p].seed]) = 0  BY <1>5, <2>1, NothingIn
  <2>3. lib[p].drawn <= 0  BY <1>3
  <2> QED  BY <1>3, <1>5, <2>2, <2>3
<1>8. ASSUME NEW c \in Clients PROVE Conversation(c)
  <2>1. ~AtServer(c)  BY <1>5, NothingIn DEF AtServer
  <2>2. ~Returning(c) /\ ~Dropped(c)  BY <1>4, <1>5 DEF Returning, Dropped
  <2>3. Len(toClient[c]) <= 1  BY <1>4, NothingIn
  <2>4. \A i, j \in 1 .. Len(toServer) :
          toServer[i].from = c /\ toServer[j].from = c => i = j
    BY <1>5, NothingIn
  <2> QED  BY <1>4, <2>1, <2>2, <2>3, <2>4 DEF Conversation
<1>9. \A i \in 1 .. Len(toServer) : Delivered(toServer[i])  BY <1>5, NothingIn
<1>10. ASSUME NEW c \in setup.clients PROVE Lockstep(c)
  <2>1. c \in Programs /\ Server \in Programs /\ c \in Clients
    BY <1>1, SetupTyped
  <2>2. lib[c].seed \in Seeds /\ lib[c].drawn = 0 /\ lib[Server].drawn = 0
    BY <1>3, <2>1 DEF Library
  <2>3. Len(rand[lib[c].seed]) = 0  BY <1>5, <2>2, NothingIn
  <2>4. 1 .. Len(toServer) = {}  BY <1>5, NothingIn
  <2> QED  BY <2>2, <2>3, <2>4 DEF Lockstep
<1>11. EchoRestored
  <2>1. \A c \in setup.clients : DOMAIN toClient[c] = {}  BY <1>1, <1>4, NothingIn
  <2> QED  BY <1>5, <2>1 DEF EchoRestored
<1>12. DropListExact
  <2> SUFFICES ASSUME NEW p \in Programs
               PROVE  /\ lib[p].reported = sends[p] - Cardinality(ListedSends(p))
                      /\ {l[2] : l \in {k \in lost : k[1] = p}} = ListedSends(p)
    BY DEF DropListExact
  <2>1. ListedSends(p) = {}
    <3>1. 1 .. 0 = {}  OBVIOUS
    <3> QED  BY <1>5, <3>1 DEF ListedSends
  <2>2. Cardinality(ListedSends(p)) = 0  BY <2>1, FS_EmptySet
  <2>3. {l[2] : l \in {k \in lost : k[1] = p}} = {}  BY <1>5
  <2>4. 0 = 0 - 0  OBVIOUS
  <2> QED  BY <1>3, <1>5, <2>1, <2>2, <2>3, <2>4
<1> QED
  BY <1>6, <1>7, <1>8, <1>9, <1>10, <1>11, <1>12 DEF IInv

-----------------------------------------------------------------------------
(***************************************************************************)
(* A send, and what it leaves of the invariant                             *)
(***************************************************************************)

\* The numbers up to n that a list names.
NamedUpTo(o, n) == {k \in 1 .. n : Names(o, k)}

\* One number more.
LEMMA NamedNext ==
  ASSUME NEW o, NEW n \in Nat
  PROVE  /\ NamedUpTo(o, n + 1) =
              NamedUpTo(o, n) \cup (IF Names(o, n + 1) THEN {n + 1} ELSE {})
         /\ Cardinality(NamedUpTo(o, n)) \in Nat
         /\ Cardinality(NamedUpTo(o, n + 1)) =
              Cardinality(NamedUpTo(o, n)) + (IF Names(o, n + 1) THEN 1 ELSE 0)
<1> DEFINE S == NamedUpTo(o, n)
<1>1. NamedUpTo(o, n + 1) = S \cup (IF Names(o, n + 1) THEN {n + 1} ELSE {})
  BY DEF NamedUpTo
<1>2. IsFiniteSet(S)
  <2>1. IsFiniteSet(1 .. n)
    <3>1. 1 \in Int /\ n \in Int  OBVIOUS
    <3> QED  BY <3>1, FS_Interval
  <2>2. S \subseteq 1 .. n  BY DEF NamedUpTo
  <2> QED  BY <2>1, <2>2, FS_Subset
<1>3. n + 1 \notin S
  <2>1. n + 1 \notin 1 .. n  OBVIOUS
  <2> QED  BY <2>1 DEF NamedUpTo
<1> HIDE DEF S
<1>4. Cardinality(S) \in Nat  BY <1>2, FS_CardinalityType
<1>5. Cardinality(S \cup {n + 1}) = Cardinality(S) + 1
  BY <1>2, <1>3, FS_AddElement
<1>6. CASE Names(o, n + 1)  BY <1>1, <1>4, <1>5, <1>6 DEF S
<1>7. CASE ~Names(o, n + 1)
  <2>1. NamedUpTo(o, n + 1) = S  BY <1>1, <1>7
  <2> QED  BY <1>1, <1>4, <1>7, <2>1 DEF S
<1> QED  BY <1>6, <1>7

\* The numbers of the sends of p that were dropped.
DropsOf(all, p) == {l[2] : l \in {k \in all : k[1] = p}}

\* One drop more.
LEMMA DropsNext ==
  ASSUME NEW all, NEW t, NEW q
  PROVE  DropsOf(all \cup {t}, q) =
           DropsOf(all, q) \cup (IF q = t[1] THEN {t[2]} ELSE {})
<1>1. {k \in all \cup {t} : k[1] = q} =
        {k \in all : k[1] = q} \cup (IF q = t[1] THEN {t} ELSE {})
  OBVIOUS
<1>2. CASE q = t[1]
  <2>1. {k \in all \cup {t} : k[1] = q} = {k \in all : k[1] = q} \cup {t}
    BY <1>1, <1>2
  <2> QED  BY <1>2, <2>1 DEF DropsOf
<1>3. CASE q # t[1]
  <2>1. {k \in all \cup {t} : k[1] = q} = {k \in all : k[1] = q}
    BY <1>1, <1>3
  <2> QED  BY <1>3, <2>1 DEF DropsOf
<1> QED  BY <1>2, <1>3

\* A process of the invariant may send, and what it may send.
LEMMA MaySend ==
  ASSUME Typed, Libraries, NEW p \in Programs, NEW b \in Bytes,
         NEW o \in SendtoErr(lib[p], rand, b)
  PROVE  /\ o.lib \in Library /\ o.lib.msgNo = sends[p] + 1
         /\ o.lib.rate = lib[p].rate /\ o.lib.constant = lib[p].constant
         /\ o.lib.chance = lib[p].chance /\ o.lib.seed = lib[p].seed
         /\ o.lib.reported = lib[p].reported
                             + (IF Names(setup.set[p], sends[p] + 1) THEN 0 ELSE 1)
         /\ o.rand \in [Seeds -> Seq(Draws)]
         /\ o.lib.drawn <= Len(o.rand[lib[p].seed])
         /\ \A x \in Seeds : Len(rand[x]) <= Len(o.rand[x])
         /\ \/ o.out = << >>
            \/ \E x \in Bytes : /\ o.out = <<x>>
                                /\ x = b \/ \E i \in 1 .. Len(b) : x = FlipByte(b, i)
         /\ Names(setup.set[p], sends[p] + 1) => o.out = << >>
         /\ Lists(setup.set[p]) => (o.out = << >> <=> Names(setup.set[p], sends[p] + 1))
<1>1. setup.set[p] \in Override  BY SetupTyped DEF Typed
<1>2. lib[p] \in Library /\ rand \in [Seeds -> Seq(Draws)]  BY DEF Typed
<1>3. lib[p].constant = Append(ListEvents(setup.set[p]), InfoSeqNo)
  BY StartedFresh DEF Typed, Libraries
<1>4. lib[p].drawn <= Len(rand[lib[p].seed]) /\ lib[p].msgNo = sends[p]
  BY DEF Libraries
<1>5. Lists(setup.set[p]) => lib[p].chance \in Seq({FlipBits})
  BY StartedFresh DEF Typed, Libraries
<1> QED  BY <1>1, <1>2, <1>3, <1>4, <1>5, SendKeeps, SMTT(30)

\* The parts of the invariant that the library keeps by itself.
LEMMA AccountKeeps ==
  ASSUME Typed, Libraries, DropListExact, NEW p \in Programs, NEW c \in Clients,
         NEW b \in Bytes, NEW o \in SendtoErr(lib[p], rand, b),
         Account(p, c, o), UNCHANGED setup
  PROVE  /\ lib' \in [Programs -> Library] /\ rand' \in [Seeds -> Seq(Draws)]
         /\ sends' \in [Programs -> Nat] /\ lost' \subseteq Programs \X Nat \X Clients
         /\ Libraries'
         /\ DropListExact'
<1> DEFINE set == setup.set[p]
           n == sends[p]
<1>1. /\ o.lib \in Library /\ o.lib.msgNo = n + 1
      /\ o.lib.rate = lib[p].rate /\ o.lib.constant = lib[p].constant
      /\ o.lib.chance = lib[p].chance /\ o.lib.seed = lib[p].seed
      /\ o.lib.reported = lib[p].reported + (IF Names(set, n + 1) THEN 0 ELSE 1)
      /\ o.rand \in [Seeds -> Seq(Draws)]
      /\ o.lib.drawn <= Len(o.rand[lib[p].seed])
      /\ \A x \in Seeds : Len(rand[x]) <= Len(o.rand[x])
  BY MaySend
<1>2. /\ Lists(set) => (o.out = << >> <=> Names(set, n + 1))
  BY MaySend
<1>3. /\ lib \in [Programs -> Library] /\ rand \in [Seeds -> Seq(Draws)]
      /\ sends \in [Programs -> Nat] /\ lost \subseteq Programs \X Nat \X Clients
      /\ n \in Nat
  BY DEF Typed
<1>4. /\ lib' = [lib EXCEPT ![p] = o.lib] /\ rand' = o.rand
      /\ sends' = [sends EXCEPT ![p] = n + 1]
      /\ lost' = IF o.out # << >> THEN lost ELSE lost \cup {<<p, n + 1, c>>}
  BY DEF Account
<1>5. /\ lib' \in [Programs -> Library] /\ rand' \in [Seeds -> Seq(Draws)]
      /\ sends' \in [Programs -> Nat] /\ lost' \subseteq Programs \X Nat \X Clients
  <2>1. <<p, n + 1, c>> \in Programs \X Nat \X Clients  BY <1>3
  <2>2. lost' \subseteq Programs \X Nat \X Clients  BY <1>3, <1>4, <2>1
  <2> QED  BY <1>1, <1>3, <1>4, <2>2
<1>6. ASSUME NEW q \in Programs
      PROVE  /\ q = p => lib'[q] = o.lib /\ sends'[q] = n + 1
             /\ q # p => lib'[q] = lib[q] /\ sends'[q] = sends[q]
  BY <1>3, <1>4
<1>7. Libraries'
  <2> SUFFICES ASSUME NEW q \in Programs
               PROVE  /\ lib'[q].msgNo = sends'[q]
                      /\ lib'[q].rate = Started(setup, q).rate
                      /\ lib'[q].constant = Started(setup, q).constant
                      /\ lib'[q].chance = Started(setup, q).chance
                      /\ lib'[q].seed = Started(setup, q).seed
                      /\ lib'[q].drawn <= Len(rand'[lib'[q].seed])
    BY DEF Libraries
  <2>1. /\ lib[q].msgNo = sends[q]
        /\ lib[q].rate = Started(setup, q).rate
        /\ lib[q].constant = Started(setup, q).constant
        /\ lib[q].chance = Started(setup, q).chance
        /\ lib[q].seed = Started(setup, q).seed
        /\ lib[q].drawn <= Len(rand[lib[q].seed])
    BY DEF Libraries
  <2>2. CASE q = p
    <3>1. lib'[q] = o.lib /\ sends'[q] = n + 1 /\ rand' = o.rand  BY <1>4, <1>6, <2>2
    <3> QED  BY <1>1, <2>1, <2>2, <3>1
  <2>3. CASE q # p
    <3>1. lib'[q] = lib[q] /\ sends'[q] = sends[q] /\ rand' = o.rand
      BY <1>4, <1>6, <2>3
    <3> DEFINE x == lib[q].seed
    <3>2. x \in Seeds /\ lib[q].drawn \in Nat  BY <1>3 DEF Library
    <3>3. Len(rand[x]) <= Len(o.rand[x]) /\ lib[q].drawn <= Len(rand[x])
      BY <1>1, <2>1, <3>2
    <3>4. Len(rand[x]) \in Nat /\ Len(o.rand[x]) \in Nat
      BY <1>1, <1>3, <3>2, LenProperties
    <3> DEFINE y == Len(rand[x])
               z == Len(o.rand[x])
               d == lib[q].drawn
    <3>5. d <= z
      <4> HIDE DEF y, z, d
      <4>1. d \in Nat /\ y \in Nat /\ z \in Nat /\ d <= y /\ y <= z
        BY <3>2, <3>3, <3>4 DEF d, y, z
      <4> QED  BY <4>1
    <3> QED  BY <2>1, <3>1, <3>5
  <2> QED  BY <2>2, <2>3
<1>8. DropListExact'
  <2>1. \A q \in Programs : ListedSends(q) = NamedUpTo(setup.set[q], sends[q])
    BY DEF ListedSends, NamedUpTo, Names
  <2>2. \A q \in Programs : ListedSends(q)' = NamedUpTo(setup.set[q], sends'[q])
    BY DEF ListedSends, NamedUpTo, Names
  <2> SUFFICES ASSUME NEW q \in Programs
               PROVE  /\ lib'[q].reported = sends'[q] - Cardinality(ListedSends(q)')
                      /\ Lists(setup.set[q]) => DropsOf(lost', q) = ListedSends(q)'
    BY DEF DropListExact, DropsOf, HasList, Lists
  <2>3. /\ lib[q].reported = sends[q] - Cardinality(ListedSends(q))
        /\ Lists(setup.set[q]) => DropsOf(lost, q) = ListedSends(q)
    BY DEF DropListExact, DropsOf, HasList, Lists
  <2>4. DropsOf(lost', q) =
          DropsOf(lost, q) \cup (IF q = p /\ o.out = << >> THEN {n + 1} ELSE {})
    <3>1. CASE o.out # << >>
      <4>1. lost' = lost  BY <1>4, <3>1
      <4> QED  BY <3>1, <4>1
    <3>2. CASE o.out = << >>
      <4>1. lost' = lost \cup {<<p, n + 1, c>>}  BY <1>4, <3>2
      <4> DEFINE t == <<p, n + 1, c>>
      <4>2. t[1] = p /\ t[2] = n + 1 /\ lost' = lost \cup {t}  BY <4>1
      <4> HIDE DEF t
      <4>3. DropsOf(lost \cup {t}, q) =
              DropsOf(lost, q) \cup (IF q = t[1] THEN {t[2]} ELSE {})
        BY DropsNext
      <4> QED  BY <3>2, <4>2, <4>3
    <3> QED  BY <3>1, <3>2
  <2>5. CASE q = p
    <3> DEFINE A == NamedUpTo(set, n)
               B == NamedUpTo(set, n + 1)
    <3>1. ListedSends(q) = A /\ ListedSends(q)' = B  BY <1>6, <2>1, <2>2, <2>5
    <3>2. /\ B = A \cup (IF Names(set, n + 1) THEN {n + 1} ELSE {})
          /\ Cardinality(A) \in Nat
          /\ Cardinality(B) = Cardinality(A) + (IF Names(set, n + 1) THEN 1 ELSE 0)
      BY <1>3, NamedNext
    <3> HIDE DEF A, B
    <3>3. lib'[q] = o.lib /\ sends'[q] = n + 1  BY <1>6, <2>5
    <3>4. lib'[q].reported = sends'[q] - Cardinality(B)
      <4> DEFINE a == Cardinality(A)
                 x == lib[p].reported
      <4>1. a \in Nat /\ x = n - a  BY <2>3, <2>5, <3>1, <3>2
      <4> HIDE DEF a, x
      <4>2. o.lib.reported = x + (IF Names(set, n + 1) THEN 0 ELSE 1)
        BY <1>1 DEF x
      <4>3. Cardinality(B) = a + (IF Names(set, n + 1) THEN 1 ELSE 0)
        BY <3>2 DEF a
      <4> HIDE DEF n
      <4> QED  BY <1>3, <3>3, <4>1, <4>2, <4>3
    <3>5. Lists(setup.set[q]) => DropsOf(lost', q) = B
      <4> SUFFICES ASSUME Lists(setup.set[q]) PROVE DropsOf(lost', q) = B  OBVIOUS
      <4>1. Lists(set)  BY <2>5
      <4>2. DropsOf(lost, q) = A  BY <2>3, <2>5, <3>1, <4>1
      <4>3. o.out = << >> <=> Names(set, n + 1)  BY <1>2, <4>1
      <4> QED  BY <2>4, <2>5, <3>2, <4>2, <4>3
    <3> QED  BY <3>1, <3>4, <3>5
  <2>6. CASE q # p
    <3>1. lib'[q] = lib[q] /\ sends'[q] = sends[q]  BY <1>6, <2>6
    <3>2. ListedSends(q)' = ListedSends(q)  BY <2>1, <2>2, <3>1
    <3>3. DropsOf(lost', q) = DropsOf(lost, q)  BY <2>4, <2>6
    <3> QED  BY <2>3, <3>1, <3>2, <3>3
  <2> QED  BY <2>5, <2>6
<1> QED  BY <1>5, <1>7, <1>8

-----------------------------------------------------------------------------
(***************************************************************************)
(* The steps                                                               *)
(***************************************************************************)

\* What a client reads, and the datagram it makes of it.
LEMMA PduBalanced ==
  ASSUME Typed, NEW c \in Clients, NEW read \in Reads(c), client[c].seq < setup.lines
  PROVE  Balanced(CreatePDU(client[c].seq, read.line)) /\ read.keys \in Seq(Bytes)
<1>1. PICK keys \in Bytes : read = ReadFromStdin(keys)
  <2>1. PICK keys \in IF client[c].keys = << >> THEN Texts ELSE ToSet(client[c].keys) :
          read = ReadFromStdin(keys)
    BY DEF Reads
  <2>2. client[c].keys \in Seq(Bytes)  BY DEF Typed, ClientState
  <2>3. ToSet(client[c].keys) \subseteq Bytes
    <3> DEFINE q == client[c].keys
    <3>1. \A i \in DOMAIN q : q[i] \in Bytes  BY <2>2, ElementOfSeq, LenProperties
    <3> QED  BY <3>1 DEF ToSet
  <2>4. Texts \subseteq Bytes  BY UdpEchoAssumption DEF Bytes
  <2> QED  BY <2>1, <2>3, <2>4
<1>2. MAXBUF \in Nat /\ MAXBUF >= 2
  <2>1. MAXBUF \in Nat \ 0 .. 1  BY UdpEchoAssumption
  <2> QED  BY <2>1
<1>3. keys \in Seq(ByteValue) /\ Len(keys) \in Nat  BY BytesOf DEF Bytes
<1>4. /\ read.line \in Seq(ByteValue) /\ Len(read.line) <= MAXBUF - 1
      /\ read.keys \in Seq(Bytes)
  <2>1. CASE Len(keys) < MAXBUF - 1
    <3>1. read = [line |-> keys, keys |-> << >>]  BY <1>1, <2>1 DEF ReadFromStdin
    <3>2. << >> \in Seq(Bytes)  BY EmptySeq
    <3> QED  BY <1>2, <1>3, <2>1, <3>1, <3>2
  <2>2. CASE ~ (Len(keys) < MAXBUF - 1)
    <3> DEFINE a == SubSeq(keys, 1, MAXBUF - 1)
               z == SubSeq(keys, MAXBUF, Len(keys))
    <3>1. read = [line |-> a, keys |-> <<z>>]  BY <1>1, <2>2 DEF ReadFromStdin
    <3>2. a \in Seq(ByteValue) /\ Len(a) = MAXBUF - 1
      <4> DEFINE n == MAXBUF - 1
      <4>1. n \in Nat /\ n <= Len(keys)  BY <1>2, <1>3, <2>2
      <4> HIDE DEF n
      <4>2. SubSeq(keys, 1, n) \in Seq(ByteValue) /\ Len(SubSeq(keys, 1, n)) = n
        BY <1>3, <4>1, SubSeqProperties
      <4> QED  BY <4>2 DEF n
    <3>3. z \in Seq(ByteValue)
      <4>1. \A i \in MAXBUF .. Len(keys) : i \in 1 .. Len(keys)  BY <1>2, <1>3
      <4>2. \A i \in MAXBUF .. Len(keys) : keys[i] \in ByteValue
        BY <1>3, <4>1, ElementOfSeq
      <4> QED  BY <1>2, <1>3, <4>2, SubSeqProperties
    <3> HIDE DEF a, z
    <3>4. <<z>> \in Seq(Bytes)  BY <3>3 DEF Bytes
    <3>5. MAXBUF - 1 <= MAXBUF - 1  BY <1>2
    <3> QED  BY <3>1, <3>2, <3>4, <3>5
  <2> QED  BY <2>1, <2>2
<1> DEFINE seq == client[c].seq
           head == <<0, seq, 0, 0, Flag>>
           front == head \o read.line
           b == front \o <<0>>
<1>5. 0 \in ByteValue /\ seq \in ByteValue /\ Flag \in ByteValue
  <2>1. seq \in Nat /\ setup.lines \in 0 .. Byte - 1
    BY UdpEchoAssumption DEF Typed, ClientState, Setup
  <2>2. Byte \in Nat /\ Byte >= 2  BY Sizes
  <2> DEFINE m == setup.lines
  <2> HIDE DEF m, seq
  <2>3. seq < m /\ m \in 0 .. Byte - 1  BY <2>1 DEF m, seq
  <2>4. seq \in 0 .. Byte - 1 /\ 0 \in 0 .. Byte - 1 /\ Byte - 2 \in 0 .. Byte - 1
    BY <2>1, <2>2, <2>3
  <2> QED  BY <2>4 DEF ByteValue, Flag
<1>6. head \in Seq(ByteValue) /\ Len(head) = 5
  <2> DEFINE f == Flag
  <2> HIDE DEF f, seq
  <2>1. <<0, seq, 0, 0, f>> \in Seq(ByteValue) /\ Len(<<0, seq, 0, 0, f>>) = 5
    BY <1>5 DEF f
  <2> QED  BY <2>1 DEF f
<1>7. <<0>> \in Seq(ByteValue) /\ Len(<<0>>) = 1  BY <1>5
<1> HIDE DEF head
<1>8. front \in Seq(ByteValue) /\ Len(front) = 5 + Len(read.line)
  <2> DEFINE line == read.line
  <2>1. line \in Seq(ByteValue) /\ head \in Seq(ByteValue) /\ Len(head) = 5
    BY <1>4, <1>6
  <2> HIDE DEF line
  <2>2. head \o line \in Seq(ByteValue) /\ Len(head \o line) = Len(head) + Len(line)
    BY <2>1, ConcatProperties
  <2>3. head \o line \in Seq(ByteValue) /\ Len(head \o line) = 5 + Len(line)
    BY <2>1, <2>2
  <2> QED  BY <2>3 DEF line
<1> HIDE DEF front
<1>9. b \in Seq(ByteValue) /\ Len(b) = 5 + Len(read.line) + 1
  BY <1>7, <1>8, ConcatProperties
<1> HIDE DEF b
<1>10. Len(read.line) \in Nat  BY <1>4, LenProperties
<1>11. Short(b)
  <2>1. 5 + MAXBUF <= 2 * Word /\ Word \in Nat
    BY MaxBufAssumption, Sizes DEF HeaderLen
  <2> DEFINE n == Len(b)
             k == Len(read.line)
  <2>2. n = 5 + k + 1 /\ k \in Nat /\ k <= MAXBUF - 1  BY <1>4, <1>9, <1>10
  <2> HIDE DEF n, k
  <2>3. n \in Nat /\ n <= 2 * Word  BY <1>2, <2>1, <2>2
  <2>4. (n + 1) \div 2 <= Word  BY <2>1, <2>3
  <2> QED  BY <1>9, <2>4 DEF Short, WordsIn, Bytes, n
<1>12. Balanced(Sealed(b, 2 * 2 - 1))
  <2>1. 2 \in Nat /\ 2 >= 1 /\ 2 * 2 <= Len(b)  BY <1>9, <1>10
  <2> QED  BY <1>11, <2>1, SealedBalanced
<1>13. CreatePDU(seq, read.line) = Sealed(b, 3)  BY DEF CreatePDU, ChksumPos, b, front, head
<1>14. 2 * 2 - 1 = 3  OBVIOUS
<1> HIDE DEF seq
<1>15. Balanced(CreatePDU(seq, read.line))  BY <1>12, <1>13, <1>14
<1> QED  BY <1>4, <1>15 DEF seq

\* The libraries and what was lost are as they were.
LEMMA LibrariesStay ==
  ASSUME UNCHANGED <<setup, lib, rand, sends, lost>>
  PROVE  /\ Libraries => Libraries'
         /\ DropListExact => DropListExact'
         /\ InStep' <=> InStep
         /\ \A c : Dropped(c)' <=> Dropped(c)
<1>1. Libraries => Libraries'  BY DEF Libraries
<1>2. DropListExact => DropListExact'
  <2>1. \A p : ListedSends(p)' = ListedSends(p) /\ HasList(p)' = HasList(p)
    BY DEF ListedSends, HasList
  <2> QED  BY <2>1 DEF DropListExact
<1>3. InStep' <=> InStep  BY DEF InStep
<1>4. \A c : Dropped(c)' <=> Dropped(c)  BY DEF Dropped
<1> QED  BY <1>1, <1>2, <1>3, <1>4

\* So are the datagrams on their way to the server, and what they were sent as.
LEMMA DatagramsStay ==
  ASSUME Typed, UNCHANGED <<setup, lib, rand, lost, toServer>>,
         \A c \in Clients : client'[c].pdu = client[c].pdu
  PROVE  /\ \A i \in 1 .. Len(toServer) :
              Delivered(toServer[i]) => Delivered(toServer[i])'
         /\ \A c \in Clients : Lockstep(c) => Lockstep(c)'
         /\ \A c : AtServer(c)' <=> AtServer(c)
<1>1. ASSUME NEW i \in 1 .. Len(toServer), Delivered(toServer[i])
      PROVE  Delivered(toServer[i])'
  <2>1. toServer[i].from \in Clients
    <3>1. toServer \in Seq([from : Clients, bytes : Bytes])  BY DEF Typed
    <3>2. toServer[i] \in [from : Clients, bytes : Bytes]  BY <3>1, ElementOfSeq
    <3> QED  BY <3>2
  <2> DEFINE m == toServer[i]
  <2>2. m' = m  OBVIOUS
  <2>3. client'[m.from].pdu = client[m.from].pdu  BY <2>1
  <2> QED  BY <1>1, <2>2, <2>3 DEF Delivered
<1>2. ASSUME NEW c \in Clients, Lockstep(c) PROVE Lockstep(c)'
  <2>1. Dropped(c)' <=> Dropped(c)  BY DEF Dropped
  <2>2. client'[c].pdu = client[c].pdu  OBVIOUS
  <2> QED  BY <1>2, <2>1, <2>2 DEF Lockstep
<1>3. \A c : AtServer(c)' <=> AtServer(c)  BY DEF AtServer
<1> QED  BY <1>1, <1>2, <1>3

\* A client that is not waiting, and moves on or ends.
LEMMA MovesOn ==
  ASSUME IInv, NEW c \in Clients, client[c].pc \in {"setup", "typing"},
         NEW pc \in {"typing", "done"}, client' = [client EXCEPT ![c].pc = pc],
         UNCHANGED <<setup, lib, rand, toServer, toClient, sends, lost>>
  PROVE  IInv'
<1>1. Typed /\ Libraries /\ DropListExact /\ EchoRestored  BY DEF IInv
<1>2. client \in [Clients -> ClientState]  BY <1>1 DEF Typed
<1>3. /\ client' \in [Clients -> ClientState]
      /\ \A d \in Clients : client'[d].pdu = client[d].pdu
      /\ \A d \in Clients : d # c => client'[d] = client[d]
      /\ client'[c].pc = pc
  <2>1. client[c] \in ClientState  BY <1>2
  <2> DEFINE new == [client[c] EXCEPT !.pc = pc]
  <2>2. client' = [client EXCEPT ![c] = new]  OBVIOUS
  <2>3. new \in ClientState /\ new.pdu = client[c].pdu /\ new.pc = pc
    BY <2>1 DEF ClientState
  <2> HIDE DEF new
  <2> QED  BY <1>2, <2>2, <2>3
<1>4. Typed'  BY <1>1, <1>3 DEF Typed
<1>5. Libraries' /\ DropListExact' /\ (InStep' <=> InStep)
      /\ \A d : Dropped(d)' <=> Dropped(d)
  BY <1>1, LibrariesStay
<1>6. /\ \A i \in 1 .. Len(toServer) : Delivered(toServer[i])' 
      /\ \A d \in Clients : Lockstep(d) => Lockstep(d)'
      /\ \A d : AtServer(d)' <=> AtServer(d)
  BY <1>1, <1>3, DatagramsStay DEF IInv
<1>7. ASSUME NEW d \in Clients PROVE Conversation(d)'
  <2>1. Conversation(d)  BY DEF IInv
  <2>2. Returning(d)' <=> Returning(d)  BY DEF Returning
  <2>3. client'[d].pc = "waiting" <=> client[d].pc = "waiting"  BY <1>3
  <2>4. client'[d].pc # "done" => client[d].pc # "done"  BY <1>3
  <2> QED  BY <1>5, <1>6, <2>1, <2>2, <2>3, <2>4 DEF Conversation
<1>8. \A i \in 1 .. Len(toServer') : Delivered(toServer[i])'  BY <1>6
<1>9. InStep' => \A d \in setup.clients : Lockstep(d)'
  <2>1. setup.clients \subseteq Clients  BY <1>1, SetupTyped DEF Typed
  <2> QED  BY <1>5, <1>6, <2>1 DEF IInv
<1>10. EchoRestored'
  <2>1. setup.clients \subseteq Clients  BY <1>1, SetupTyped DEF Typed
  <2>2. \A d \in setup.clients : client'[d].pdu = client[d].pdu  BY <1>3, <2>1
  <2> QED  BY <1>1, <1>5, <2>2 DEF EchoRestored
<1> QED  BY <1>4, <1>5, <1>7, <1>8, <1>9, <1>10 DEF IInv

\* The echo is read.
LEMMA ReceiveEchoStep ==
  ASSUME IInv, NEW c \in Clients, ReceiveEcho(c)
  PROVE  IInv'
<1>1. Typed /\ Libraries /\ DropListExact /\ EchoRestored  BY DEF IInv
<1>2. client \in [Clients -> ClientState] /\ toClient \in [Clients -> Seq(Bytes)]
  BY <1>1 DEF Typed
<1>3. /\ client[c].pc = "waiting" /\ toClient[c] # << >>
      /\ toClient' = [toClient EXCEPT ![c] = Tail(@)]
      /\ client' = [client EXCEPT ![c].pc = "typing", ![c].seq = @ + 1]
      /\ UNCHANGED <<setup, lib, rand, toServer, sends, lost>>
  BY DEF ReceiveEcho
<1>4. /\ client' \in [Clients -> ClientState]
      /\ \A d \in Clients : client'[d].pdu = client[d].pdu
      /\ \A d \in Clients : d # c => client'[d] = client[d]
      /\ client'[c].pc = "typing"
  <2>1. client[c] \in ClientState  BY <1>2
  <2> DEFINE n == client[c].seq + 1
             new == [client[c] EXCEPT !.pc = "typing", !.seq = n]
  <2>2. n \in Nat  BY <2>1 DEF ClientState
  <2>3. client' = [client EXCEPT ![c] = new]  BY <1>3
  <2> HIDE DEF n
  <2>4. new \in ClientState /\ new.pdu = client[c].pdu /\ new.pc = "typing"
    BY <2>1, <2>2 DEF ClientState
  <2> HIDE DEF new
  <2> QED  BY <1>2, <2>3, <2>4
<1>5. /\ toClient' \in [Clients -> Seq(Bytes)]
      /\ toClient'[c] = << >>
      /\ \A d \in Clients : d # c => toClient'[d] = toClient[d]
  <2>1. toClient[c] \in Seq(Bytes) /\ toClient[c] # << >>  BY <1>2, <1>3
  <2>2. Len(toClient[c]) <= 1  BY DEF IInv, Conversation
  <2>3. Tail(toClient[c]) \in Seq(Bytes) /\ Len(Tail(toClient[c])) = Len(toClient[c]) - 1
    BY <2>1, HeadTailProperties
  <2>4. Len(toClient[c]) \in Nat /\ Len(toClient[c]) # 0
    BY <2>1, EmptySeq, LenProperties
  <2> DEFINE n == Len(toClient[c])
             t == Tail(toClient[c])
             k == Len(t)
  <2>5. n \in Nat /\ n # 0 /\ n <= 1 /\ k = n - 1  BY <2>2, <2>3, <2>4, Zenon
  <2>6. Len(t) = 0
    <3> HIDE DEF n, k
    <3>1. k = 0  BY <2>5
    <3> QED  BY <3>1 DEF k
  <2> HIDE DEF t
  <2>7. t = << >>  BY <2>3, <2>6, EmptySeq DEF t
  <2>8. toClient' = [toClient EXCEPT ![c] = t]  BY <1>3 DEF t
  <2>9. t \in Seq(Bytes)  BY <2>3 DEF t
  <2> QED  BY <1>2, <2>7, <2>8, <2>9
<1>6. Typed'  BY <1>1, <1>3, <1>4, <1>5 DEF Typed
<1>7. Libraries' /\ DropListExact' /\ (InStep' <=> InStep)
      /\ \A d : Dropped(d)' <=> Dropped(d)
  BY <1>1, <1>3, LibrariesStay
<1>8. /\ \A i \in 1 .. Len(toServer) : Delivered(toServer[i])' 
      /\ \A d \in Clients : Lockstep(d) => Lockstep(d)'
      /\ \A d : AtServer(d)' <=> AtServer(d)
  BY <1>1, <1>3, <1>4, DatagramsStay DEF IInv
<1>9. ASSUME NEW d \in Clients PROVE Conversation(d)'
  <2>1. Conversation(d)  BY DEF IInv
  <2>2. \A i, j \in 1 .. Len(toServer') :
          toServer'[i].from = d /\ toServer'[j].from = d => i = j
    BY <1>3, <2>1 DEF Conversation
  <2>3. CASE d = c
    <3>1. Returning(d)  BY <1>3, <2>3 DEF Returning
    <3>2. ~AtServer(d) /\ ~Dropped(d)  BY <2>1, <3>1 DEF Conversation
    <3>3. ~Returning(d)'  BY <1>5, <2>3 DEF Returning
    <3>4. client'[d].pc = "typing" /\ Len(toClient'[d]) <= 1
      BY <1>4, <1>5, <2>3, NothingIn
    <3>5. d \in setup.clients  BY <1>3, <2>1, <2>3 DEF Conversation
    <3> QED  BY <1>3, <1>7, <1>8, <2>2, <3>2, <3>3, <3>4, <3>5 DEF Conversation
  <2>4. CASE d # c
    <3>1. client'[d] = client[d] /\ toClient'[d] = toClient[d]  BY <1>4, <1>5, <2>4
    <3>2. Returning(d)' <=> Returning(d)  BY <3>1 DEF Returning
    <3> QED  BY <1>3, <1>7, <1>8, <2>1, <2>2, <3>1, <3>2 DEF Conversation
  <2> QED  BY <2>3, <2>4
<1>10. \A i \in 1 .. Len(toServer') : Delivered(toServer[i])'  BY <1>3, <1>8
<1>11. setup.clients \subseteq Clients /\ setup' = setup
  BY <1>1, <1>3, SetupTyped DEF Typed
<1>12. InStep' => \A d \in setup'.clients : Lockstep(d)'
  BY <1>7, <1>8, <1>11 DEF IInv
<1>13. EchoRestored'
  <2> SUFFICES ASSUME InStep
               PROVE  /\ \A d \in setup.clients : \A i \in DOMAIN toClient'[d] :
                           toClient'[d][i] = client'[d].pdu
                      /\ \A l \in lost : l[1] # Server
    BY <1>3, <1>7 DEF EchoRestored
  <2>1. /\ \A d \in setup.clients : \A i \in DOMAIN toClient[d] :
             toClient[d][i] = client[d].pdu
        /\ \A l \in lost : l[1] # Server
    BY <1>1 DEF EchoRestored
  <2>2. ASSUME NEW d \in setup.clients, NEW i \in DOMAIN toClient'[d]
        PROVE  toClient'[d][i] = client'[d].pdu
    <3>1. d # c  BY <1>5, <2>2, NothingIn
    <3>2. toClient'[d] = toClient[d] /\ client'[d].pdu = client[d].pdu
      BY <1>4, <1>5, <1>11, <2>2, <3>1
    <3> QED  BY <2>1, <2>2, <3>2
  <2> QED  BY <2>1, <2>2
<1> QED  BY <1>6, <1>7, <1>9, <1>10, <1>12, <1>13 DEF IInv

\* The server stands where the client stood: it may throw what the client threw.
LEMMA ServerFollows ==
  ASSUME NEW l, InLab(l), NEW k, InLab(k), k.rate = l.rate, k.seed = l.seed,
         k.drawn = l.drawn, NEW r \in [Seeds -> Seq(Draws)], Len(r[l.seed]) = l.drawn,
         NEW b \in Bytes, NEW o \in SendtoErr(l, r, b)
  PROVE  /\ Len(o.rand[o.lib.seed]) = o.lib.drawn
         /\ \E t \in Throws(o.rand, k) :
              /\ Sent(k, o.rand, b, t).out = o.out
              /\ Sent(k, o.rand, b, t).lib.drawn = o.lib.drawn
<1>1. PICK t \in Throws(r, l) : o = Sent(l, r, b, t)  BY DEF SendtoErr
<1>2. o.lib = LibAfter(l, t) /\ o.rand = RandAfter(l, r, t) /\ o.out = OutOf(l, b, t)
  BY <1>1, SentIs
<1>3. l \in Library /\ k \in Library  BY DEF InLab
<1>4. LibAfter(l, t).drawn = l.drawn + Used(l, t) /\ LibAfter(l, t).seed = l.seed
  BY <1>3, CountsKeep
<1>5. /\ t \in Throws(RandAfter(l, r, t), k)
      /\ Len(RandAfter(l, r, t)[l.seed]) = l.drawn + Used(l, t)
  BY <1>3, ThrowsFollow
<1>6. Used(k, t) = Used(l, t) /\ OutOf(k, b, t) = OutOf(l, b, t)
  BY <1>5, SameOut
<1>7. LibAfter(k, t).drawn = k.drawn + Used(k, t)  BY <1>3, CountsKeep
<1>8. Sent(k, o.rand, b, t).out = OutOf(k, b, t)
      /\ Sent(k, o.rand, b, t).lib = LibAfter(k, t)
  BY SentIs
<1> QED  BY <1>2, <1>4, <1>5, <1>6, <1>7, <1>8

\* And when it echoes what it got, its library undoes what the client's has done.
LEMMA ServerRestores ==
  ASSUME NEW k, InLab(k), NEW r \in [Seeds -> Seq(Draws)], NEW b \in Bytes, NEW x,
         NEW t \in Throws(r, k), Sent(k, r, b, t).out = <<x>>,
         Sent(k, r, b, t).lib.drawn = Len(r[k.seed]),
         NEW o \in SendtoErr(k, r, x)
  PROVE  o.out = <<b>> /\ o.rand = r /\ o.lib.drawn = Len(r[k.seed])
<1>1. PICK u \in Throws(r, k) : o = Sent(k, r, x, u)  BY DEF SendtoErr
<1>2. o.lib = LibAfter(k, u) /\ o.rand = RandAfter(k, r, u) /\ o.out = OutOf(k, x, u)
  BY <1>1, SentIs
<1>3. OutOf(k, b, t) = <<x>> /\ LibAfter(k, t).drawn = Len(r[k.seed])
  BY SentIs
<1>4. k \in Library  BY DEF InLab
<1>5. LibAfter(k, t).drawn = k.drawn + Used(k, t)
      /\ LibAfter(k, u).drawn = k.drawn + Used(k, u)
  BY <1>4, CountsKeep
<1>6. k.drawn + Used(k, t) = Len(r[k.seed])  BY <1>3, <1>5
<1>7. OutOf(k, x, u) = <<b>> /\ Used(k, u) = Used(k, t) /\ RandAfter(k, r, u) = r
  <2>1. /\ InLab(k) /\ r \in [Seeds -> Seq(Draws)] /\ b \in Bytes
        /\ t \in Throws(r, k) /\ u \in Throws(r, k)
    OBVIOUS
  <2>2. OutOf(k, b, t) = <<x>>  BY <1>3
  <2>3. k.drawn + Used(k, t) = Len(r[k.seed])  BY <1>6
  <2>4. OutOf(k, x, u) = <<b>>  BY <2>1, <2>2, <2>3, FlipsBack
  <2>5. Used(k, u) = Used(k, t)  BY <2>1, <2>2, <2>3, FlipsBack, SMTT(30)
  <2>6. RandAfter(k, r, u) = r  BY <2>1, <2>2, <2>3, FlipsBack
  <2> QED  BY <2>4, <2>5, <2>6
<1> QED  BY <1>2, <1>5, <1>6, <1>7

\* Under InStep there is one client, and its library and the server's are alike.
LEMMA LabLibraries ==
  ASSUME Typed, Libraries, InStep, NEW c \in setup.clients
  PROVE  /\ c \in Clients /\ \A d \in setup.clients : d = c
         /\ InLab(lib[c]) /\ InLab(lib[Server])
         /\ lib[c].seed = lib[Server].seed /\ lib[c].rate = lib[Server].rate
<1>1. setup \in Setups  BY DEF Typed
<1>2. c \in Clients /\ c \in Programs /\ Server \in Programs
      /\ setup.clients \subseteq Clients
  BY <1>1, SetupTyped
<1>3. \A d \in setup.clients : d = c
  <2>1. IsFiniteSet(setup.clients)  BY <1>2, UdpEchoAssumption, FS_Subset
  <2>2. PICK x : setup.clients = {x}  BY <2>1, FS_Singleton DEF InStep
  <2> QED  BY <2>2
<1>4. ASSUME NEW p \in Programs
      PROVE  /\ InLab(lib[p])
             /\ lib[p].seed = RANDOM_SEED /\ lib[p].rate = setup.rate[p]
  <2>1. setup.set[p] = NoOverrides  BY <1>4 DEF InStep
  <2>2. /\ Started(setup, p).chance = Append(<<DropAll>>, FlipBits)
        /\ Started(setup, p).seed = RANDOM_SEED
        /\ Started(setup, p).rate = setup.rate[p]
    BY <1>1, <1>4, <2>1, StartedPlain
  <2>3. Started(setup, p).constant = Append(ListEvents(NoOverrides), InfoSeqNo)
    BY <1>1, <1>4, <2>1, StartedFresh
  <2>4. lib[p] \in Library  BY <1>4 DEF Typed
  <2>5. /\ lib[p].chance = Started(setup, p).chance
        /\ lib[p].seed = Started(setup, p).seed
        /\ lib[p].rate = Started(setup, p).rate
        /\ lib[p].constant = Started(setup, p).constant
    BY <1>4 DEF Libraries
  <2> QED  BY <2>2, <2>3, <2>4, <2>5 DEF InLab
<1>5. setup.rate[c] = setup.rate[Server]  BY <1>2 DEF InStep
<1> QED  BY <1>2, <1>3, <1>4, <1>5

\* The records for what goes out, none or one.
LEMMA OutRecords ==
  ASSUME NEW c, NEW out
  PROVE  LET posted == [i \in DOMAIN out |-> [from |-> c, bytes |-> out[i]]]
         IN  /\ out = << >> => posted = << >>
             /\ \A x : out = <<x>> => posted = <<[from |-> c, bytes |-> x]>>
<1> DEFINE posted == [i \in DOMAIN out |-> [from |-> c, bytes |-> out[i]]]
<1>1. out = << >> => posted = << >>
  <2> SUFFICES ASSUME out = << >> PROVE posted = << >>  OBVIOUS
  <2>1. DOMAIN out = {}  BY NothingIn
  <2>2. posted \in [1 .. 0 -> {}]
    <3>1. 1 .. 0 = {}  OBVIOUS
    <3> QED  BY <2>1, <3>1
  <2>3. posted \in Seq({})  BY <2>2, SeqDef
  <2>4. Len(posted) = 0
    <3>1. 0 \in Nat  OBVIOUS
    <3> QED  BY <2>2, <2>3, <3>1, LenProperties
  <2> HIDE DEF posted
  <2> QED  BY <2>3, <2>4, EmptySeq
<1>2. ASSUME NEW x, out = <<x>> PROVE posted = <<[from |-> c, bytes |-> x]>>
  <2> DEFINE e == [from |-> c, bytes |-> x]
  <2>1. DOMAIN <<x>> = {1} /\ <<x>>[1] = x  OBVIOUS
  <2>2. posted = [i \in {1} |-> e]  BY <1>2, <2>1
  <2>3. \A y : <<y>> = [i \in {1} |-> y]
    <3> SUFFICES ASSUME NEW y PROVE <<y>> = [i \in {1} |-> y]  OBVIOUS
    <3>1. <<y>> \in [1 .. 1 -> {y}]  OBVIOUS
    <3>2. 1 .. 1 = {1}  OBVIOUS
    <3> QED  BY <3>1, <3>2
  <2> QED  BY <2>2, <2>3, Zenon
<1> QED  BY <1>1, <1>2

\* A sequence with one element more at its end.
LEMMA OneMore ==
  ASSUME NEW S, NEW q \in Seq(S), NEW e \in S
  PROVE  /\ q \o <<e>> \in Seq(S) /\ Len(q \o <<e>>) = Len(q) + 1
         /\ \A i \in 1 .. Len(q) : (q \o <<e>>)[i] = q[i]
         /\ (q \o <<e>>)[Len(q) + 1] = e
<1> DEFINE z == q \o <<e>>
           n == Len(q)
<1>1. <<e>> \in Seq(S) /\ Len(<<e>>) = 1 /\ <<e>>[1] = e  OBVIOUS
<1>2. n \in Nat  BY LenProperties
<1>3. /\ z \in Seq(S) /\ Len(z) = n + 1
      /\ \A i \in 1 .. n + 1 : z[i] = IF i <= n THEN q[i] ELSE <<e>>[i - n]
  BY <1>1, ConcatProperties
<1> HIDE DEF z, n
<1>4. \A i \in 1 .. n : z[i] = q[i]
  <2>1. \A i \in 1 .. n : i \in 1 .. n + 1 /\ i <= n  BY <1>2
  <2> QED  BY <1>3, <2>1
<1>5. z[n + 1] = e
  <2> DEFINE m == n + 1
  <2>1. m \in 1 .. n + 1 /\ ~ (m <= n) /\ m - n = 1  BY <1>2
  <2>2. z[m] = IF m <= n THEN q[m] ELSE <<e>>[m - n]  BY <1>3, <2>1
  <2> HIDE DEF m
  <2>3. z[m] = <<e>>[1]  BY <2>1, <2>2
  <2> QED  BY <1>1, <2>3 DEF m
<1> QED  BY <1>3, <1>4, <1>5 DEF z, n

\* What a send adds to `lost'.
LEMMA LostBy ==
  ASSUME NEW p, NEW c, NEW o, Account(p, c, o), NEW d
  PROVE  Dropped(d)' <=> Dropped(d) \/ (o.out = << >> /\ d = c)
<1> DEFINE t == <<p, sends[p] + 1, c>>
<1>1. t[3] = c /\ lost' = IF o.out # << >> THEN lost ELSE lost \cup {t}
  BY DEF Account
<1> HIDE DEF t
<1> QED  BY <1>1 DEF Dropped

\* A line is sent.
LEMMA SendLineStep ==
  ASSUME IInv, NEW c \in Clients, SendLine(c)
  PROVE  IInv'
<1>1. Typed /\ Libraries /\ DropListExact /\ EchoRestored  BY DEF IInv
<1>2. PICK read \in Reads(c) :
        \E o \in SendtoErr(lib[c], rand, CreatePDU(client[c].seq, read.line)) :
          /\ Account(c, c, o)
          /\ toServer' = toServer \o
               [i \in DOMAIN o.out |-> [from |-> c, bytes |-> o.out[i]]]
          /\ client' = [client EXCEPT ![c].pc = "waiting",
                          ![c].pdu = CreatePDU(client[c].seq, read.line),
                          ![c].keys = read.keys]
  BY DEF SendLine
<1> DEFINE pdu == CreatePDU(client[c].seq, read.line)
<1>3. PICK o \in SendtoErr(lib[c], rand, pdu) :
        /\ Account(c, c, o)
        /\ toServer' = toServer \o
             [i \in DOMAIN o.out |-> [from |-> c, bytes |-> o.out[i]]]
        /\ client' = [client EXCEPT ![c].pc = "waiting", ![c].pdu = pdu,
                                    ![c].keys = read.keys]
  BY <1>2
<1>4. client[c].pc = "typing" /\ client[c].seq < setup.lines
      /\ setup' = setup /\ toClient' = toClient
  BY DEF SendLine
<1>5. Balanced(pdu) /\ pdu \in Bytes /\ read.keys \in Seq(Bytes)
  BY <1>1, <1>4, PduBalanced DEF Balanced, Short
<1> HIDE DEF pdu
<1>6. c \in Programs /\ c # Server /\ Server \in Programs /\ setup.clients \subseteq Clients
  BY <1>1, SetupTyped DEF Typed
<1>7. /\ lib' \in [Programs -> Library] /\ rand' \in [Seeds -> Seq(Draws)]
      /\ sends' \in [Programs -> Nat] /\ lost' \subseteq Programs \X Nat \X Clients
      /\ Libraries'
      /\ DropListExact'
  BY <1>1, <1>3, <1>4, <1>5, <1>6, AccountKeeps
<1>8. /\ lib'[c] = o.lib /\ lib'[Server] = lib[Server] /\ rand' = o.rand
      /\ \A l \in lost' \ lost : l[1] = c
  <2>1. lib \in [Programs -> Library]  BY <1>1 DEF Typed
  <2>2. lost' \subseteq lost \cup {<<c, sends[c] + 1, c>>}  BY <1>3 DEF Account
  <2> QED  BY <1>3, <1>6, <2>1, <2>2 DEF Account
<1>9. /\ client' \in [Clients -> ClientState]
      /\ client'[c].pc = "waiting" /\ client'[c].pdu = pdu
      /\ \A d \in Clients : d # c => client'[d] = client[d]
  <2>1. client \in [Clients -> ClientState] /\ client[c] \in ClientState
    BY <1>1 DEF Typed
  <2> DEFINE new == [client[c] EXCEPT !.pc = "waiting", !.pdu = pdu, !.keys = read.keys]
  <2>2. client' = [client EXCEPT ![c] = new]  BY <1>3
  <2>3. new \in ClientState /\ new.pc = "waiting" /\ new.pdu = pdu
    BY <1>5, <2>1 DEF ClientState
  <2> HIDE DEF new
  <2> QED  BY <2>1, <2>2, <2>3
<1>10. ~AtServer(c) /\ ~Returning(c) /\ ~Dropped(c) /\ c \in setup.clients
  BY <1>4 DEF IInv, Conversation
<1>11. ASSUME NEW d \in Clients
       PROVE  /\ Dropped(d)' <=> Dropped(d) \/ (o.out = << >> /\ d = c)
              /\ Returning(d)' <=> Returning(d)
  <2>1. Returning(d)' <=> Returning(d)  BY <1>4 DEF Returning
  <2> QED  BY <1>3, <2>1, LostBy
<1> DEFINE M == [from : Clients, bytes : Bytes]
           n == Len(toServer)
<1>12. toServer \in Seq(M) /\ n \in Nat /\ \A i \in 1 .. n : toServer[i] \in M
  BY <1>1, LenProperties, ElementOfSeq DEF Typed
<1>13. \/ /\ o.out = << >>
          /\ toServer' = toServer
       \/ \E x \in Bytes :
            /\ o.out = <<x>>
            /\ x = pdu \/ \E i \in 1 .. Len(pdu) : x = FlipByte(pdu, i)
            /\ toServer' \in Seq(M) /\ Len(toServer') = n + 1
            /\ \A i \in 1 .. n : toServer'[i] = toServer[i]
            /\ toServer'[n + 1] = [from |-> c, bytes |-> x]
  <2> DEFINE posted == [i \in DOMAIN o.out |-> [from |-> c, bytes |-> o.out[i]]]
  <2>1. toServer' = toServer \o posted  BY <1>3
  <2>2. /\ o.out = << >> => posted = << >>
        /\ \A x : o.out = <<x>> => posted = <<[from |-> c, bytes |-> x]>>
    BY OutRecords
  <2> HIDE DEF posted
  <2>3. \/ o.out = << >>
        \/ \E x \in Bytes : /\ o.out = <<x>>
                            /\ x = pdu \/ \E i \in 1 .. Len(pdu) : x = FlipByte(pdu, i)
    BY <1>1, <1>3, <1>5, <1>6, MaySend
  <2>4. CASE o.out = << >>
    <3>1. posted = << >>  BY <2>2, <2>4
    <3>2. toServer \o << >> = toServer  BY <1>12, ConcatEmptySeq
    <3> QED  BY <2>1, <2>4, <3>1, <3>2
  <2>5. ASSUME NEW x \in Bytes, o.out = <<x>>,
               x = pdu \/ \E i \in 1 .. Len(pdu) : x = FlipByte(pdu, i)
        PROVE  /\ toServer' \in Seq(M) /\ Len(toServer') = n + 1
               /\ \A i \in 1 .. n : toServer'[i] = toServer[i]
               /\ toServer'[n + 1] = [from |-> c, bytes |-> x]
    <3> DEFINE e == [from |-> c, bytes |-> x]
    <3>1. posted = <<e>>  BY <2>2, <2>5
    <3>2. e \in M  OBVIOUS
    <3> HIDE DEF e, M
    <3>3. toServer' = toServer \o <<e>>  BY <2>1, <3>1
    <3>4. /\ toServer' \in Seq(M) /\ Len(toServer') = n + 1
          /\ \A i \in 1 .. n : toServer'[i] = toServer[i]
          /\ toServer'[n + 1] = e
      BY <1>12, <3>2, <3>3, OneMore
    <3> QED  BY <3>4 DEF e
  <2> QED  BY <2>3, <2>4, <2>5
<1>14. /\ toServer' \in Seq(M)
       /\ AtServer(c)' <=> o.out # << >>
       /\ \A d \in Clients : d # c => (AtServer(d)' <=> AtServer(d))
       /\ \A d \in Clients : \A i, j \in 1 .. Len(toServer') :
            toServer'[i].from = d /\ toServer'[j].from = d => i = j
  <2>1. \A d \in Clients : \A i, j \in 1 .. n :
          toServer[i].from = d /\ toServer[j].from = d => i = j
    BY DEF IInv, Conversation
  <2>2. \A i \in 1 .. n : toServer[i].from # c  BY <1>10 DEF AtServer
  <2>3. CASE o.out = << >> /\ toServer' = toServer
    BY <1>10, <1>12, <2>1, <2>3 DEF AtServer
  <2>4. CASE ~ (o.out = << >> /\ toServer' = toServer)
    <3>1. PICK x \in Bytes :
            /\ o.out = <<x>> /\ toServer' \in Seq(M) /\ Len(toServer') = n + 1
            /\ \A i \in 1 .. n : toServer'[i] = toServer[i]
            /\ toServer'[n + 1] = [from |-> c, bytes |-> x]
      BY <1>13, <2>4
    <3> DEFINE m == n + 1
    <3>2. toServer'[m].from = c /\ Len(toServer') = m  BY <3>1
    <3>3. /\ m \in 1 .. m
          /\ \A i \in 1 .. m : i # m => i \in 1 .. n
          /\ \A i \in 1 .. n : i \in 1 .. m
      BY <1>12
    <3> HIDE DEF m, n
    <3>4. o.out # << >>
      <4>1. << >> # <<x>>  OBVIOUS
      <4> QED  BY <3>1, <4>1
    <3>5. AtServer(c)'  BY <3>2, <3>3 DEF AtServer
    <3>6. ASSUME NEW d \in Clients, d # c PROVE AtServer(d)' <=> AtServer(d)
      <4>1. AtServer(d)' <=> \E i \in 1 .. m : toServer'[i].from = d
        BY <3>2 DEF AtServer
      <4>2. AtServer(d) <=> \E i \in 1 .. n : toServer[i].from = d
        BY DEF AtServer, n
      <4>3. ASSUME AtServer(d)' PROVE AtServer(d)
        <5>1. PICK i \in 1 .. m : toServer'[i].from = d  BY <4>1, <4>3
        <5>2. i # m  BY <3>2, <3>6, <5>1
        <5>3. i \in 1 .. n  BY <3>3, <5>2
        <5> QED  BY <3>1, <4>2, <5>1, <5>3
      <4>4. ASSUME AtServer(d) PROVE AtServer(d)'
        <5>1. PICK i \in 1 .. n : toServer[i].from = d  BY <4>2, <4>4
        <5>2. toServer'[i] = toServer[i]  BY <3>1
        <5>3. i \in 1 .. m  BY <3>3
        <5> QED  BY <4>1, <5>1, <5>2, <5>3
      <4> QED  BY <4>3, <4>4
    <3>7. ASSUME NEW d \in Clients, NEW i \in 1 .. m, NEW j \in 1 .. m,
                 toServer'[i].from = d, toServer'[j].from = d
          PROVE  i = j
      <4>1. CASE d = c
        <5>1. \A k \in 1 .. m : toServer'[k].from = c => k = m
          BY <2>2, <3>1, <3>3
        <5> QED  BY <3>7, <4>1, <5>1
      <4>2. CASE d # c
        <5>1. i # m /\ j # m  BY <3>2, <3>7, <4>2
        <5> QED  BY <2>1, <3>1, <3>3, <3>7, <5>1
      <4> QED  BY <4>1, <4>2
    <3> QED  BY <3>2, <3>4, <3>5, <3>6, <3>7, <3>1
  <2> QED  BY <2>3, <2>4
<1>15. Typed'
  <2>1. toServer' \in Seq([from : Clients, bytes : Bytes])  BY <1>14
  <2> QED  BY <1>1, <1>4, <1>7, <1>9, <2>1 DEF Typed
<1>16. ASSUME NEW d \in Clients PROVE Conversation(d)'
  <2>1. Conversation(d)  BY DEF IInv
  <2>2. Len(toClient'[d]) <= 1  BY <1>4, <2>1 DEF Conversation
  <2>3. \A i, j \in 1 .. Len(toServer') :
          toServer'[i].from = d /\ toServer'[j].from = d => i = j
    BY <1>14
  <2>4. client'[d].pc # "done" => d \in setup'.clients
    BY <1>4, <1>9, <1>10, <2>1 DEF Conversation
  <2>5. /\ client'[d].pc = "waiting" <=> AtServer(d)' \/ Returning(d)' \/ Dropped(d)'
        /\ AtServer(d)' => ~Returning(d)' /\ ~Dropped(d)'
        /\ Returning(d)' => ~Dropped(d)'
    <3>1. CASE d = c  BY <1>9, <1>10, <1>11, <1>14, <3>1
    <3>2. CASE d # c
      <4>1. client'[d].pc = client[d].pc  BY <1>9, <3>2
      <4>2. (AtServer(d)' <=> AtServer(d)) /\ (Returning(d)' <=> Returning(d))
            /\ (Dropped(d)' <=> Dropped(d))
        BY <1>11, <1>14, <3>2
      <4> QED  BY <2>1, <4>1, <4>2 DEF Conversation
    <3> QED  BY <3>1, <3>2
  <2> QED  BY <2>2, <2>3, <2>4, <2>5 DEF Conversation
<1>17. ASSUME NEW i \in 1 .. Len(toServer') PROVE Delivered(toServer[i])'
  <2>1. ASSUME NEW j \in 1 .. n, toServer'[i] = toServer[j]
        PROVE  Delivered(toServer[i])'
    <3>1. toServer[j].from \in Clients /\ toServer[j].from # c
      BY <1>10, <1>12 DEF AtServer
    <3>2. client'[toServer[j].from] = client[toServer[j].from]  BY <1>9, <3>1
    <3>3. Delivered(toServer[j])  BY DEF IInv
    <3> QED  BY <2>1, <3>2, <3>3 DEF Delivered
  <2>2. CASE o.out = << >> /\ toServer' = toServer
    BY <2>1, <2>2
  <2>3. CASE ~ (o.out = << >> /\ toServer' = toServer)
    <3>1. PICK x \in Bytes :
            /\ x = pdu \/ \E k \in 1 .. Len(pdu) : x = FlipByte(pdu, k)
            /\ Len(toServer') = n + 1
            /\ \A k \in 1 .. n : toServer'[k] = toServer[k]
            /\ toServer'[n + 1] = [from |-> c, bytes |-> x]
      BY <1>13, <2>3
    <3>2. CASE i = n + 1
      <4>1. toServer'[i].from = c /\ toServer'[i].bytes = x  BY <3>1, <3>2
      <4> QED  BY <1>5, <1>9, <3>1, <4>1 DEF Delivered
    <3>3. CASE i # n + 1
      <4>1. i \in 1 .. n  BY <1>12, <3>1, <3>3
      <4> QED  BY <2>1, <3>1, <4>1
    <3> QED  BY <3>2, <3>3
  <2> QED  BY <2>2, <2>3
<1>18. InStep' <=> InStep  BY <1>4 DEF InStep
<1>19. ASSUME InStep, NEW d \in setup.clients PROVE Lockstep(d)'
  <2> DEFINE l == lib[c]
             k == lib[Server]
  <2>1. /\ \A e \in setup.clients : e = c
        /\ InLab(l) /\ InLab(k) /\ l.seed = k.seed /\ l.rate = k.rate
    BY <1>1, <1>10, <1>19, LabLibraries
  <2>2. d = c  BY <2>1
  <2>3. toServer = << >>
    <3>1. ASSUME NEW i \in 1 .. n PROVE FALSE
      <4> DEFINE e == toServer[i].from
      <4>1. e \in Clients /\ AtServer(e)  BY <1>12 DEF AtServer
      <4>2. e \in setup.clients  BY <4>1 DEF IInv, Conversation
      <4> QED  BY <1>10, <2>1, <4>1, <4>2
    <3>2. n = 0
      <4> HIDE DEF n
      <4> SUFFICES ASSUME n # 0 PROVE FALSE  OBVIOUS
      <4>1. 1 \in 1 .. n  BY <1>12
      <4> QED  BY <3>1, <4>1
    <3> HIDE DEF M
    <3> QED  BY <1>12, <3>2, EmptySeq
  <2>4. /\ Len(rand[l.seed]) = l.drawn /\ k.drawn = l.drawn
    BY <1>10, <1>19, <2>3 DEF IInv, Lockstep
  <2>5. rand \in [Seeds -> Seq(Draws)]  BY <1>1 DEF Typed
  <2>6. /\ Len(o.rand[o.lib.seed]) = o.lib.drawn
        /\ \E t \in Throws(o.rand, k) :
             /\ Sent(k, o.rand, pdu, t).out = o.out
             /\ Sent(k, o.rand, pdu, t).lib.drawn = o.lib.drawn
    <3> HIDE DEF l, k
    <3>1. o \in SendtoErr(l, rand, pdu)  BY <1>3 DEF l
    <3> QED  BY <1>5, <2>1, <2>4, <2>5, <3>1, ServerFollows
  <2>7. Len(rand'[lib'[c].seed]) = lib'[c].drawn  BY <1>8, <2>6
  <2>8. ~ (toServer' = << >> /\ ~Dropped(c)')
    <3>1. o.out = << >> => Dropped(c)'  BY <1>11
    <3>2. o.out # << >> => toServer' # << >>
      <4>1. o.out # << >> => AtServer(c)'  BY <1>14
      <4>2. AtServer(c)' => toServer' # << >>  BY NothingIn DEF AtServer
      <4> QED  BY <4>1, <4>2
    <3> QED  BY <3>1, <3>2
  <2>9. ASSUME NEW i \in 1 .. Len(toServer') PROVE o.out = <<toServer'[i].bytes>>
    <3>1. n = 0  BY <2>3, NothingIn
    <3> HIDE DEF n
    <3>2. ~ (o.out = << >> /\ toServer' = toServer)
      <4>1. 1 .. Len(toServer) = {}  BY <2>3, NothingIn
      <4> QED  BY <4>1
    <3>3. PICK x \in Bytes : /\ o.out = <<x>> /\ Len(toServer') = n + 1
                             /\ toServer'[n + 1] = [from |-> c, bytes |-> x]
      BY <1>13, <3>2
    <3>4. i = n + 1  BY <3>1, <3>3
    <3>5. toServer'[i].bytes = x  BY <3>3, <3>4
    <3> QED  BY <3>3, <3>5
  <2>10. ASSUME NEW i \in 1 .. Len(toServer')
         PROVE  \E t \in Throws(rand', lib'[Server]) :
                  LET s == Sent(lib'[Server], rand', client'[c].pdu, t)
                  IN  s.out = <<toServer'[i].bytes>> /\ s.lib.drawn = lib'[c].drawn
    BY <1>8, <1>9, <2>6, <2>9
  <2> QED  BY <2>2, <2>7, <2>8, <2>10 DEF Lockstep
<1>20. EchoRestored'
  <2> SUFFICES ASSUME InStep
               PROVE  /\ \A d \in setup.clients : \A i \in DOMAIN toClient[d] :
                           toClient[d][i] = client'[d].pdu
                      /\ \A l \in lost' : l[1] # Server
    BY <1>4, <1>18 DEF EchoRestored
  <2>1. \A d \in setup.clients : d = c
    BY <1>1, <1>10, LabLibraries
  <2>2. DOMAIN toClient[c] = {}  BY <1>10, NothingIn DEF Returning
  <2>3. \A l \in lost : l[1] # Server  BY <1>1 DEF EchoRestored
  <2>4. \A l \in lost' : l[1] # Server  BY <1>6, <1>8, <2>3
  <2> QED  BY <2>1, <2>2, <2>4
<1> QED
  BY <1>4, <1>7, <1>15, <1>16, <1>17, <1>18, <1>19, <1>20 DEF IInv

\* The server echoes.
LEMMA EchoStep ==
  ASSUME IInv, Echo
  PROVE  IInv'
<1>1. Typed /\ Libraries /\ DropListExact /\ EchoRestored  BY DEF IInv
<1> DEFINE M == [from : Clients, bytes : Bytes]
<1>0. PICK m, c, n : m = Head(toServer) /\ c = m.from /\ n = Len(toServer)
  OBVIOUS
<1>2. PICK o \in SendtoErr(lib[Server], rand, m.bytes) :
        /\ Account(Server, c, o)
        /\ toClient' = [toClient EXCEPT ![c] = @ \o o.out]
  BY <1>0 DEF Echo, ReplyTo
<1>3. /\ toServer # << >> /\ toServer' = Tail(toServer)
      /\ setup' = setup /\ client' = client
  BY DEF Echo
<1>4. toServer \in Seq(M) /\ n \in Nat /\ \A i \in 1 .. n : toServer[i] \in M
  BY <1>0, <1>1, LenProperties, ElementOfSeq DEF Typed
<1>5. /\ n >= 1 /\ toServer' \in Seq(M) /\ Len(toServer') = n - 1
      /\ \A i \in 1 .. n - 1 : toServer'[i] = toServer[i + 1]
      /\ m = toServer[1] /\ 1 \in 1 .. n
  <2>1. n # 0  BY <1>0, <1>3, <1>4, EmptySeq
  <2>2. /\ Tail(toServer) \in Seq(M) /\ Len(Tail(toServer)) = n - 1
        /\ \A i \in 1 .. Len(Tail(toServer)) : Tail(toServer)[i] = toServer[i + 1]
    BY <1>0, <1>3, <1>4, HeadTailProperties
  <2>3. m = toServer[1]  BY <1>0
  <2>4. n >= 1 /\ 1 \in 1 .. n  BY <1>4, <2>1
  <2> QED  BY <1>3, <2>2, <2>3, <2>4
<1>6. m \in M /\ c \in Clients /\ m.bytes \in Bytes
  <2>1. m \in M  BY <1>4, <1>5
  <2> QED  BY <1>0, <2>1
<1>7. AtServer(c)  BY <1>0, <1>5 DEF AtServer
<1>8. Delivered(m)
  <2>1. Delivered(toServer[1])  BY <1>0, <1>5 DEF IInv
  <2> QED  BY <1>5, <2>1
<1>9. ~Returning(c) /\ ~Dropped(c) /\ client[c].pc = "waiting" /\ c \in setup.clients
  BY <1>6, <1>7 DEF IInv, Conversation
<1>10. c # Server /\ Server \in Programs /\ c \in Programs
       /\ setup.clients \subseteq Clients
  BY <1>1, <1>6, SetupTyped DEF Typed
<1>11. /\ lib' \in [Programs -> Library] /\ rand' \in [Seeds -> Seq(Draws)]
       /\ sends' \in [Programs -> Nat] /\ lost' \subseteq Programs \X Nat \X Clients
       /\ Libraries'
       /\ DropListExact'
  BY <1>1, <1>2, <1>3, <1>6, <1>10, AccountKeeps
<1>12. /\ lib'[Server] = o.lib /\ lib'[c] = lib[c] /\ rand' = o.rand
       /\ o.out # << >> => lost' = lost
  <2>1. lib \in [Programs -> Library]  BY <1>1 DEF Typed
  <2> QED  BY <1>2, <1>10, <2>1 DEF Account
<1>13. \/ o.out = << >>
       \/ \E x \in Bytes : o.out = <<x>>
  BY <1>1, <1>2, <1>6, <1>10, MaySend
<1>14. /\ toClient' \in [Clients -> Seq(Bytes)] /\ toClient'[c] = o.out
       /\ Len(o.out) <= 1
       /\ \A d \in Clients : d # c => toClient'[d] = toClient[d]
  <2>1. toClient \in [Clients -> Seq(Bytes)]  BY <1>1 DEF Typed
  <2>2. toClient[c] = << >>  BY <1>9 DEF Returning
  <2>3. o.out \in Seq(Bytes) /\ Len(o.out) <= 1
    <3>1. CASE o.out = << >>  BY <3>1, NothingIn, EmptySeq
    <3>2. ASSUME NEW x \in Bytes, o.out = <<x>>
          PROVE  o.out \in Seq(Bytes) /\ Len(o.out) <= 1
      BY <3>2
    <3> QED  BY <1>13, <3>1, <3>2
  <2>4. << >> \o o.out = o.out  BY <2>3, ConcatEmptySeq
  <2>5. toClient' = [toClient EXCEPT ![c] = o.out]  BY <1>2, <2>2, <2>4
  <2> QED  BY <1>6, <2>1, <2>3, <2>5
<1>15. ASSUME NEW d \in Clients
       PROVE  /\ Dropped(d)' <=> Dropped(d) \/ (o.out = << >> /\ d = c)
              /\ d # c => (Returning(d)' <=> Returning(d))
  <2>1. d # c => (Returning(d)' <=> Returning(d))  BY <1>14 DEF Returning
  <2> QED  BY <1>2, <2>1, LostBy
<1>16. /\ ~AtServer(c)'
       /\ \A d \in Clients : d # c => (AtServer(d)' <=> AtServer(d))
       /\ \A d \in Clients : \A i, j \in 1 .. Len(toServer') :
            toServer'[i].from = d /\ toServer'[j].from = d => i = j
  <2>1. \A d \in Clients : \A i, j \in 1 .. n :
          toServer[i].from = d /\ toServer[j].from = d => i = j
    BY <1>0 DEF IInv, Conversation
  <2>2. \A i \in 1 .. n - 1 : i + 1 \in 1 .. n /\ i + 1 # 1  BY <1>4
  <2>3. toServer[1].from = c  BY <1>0, <1>5
  <2>4. ~AtServer(c)'
    <3> SUFFICES ASSUME NEW i \in 1 .. n - 1, toServer'[i].from = c PROVE FALSE
      BY <1>5 DEF AtServer
    <3>1. i + 1 \in 1 .. n /\ i + 1 # 1 /\ toServer[i + 1].from = c
      BY <1>5, <2>2
    <3> QED  BY <1>5, <1>6, <2>1, <2>3, <3>1
  <2>5. ASSUME NEW d \in Clients, d # c PROVE AtServer(d)' <=> AtServer(d)
    <3>1. AtServer(d)' <=> \E i \in 1 .. n - 1 : toServer'[i].from = d
      BY <1>5 DEF AtServer
    <3>2. AtServer(d) <=> \E i \in 1 .. n : toServer[i].from = d
      BY <1>0 DEF AtServer
    <3>3. ASSUME AtServer(d)' PROVE AtServer(d)
      <4>1. PICK i \in 1 .. n - 1 : toServer'[i].from = d  BY <3>1, <3>3
      <4>2. i + 1 \in 1 .. n /\ toServer[i + 1].from = d  BY <1>5, <2>2, <4>1
      <4> QED  BY <3>2, <4>2
    <3>4. ASSUME AtServer(d) PROVE AtServer(d)'
      <4>1. PICK i \in 1 .. n : toServer[i].from = d  BY <3>2, <3>4
      <4>2. i # 1  BY <2>3, <2>5, <4>1
      <4> DEFINE j == i - 1
      <4>3. j \in 1 .. n - 1 /\ j + 1 = i  BY <1>4, <4>2
      <4> HIDE DEF j
      <4>4. toServer'[j].from = d  BY <1>5, <4>1, <4>3
      <4> QED  BY <3>1, <4>3, <4>4
    <3> QED  BY <3>3, <3>4
  <2>6. ASSUME NEW d \in Clients, NEW i \in 1 .. n - 1, NEW j \in 1 .. n - 1,
               toServer'[i].from = d, toServer'[j].from = d
        PROVE  i = j
    <3>1. toServer[i + 1].from = d /\ toServer[j + 1].from = d  BY <1>5, <2>6
    <3>2. i + 1 = j + 1  BY <2>1, <2>2, <3>1
    <3> QED  BY <3>2
  <2> QED  BY <1>5, <2>4, <2>5, <2>6
<1>17. Typed'
  <2>1. toServer' \in Seq([from : Clients, bytes : Bytes])  BY <1>5
  <2> QED  BY <1>1, <1>3, <1>11, <1>14, <2>1 DEF Typed
<1>18. ASSUME NEW d \in Clients PROVE Conversation(d)'
  <2>1. Conversation(d)  BY DEF IInv
  <2>2. Len(toClient'[d]) <= 1
    <3>1. Len(toClient[d]) <= 1  BY <2>1 DEF Conversation
    <3> QED  BY <1>14, <3>1
  <2>3. \A i, j \in 1 .. Len(toServer') :
          toServer'[i].from = d /\ toServer'[j].from = d => i = j
    BY <1>16
  <2>4. client'[d].pc # "done" => d \in setup'.clients
    BY <1>3, <2>1 DEF Conversation
  <2>5. /\ client'[d].pc = "waiting" <=> AtServer(d)' \/ Returning(d)' \/ Dropped(d)'
        /\ AtServer(d)' => ~Returning(d)' /\ ~Dropped(d)'
        /\ Returning(d)' => ~Dropped(d)'
    <3>1. CASE d = c
      <4>1. Returning(c)' <=> o.out # << >>  BY <1>14 DEF Returning
      <4>2. Dropped(c)' <=> o.out = << >>  BY <1>6, <1>9, <1>15
      <4>3. client'[c].pc = "waiting"  BY <1>3, <1>9
      <4> QED  BY <1>16, <3>1, <4>1, <4>2, <4>3
    <3>2. CASE d # c
      <4>1. (AtServer(d)' <=> AtServer(d)) /\ (Returning(d)' <=> Returning(d))
            /\ (Dropped(d)' <=> Dropped(d))
        BY <1>15, <1>16, <3>2
      <4> QED  BY <1>3, <2>1, <4>1 DEF Conversation
    <3> QED  BY <3>1, <3>2
  <2> QED  BY <2>2, <2>3, <2>4, <2>5 DEF Conversation
<1>19. ASSUME NEW i \in 1 .. Len(toServer') PROVE Delivered(toServer[i])'
  <2>1. i \in 1 .. n - 1  BY <1>5
  <2>2. i + 1 \in 1 .. n /\ toServer'[i] = toServer[i + 1]  BY <1>4, <1>5, <2>1
  <2>3. Delivered(toServer[i + 1])  BY <1>0, <2>2 DEF IInv
  <2> QED  BY <1>3, <2>2, <2>3 DEF Delivered
<1>20. InStep' <=> InStep  BY <1>3 DEF InStep
<1>21. ASSUME InStep, NEW d \in setup.clients
       PROVE  /\ d = c /\ o.out = <<client[c].pdu>> /\ Lockstep(d)'
  <2> DEFINE k == lib[Server]
             pdu == client[c].pdu
  <2>1. /\ \A e \in setup.clients : e = c
        /\ InLab(k) /\ lib[c].seed = k.seed
    BY <1>1, <1>9, <1>21, LabLibraries
  <2>2. d = c  BY <2>1
  <2>3. Lockstep(c)  BY <1>9, <1>21 DEF IInv
  <2>4. PICK t \in Throws(rand, k) :
          /\ Sent(k, rand, pdu, t).out = <<m.bytes>>
          /\ Sent(k, rand, pdu, t).lib.drawn = lib[c].drawn
    <3>1. 1 \in 1 .. Len(toServer) /\ toServer[1].bytes = m.bytes
      BY <1>0, <1>5
    <3> QED  BY <2>3, <3>1 DEF Lockstep
  <2>5. Len(rand[k.seed]) = lib[c].drawn  BY <2>1, <2>3 DEF Lockstep
  <2>6. rand \in [Seeds -> Seq(Draws)] /\ pdu \in Bytes
    BY <1>1, <1>6 DEF Typed, ClientState
  <2>7. o.out = <<pdu>> /\ o.rand = rand /\ o.lib.drawn = Len(rand[k.seed])
    <3> DEFINE x == m.bytes
    <3> HIDE DEF k, pdu, x
    <3>1. o \in SendtoErr(k, rand, x) /\ Sent(k, rand, pdu, t).out = <<x>>
          /\ Sent(k, rand, pdu, t).lib.drawn = Len(rand[k.seed])
      BY <1>2, <2>4, <2>5 DEF k, x
    <3> QED  BY <2>1, <2>6, <3>1, ServerRestores
  <2>8. n = 1
    <3> SUFFICES ASSUME n # 1 PROVE FALSE  OBVIOUS
    <3>1. 2 \in 1 .. n  BY <1>4, <1>5
    <3> DEFINE e == toServer[2].from
    <3>2. e \in Clients /\ AtServer(e)  BY <1>0, <1>4, <3>1 DEF AtServer
    <3>3. e = c  BY <2>1, <3>2 DEF IInv, Conversation
    <3>4. toServer[1].from = c  BY <1>0, <1>5
    <3>5. 2 = 1  BY <1>0, <1>5, <1>6, <3>1, <3>3, <3>4 DEF IInv, Conversation
    <3> QED  BY <3>5
  <2>9. 1 .. Len(toServer') = {}  BY <1>5, <2>8
  <2>10. Len(rand'[lib'[c].seed]) = lib'[c].drawn
    BY <1>12, <2>1, <2>5, <2>7
  <2>11. lib'[Server].drawn = lib'[c].drawn
    BY <1>12, <2>5, <2>7
  <2>12. Lockstep(c)'  BY <2>9, <2>10, <2>11 DEF Lockstep
  <2> QED  BY <2>2, <2>7, <2>12
<1>22. EchoRestored'
  <2> SUFFICES ASSUME InStep
               PROVE  /\ \A d \in setup.clients : \A i \in DOMAIN toClient'[d] :
                           toClient'[d][i] = client[d].pdu
                      /\ \A l \in lost' : l[1] # Server
    BY <1>3, <1>20 DEF EchoRestored
  <2>1. o.out = <<client[c].pdu>> /\ \A d \in setup.clients : d = c
    BY <1>9, <1>21
  <2>2. \A y : << >> # <<y>> /\ DOMAIN <<y>> = {1} /\ <<y>>[1] = y  OBVIOUS
  <2>3. lost' = lost  BY <1>12, <2>1, <2>2
  <2>4. \A l \in lost : l[1] # Server  BY <1>1 DEF EchoRestored
  <2>5. DOMAIN toClient'[c] = {1} /\ toClient'[c][1] = client[c].pdu
    BY <1>14, <2>1, <2>2
  <2> QED  BY <2>1, <2>3, <2>4, <2>5
<1> QED
  BY <1>3, <1>11, <1>17, <1>18, <1>19, <1>20, <1>21, <1>22 DEF IInv

-----------------------------------------------------------------------------
(***************************************************************************)
(* What the lab promises                                                   *)
(***************************************************************************)

\* Every step keeps the invariant.
LEMMA NextIInv ==
  ASSUME IInv, [Next]_vars
  PROVE  IInv'
<1>1. CASE UNCHANGED vars
  <2>1. UNCHANGED <<setup, lib, rand, client, toServer, toClient, sends, lost>>
    BY <1>1 DEF vars
  <2>2. Typed' /\ EchoRestored' /\ DropListExact' /\ Libraries'
    <3>1. Typed /\ EchoRestored /\ DropListExact /\ Libraries  BY DEF IInv
    <3>2. Typed'  BY <2>1, <3>1 DEF Typed
    <3>3. EchoRestored'  BY <2>1, <3>1 DEF EchoRestored, InStep
    <3> QED  BY <2>1, <3>1, <3>2, <3>3, LibrariesStay
  <2>3. \A c \in Clients : Conversation(c)'
    BY <2>1 DEF IInv, Conversation, AtServer, Returning, Dropped
  <2>4. Typed  BY DEF IInv
  <2>5. /\ \A i \in 1 .. Len(toServer) : Delivered(toServer[i]) => Delivered(toServer[i])'
        /\ \A c \in Clients : Lockstep(c) => Lockstep(c)'
    BY <2>1, <2>4, DatagramsStay
  <2>6. \A i \in 1 .. Len(toServer') : Delivered(toServer[i])'  BY <2>1, <2>5 DEF IInv
  <2>7. InStep' => \A c \in setup'.clients : Lockstep(c)'
    <3>1. setup.clients \subseteq Clients  BY <2>4, SetupTyped DEF Typed
    <3>2. InStep' <=> InStep  BY <2>1, LibrariesStay
    <3> QED  BY <2>1, <2>5, <3>1, <3>2 DEF IInv
  <2> QED  BY <2>2, <2>3, <2>6, <2>7 DEF IInv
<1>2. ASSUME NEW c \in Clients, SetupUdpClientToServer(c) PROVE IInv'
  <2>1. PICK pc \in {"typing", "done"} : client' = [client EXCEPT ![c].pc = pc]
    BY <1>2 DEF SetupUdpClientToServer
  <2>2. /\ client[c].pc \in {"setup", "typing"}
        /\ UNCHANGED <<setup, lib, rand, toServer, toClient, sends, lost>>
    BY <1>2 DEF SetupUdpClientToServer
  <2> QED  BY <2>1, <2>2, MovesOn
<1>3. ASSUME NEW c \in Clients, SendLine(c) PROVE IInv'  BY <1>3, SendLineStep
<1>4. ASSUME NEW c \in Clients, Quit(c) PROVE IInv'
  <2>1. /\ client[c].pc \in {"setup", "typing"}
        /\ client' = [client EXCEPT ![c].pc = "done"]
        /\ UNCHANGED <<setup, lib, rand, toServer, toClient, sends, lost>>
    BY <1>4 DEF Quit
  <2>2. "done" \in {"typing", "done"}  OBVIOUS
  <2> QED  BY <2>1, <2>2, MovesOn
<1>5. ASSUME NEW c \in Clients, ReceiveEcho(c) PROVE IInv'  BY <1>5, ReceiveEchoStep
<1>6. CASE Echo  BY <1>6, EchoStep
<1> QED  BY <1>1, <1>2, <1>3, <1>4, <1>5, <1>6 DEF Next

\* The invariant of the lab, for every value of the constants.
LEMMA Invariance == Spec => []IInv
<1>1. Init => IInv  BY InitIInv
<1>2. IInv /\ [Next]_vars => IInv'  BY NextIInv
<1> QED  BY <1>1, <1>2, PTL DEF Spec

\* A datagram the server takes for good prints as the line that was sent: in_cksum
\* notices a flipped byte wherever errorFlipBits has flipped it.
THEOREM ShowsSentOnly == Spec => []ServerShowsSent
<1>1. IInv => ServerShowsSent
  <2> SUFFICES ASSUME IInv, NEW i \in DOMAIN toServer
               PROVE  PrintPDU(toServer[i].bytes) \in
                        {Corrupted, PrintPDU(client[toServer[i].from].pdu)}
    BY DEF ServerShowsSent
  <2>1. i \in 1 .. Len(toServer)  BY LenProperties DEF IInv, Typed
  <2> DEFINE b == toServer[i].bytes
             pdu == client[toServer[i].from].pdu
  <2>2. Balanced(pdu) /\ (b = pdu \/ \E k \in 1 .. Len(pdu) : b = FlipByte(pdu, k))
    BY <2>1 DEF IInv, Delivered
  <2> HIDE DEF b, pdu
  <2>3. CASE ~Accepted(b)  BY <2>3 DEF PrintPDU, b
  <2>4. CASE Accepted(b)
    <3>1. b = pdu  BY <2>2, <2>4, FlipDetected
    <3> QED  BY <3>1 DEF b, pdu
  <2> QED  BY <2>3, <2>4
<1> QED  BY <1>1, Invariance, PTL

\* One client and the server on the same dice: what the one library has flipped the
\* other flips back, and it drops nothing.
THEOREM EchoesAreRestored == Spec => []EchoRestored
<1>1. IInv => EchoRestored  BY DEF IInv
<1> QED  BY <1>1, Invariance, PTL

\* A drop list takes exactly the transmissions it names, and infoSeqNo misses them.
THEOREM DropListsAreExact == Spec => []DropListExact
<1>1. IInv => DropListExact  BY DEF IInv
<1> QED  BY <1>1, Invariance, PTL

\* A client that waits for nothing has lost a datagram, and that is the only way.
THEOREM WaitsExplained == Spec => []StuckMeansDropped
<1>1. IInv => StuckMeansDropped
  <2> SUFFICES ASSUME IInv, NEW c \in Clients, client[c].pc = "waiting"
               PROVE  (\/ toClient[c] # << >>
                       \/ \E i \in DOMAIN toServer : toServer[i].from = c)
                      # (\E l \in lost : l[3] = c)
    BY DEF StuckMeansDropped
  <2>1. DOMAIN toServer = 1 .. Len(toServer)  BY LenProperties DEF IInv, Typed
  <2>2. Conversation(c)  BY DEF IInv
  <2>3. Returning(c) \/ AtServer(c) <=> ~Dropped(c)  BY <2>2 DEF Conversation
  <2>4. Returning(c) \/ AtServer(c)
          <=> (\/ toClient[c] # << >>
               \/ \E i \in DOMAIN toServer : toServer[i].from = c)
    BY <2>1 DEF Returning, AtServer
  <2>5. Dropped(c) <=> \E l \in lost : l[3] = c  BY DEF Dropped
  <2> QED  BY <2>3, <2>4, <2>5, Zenon
<1> QED  BY <1>1, Invariance, PTL

-----------------------------------------------------------------------------
(***************************************************************************)
(* The packet trace                                                        *)
(***************************************************************************)

\* Part of a packet.
LEMMA PartOf ==
  ASSUME NEW b \in Bytes, NEW m \in Nat, NEW n \in Nat, m <= n, n <= Len(b)
  PROVE  /\ SubSeq(b, m + 1, n) \in Bytes /\ Len(SubSeq(b, m + 1, n)) = n - m
         /\ \A i \in 1 .. n - m : SubSeq(b, m + 1, n)[i] = b[m + i]
<1>1. \A i \in m + 1 .. n : b[i] \in ByteValue
  <2>1. Len(b) \in Nat  BY BytesOf
  <2>2. \A i \in m + 1 .. n : i \in 1 .. Len(b)  BY <2>1
  <2> QED  BY <2>2, ElementOfSeq DEF Bytes
<1>2. m + 1 \in Int /\ n \in Int  OBVIOUS
<1> DEFINE p == SubSeq(b, m + 1, n)
<1>3. /\ p \in Seq(ByteValue)
      /\ Len(p) = IF m + 1 <= n THEN n - (m + 1) + 1 ELSE 0
      /\ \A i \in 1 .. n - (m + 1) + 1 : p[i] = b[m + 1 + i - 1]
  BY <1>1, <1>2, SubSeqProperties
<1> HIDE DEF p
<1>4. Len(p) = n - m  BY <1>3
<1>5. ASSUME NEW i \in 1 .. n - m PROVE p[i] = b[m + i]
  <2>1. i \in 1 .. n - (m + 1) + 1 /\ m + 1 + i - 1 = m + i  OBVIOUS
  <2> QED  BY <1>3, <2>1
<1> QED  BY <1>3, <1>4, <1>5 DEF p, Bytes

\* The verdict on a sealed packet that has changed in one place at most tells
\* whether it has.
LEMMA VerdictTells ==
  ASSUME NEW x \in Bytes, NEW y \in Bytes, Len(y) = Len(x), WordsIn(Len(x)) <= Word,
         Accepted(x),
         \A i, j \in 1 .. Len(x) : y[i] # x[i] /\ y[j] # x[j] => i = j
  PROVE  Verdict(y) = "Incorrect" <=> \E i \in 1 .. Len(x) : y[i] # x[i]
<1>1. CASE \A i \in 1 .. Len(x) : y[i] = x[i]
  <2>1. y = x  BY <1>1, SeqEqual DEF Bytes
  <2> QED  BY <1>1, <2>1 DEF Verdict
<1>2. ASSUME NEW i \in 1 .. Len(x), y[i] # x[i] PROVE Verdict(y) = "Incorrect"
  <2>1. \A k \in 1 .. Len(x) : k # i => y[k] = x[k]  BY <1>2
  <2>2. Balanced(x)  BY AcceptedBalanced DEF Short
  <2>3. Accepted(y) => y = x  BY <2>1, <2>2, DamageDetected
  <2> QED  BY <1>2, <2>3 DEF Verdict
<1> QED  BY <1>1, <1>2

\* A frame as it was sent and as it was captured, in the range of a byte.
Taken(s, c) ==
  /\ Byte = 256 /\ s \in Bytes /\ c \in Bytes
  /\ Framed(s) /\ DamagedOnce(s, c)

\* The offsets of a frame.
LEMMA Offsets ==
  ASSUME NEW s, NEW c, Taken(s, c)
  PROVE  /\ Len(s) \in Nat /\ Len(c) = Len(s)
         /\ \A i \in 1 .. Len(s) : /\ s[i] \in Nat /\ s[i] <= 255
                                   /\ c[i] \in Nat /\ c[i] <= 255
         /\ \A i, j \in 1 .. Len(s) : c[i] # s[i] /\ c[j] # s[j] => i = j
         /\ \A o \in Readable : o < Len(s) => At(c, o) = At(s, o)
<1>1. s \in Bytes /\ c \in Bytes /\ DamagedOnce(s, c)  BY DEF Taken
<1>2. Byte - 1 = 255  BY DEF Taken
<1>3. Len(s) \in Nat /\ DOMAIN s = 1 .. Len(s) /\ Len(c) = Len(s)
  BY <1>1, BytesOf DEF DamagedOnce
<1>4. \A i \in 1 .. Len(s) : s[i] \in Nat /\ s[i] <= 255 /\ c[i] \in Nat /\ c[i] <= 255
  BY <1>1, <1>2, <1>3, BytesOf
<1>5. \A i, j \in 1 .. Len(s) : c[i] # s[i] /\ c[j] # s[j] => i = j /\ i - 1 \notin Readable
  BY <1>1, <1>3 DEF DamagedOnce
<1>6. ASSUME NEW o \in Readable, o < Len(s) PROVE At(c, o) = At(s, o)
  <2>1. o \in Nat  BY DEF Readable
  <2>2. o + 1 \in 1 .. Len(s) /\ (o + 1) - 1 = o  BY <1>3, <1>6, <2>1
  <2>3. c[o + 1] = s[o + 1]  BY <1>5, <1>6, <2>2
  <2> QED  BY <2>3 DEF At
<1> QED  BY <1>3, <1>4, <1>5, <1>6

\* Two bytes make a number of 16 bits.
LEMMA HalvesFit ==
  ASSUME NEW a \in Nat, NEW b \in Nat, a <= 255, b <= 255
  PROVE  256 * a + b \in Nat /\ 256 * a + b <= 65535
OBVIOUS

\* Four bits make a number up to 15.
LEMMA LowBits ==
  ASSUME NEW a \in Nat
  PROVE  a % 16 \in Nat /\ a % 16 <= 15
<1>1. 16 \in Nat /\ 16 > 0  OBVIOUS
<1>2. a % 16 \in Nat /\ a % 16 <= 16 - 1  BY <1>1, Division
<1> QED  BY <1>2

\* A number that fits is kept as it is.
LEMMA FitsIn ==
  ASSUME NEW w \in Nat, NEW x \in Nat, x < w
  PROVE  x % w = x
<1>1. 0 \in Nat /\ w > 0  OBVIOUS
<1>2. (w * 0 + x) % w = x  BY <1>1, DivisionIs
<1>3. w * 0 + x = x  OBVIOUS
<1> QED  BY <1>2, <1>3

\* The lengths of an IP frame, and where trace looks for its parts: the captured
\* bytes say the same as those that were sent.
LEMMA Layout ==
  ASSUME NEW s, NEW c, Taken(s, c)
  PROVE  /\ Ethernet(c) = Ethernet(s)
         /\ Ethernet(s) = "IP" =>
              /\ HeaderEnd(s) \in Nat /\ 34 <= HeaderEnd(s) /\ HeaderEnd(s) <= 74
              /\ PacketEnd(s) \in HeaderEnd(s) .. Len(s)
              /\ PacketEnd(s) - HeaderEnd(s) <= 65535
              /\ IpHdrLen(c) = HeaderEnd(s) - 14
              /\ TcpSegLen(c) = PacketEnd(s) - HeaderEnd(s)
              /\ At(c, 23) = At(s, 23)
<1>1. /\ Len(s) \in Nat
      /\ \A i \in 1 .. Len(s) : s[i] \in Nat /\ s[i] <= 255
      /\ \A o \in Readable : o < Len(s) => At(c, o) = At(s, o)
  BY Offsets
<1>2. 14 <= Len(s)  BY DEF Taken, Framed
<1>3. At(c, 12) = At(s, 12) /\ At(c, 13) = At(s, 13)
  <2>1. 12 \in Readable /\ 13 \in Readable /\ 12 < Len(s) /\ 13 < Len(s)
    BY <1>1, <1>2 DEF Readable
  <2> QED  BY <1>1, <2>1
<1>4. Ethernet(c) = Ethernet(s)
  <2>1. 12 + 1 = 13  OBVIOUS
  <2>2. Ntohs(c, 12) = Ntohs(s, 12)  BY <1>3, <2>1 DEF Ntohs
  <2> QED  BY <2>2 DEF Ethernet
<1>5. ASSUME Ethernet(s) = "IP"
      PROVE  /\ HeaderEnd(s) \in Nat /\ 34 <= HeaderEnd(s) /\ HeaderEnd(s) <= 74
             /\ PacketEnd(s) \in HeaderEnd(s) .. Len(s)
             /\ PacketEnd(s) - HeaderEnd(s) <= 65535
             /\ IpHdrLen(c) = HeaderEnd(s) - 14
             /\ TcpSegLen(c) = PacketEnd(s) - HeaderEnd(s)
             /\ At(c, 23) = At(s, 23)
  <2>1. /\ 34 <= Len(s) /\ 34 <= HeaderEnd(s)
        /\ HeaderEnd(s) <= PacketEnd(s) /\ PacketEnd(s) <= Len(s)
    BY <1>5 DEF Taken, Framed, IpFramed
  <2>2. /\ At(s, 14) \in Nat /\ At(s, 16) \in Nat /\ At(s, 16) <= 255
        /\ At(s, 17) \in Nat /\ At(s, 17) <= 255
    <3>1. 14 + 1 \in 1 .. Len(s) /\ 16 + 1 \in 1 .. Len(s) /\ 17 + 1 \in 1 .. Len(s)
      BY <1>1, <2>1
    <3> QED  BY <1>1, <3>1 DEF At
  <2>3. /\ At(c, 14) = At(s, 14) /\ At(c, 16) = At(s, 16) /\ At(c, 17) = At(s, 17)
        /\ At(c, 23) = At(s, 23)
    <3>1. /\ 14 \in Readable /\ 16 \in Readable /\ 17 \in Readable /\ 23 \in Readable
          /\ 14 < Len(s) /\ 16 < Len(s) /\ 17 < Len(s) /\ 23 < Len(s)
      BY <1>1, <2>1 DEF Readable
    <3> QED  BY <1>1, <3>1
  <2>4. PICK q \in Nat : q <= 15 /\ q = At(s, 14) % 16  BY <2>2, LowBits
  <2>5. PICK t \in Nat : t <= 65535 /\ t = Ntohs(s, 16) /\ t = Ntohs(c, 16)
    <3>1. 16 + 1 = 17  OBVIOUS
    <3>2. /\ Ntohs(s, 16) = 256 * At(s, 16) + At(s, 17)
          /\ Ntohs(c, 16) = 256 * At(s, 16) + At(s, 17)
      BY <2>3, <3>1 DEF Ntohs
    <3>3. 256 * At(s, 16) + At(s, 17) \in Nat /\ 256 * At(s, 16) + At(s, 17) <= 65535
      BY <2>2, HalvesFit
    <3> QED  BY <3>2, <3>3
  <2>6. HeaderEnd(s) = 14 + 4 * q /\ PacketEnd(s) = 14 + t /\ IpHdrLen(c) = 4 * q
    BY <2>3, <2>4, <2>5 DEF HeaderEnd, PacketEnd, IpHdrLen
  <2>7. TcpSegLen(c) = (t - 4 * q) % 65536  BY <2>5, <2>6 DEF TcpSegLen
  <2>8. t - 4 * q \in Nat /\ t - 4 * q <= 65535
    <3>1. 14 + 4 * q <= 14 + t  BY <2>1, <2>6
    <3> QED  BY <2>5, <3>1
  <2>9. TcpSegLen(c) = t - 4 * q
    <3>1. 65536 \in Nat /\ t - 4 * q \in Nat /\ t - 4 * q < 65536  BY <2>8
    <3> QED  BY <2>7, <3>1, FitsIn
  <2>10. PacketEnd(s) - HeaderEnd(s) = t - 4 * q /\ HeaderEnd(s) - 14 = 4 * q
    BY <2>6
  <2>11. HeaderEnd(s) \in Nat /\ 34 <= HeaderEnd(s) /\ HeaderEnd(s) <= 74
    <3>1. 14 + 4 * q \in Nat /\ 14 + 4 * q <= 74  BY <2>4
    <3> QED  BY <2>1, <2>6, <3>1
  <2>12. PacketEnd(s) \in HeaderEnd(s) .. Len(s)
    <3>1. PacketEnd(s) \in Int  BY <2>6
    <3> QED  BY <1>1, <2>1, <2>11, <3>1
  <2> QED  BY <2>3, <2>6, <2>8, <2>9, <2>10, <2>11, <2>12
<1> QED  BY <1>4, <1>5

\* A packet and its pseudo header are short enough for in_cksum.
LEMMA WordsFit ==
  ASSUME Byte = 256, NEW n \in Nat, n <= 65547
  PROVE  WordsIn(n) <= Word
<1>1. Word = 256 * 256  BY DEF Word
<1>2. 256 * 256 = 65536  OBVIOUS
<1>3. (n + 1) \div 2 <= 65536
  <2>1. n + 1 \in Nat /\ 2 \in Nat /\ 2 > 0  OBVIOUS
  <2>2. /\ (n + 1) \div 2 \in Nat /\ (n + 1) % 2 \in Nat
        /\ n + 1 = 2 * ((n + 1) \div 2) + ((n + 1) % 2)
    BY <2>1, Division
  <2> QED  BY <2>2
<1> QED  BY <1>1, <1>2, <1>3 DEF WordsIn

\* The verdict on the IP header.
LEMMA IpVerdict ==
  ASSUME NEW s, NEW c, Taken(s, c), Ethernet(s) = "IP"
  PROVE  Ip(c).verdict = "Incorrect"
           <=> \E o \in 14 .. HeaderEnd(s) - 1 : At(c, o) # At(s, o)
<1>1. PICK h \in Nat : 34 <= h /\ h <= 74 /\ h = HeaderEnd(s)  BY Layout
<1>2. h <= Len(s) /\ Len(s) \in Nat /\ Len(c) = Len(s) /\ IpHdrLen(c) = h - 14
  BY <1>1, Layout, Offsets
<1>3. s \in Bytes /\ c \in Bytes /\ Byte = 256  BY DEF Taken
<1> DEFINE x == SubSeq(s, 14 + 1, h)
           y == SubSeq(c, 14 + 1, h)
<1>4. Accepted(x)
  <2>1. Accepted(SubSeq(s, 15, HeaderEnd(s)))  BY DEF Taken, Framed, IpFramed
  <2>2. 14 + 1 = 15  OBVIOUS
  <2> QED  BY <1>1, <2>1, <2>2
<1>5. Ip(c).verdict = Verdict(y)
  <2>1. Slice(c, 14, IpHdrLen(c)) = SubSeq(c, 14 + 1, 14 + IpHdrLen(c))  BY DEF Slice
  <2>2. 14 + IpHdrLen(c) = h  BY <1>2
  <2> QED  BY <2>1, <2>2 DEF Ip, ETHER_HDR_LEN
<1>6. /\ x \in Bytes /\ Len(x) = h - 14 /\ \A i \in 1 .. h - 14 : x[i] = s[14 + i]
      /\ y \in Bytes /\ Len(y) = h - 14 /\ \A i \in 1 .. h - 14 : y[i] = c[14 + i]
  <2>1. 14 \in Nat /\ h \in Nat /\ 14 <= h /\ h <= Len(c) /\ h <= Len(s)  BY <1>1, <1>2
  <2> QED  BY <1>3, <2>1, PartOf
<1> HIDE DEF x, y
<1>7. WordsIn(Len(x)) <= Word
  <2>1. h - 14 \in Nat /\ h - 14 <= 65547  BY <1>1
  <2> QED  BY <1>3, <1>6, <2>1, WordsFit
<1>8. \A i, j \in 1 .. Len(x) : y[i] # x[i] /\ y[j] # x[j] => i = j
  <2> SUFFICES ASSUME NEW i \in 1 .. h - 14, NEW j \in 1 .. h - 14, y[i] # x[i], y[j] # x[j]
               PROVE  i = j
    BY <1>6
  <2>1. 14 + i \in 1 .. Len(s) /\ 14 + j \in 1 .. Len(s)  BY <1>2
  <2>2. c[14 + i] # s[14 + i] /\ c[14 + j] # s[14 + j]  BY <1>6
  <2>3. 14 + i = 14 + j  BY <2>1, <2>2, Offsets
  <2> QED  BY <2>3
<1>9. Verdict(y) = "Incorrect" <=> \E i \in 1 .. Len(x) : y[i] # x[i]
  BY <1>4, <1>6, <1>7, <1>8, VerdictTells
<1>10. ASSUME NEW i \in 1 .. Len(x), y[i] # x[i]
       PROVE  \E o \in 14 .. h - 1 : At(c, o) # At(s, o)
  <2>1. c[14 + i] # s[14 + i]  BY <1>6, <1>10
  <2>2. 13 + i \in 14 .. h - 1 /\ (13 + i) + 1 = 14 + i  BY <1>6
  <2>3. At(c, 13 + i) # At(s, 13 + i)  BY <2>1, <2>2 DEF At
  <2> QED  BY <2>2, <2>3
<1>11. ASSUME NEW o \in 14 .. h - 1, At(c, o) # At(s, o)
       PROVE  \E i \in 1 .. Len(x) : y[i] # x[i]
  <2>1. o - 13 \in 1 .. h - 14 /\ 14 + (o - 13) = o + 1  OBVIOUS
  <2>2. y[o - 13] # x[o - 13]  BY <1>6, <1>11, <2>1 DEF At
  <2> QED  BY <1>6, <2>1, <2>2
<1> QED  BY <1>1, <1>5, <1>9, <1>10, <1>11

\* r is a, then q, then b, for eight bytes a and four bytes q.
IsJoined(r, a, q, b) ==
  /\ r \in Bytes /\ Len(r) = 12 + Len(b)
  /\ \A i \in 1 .. 12 + Len(b) :
       r[i] = IF i <= 8 THEN a[i] ELSE IF i <= 12 THEN q[i - 8] ELSE b[i - 12]

\* A pseudo header and a segment put together.
Joining(a, q, b) == a \o q \o b

\* Its bytes are those of its parts.
LEMMA Joined ==
  ASSUME NEW a \in Bytes, Len(a) = 8, NEW q \in Bytes, Len(q) = 4, NEW b \in Bytes
  PROVE  IsJoined(Joining(a, q, b), a, q, b)
<1> DEFINE aq == a \o q
<1>1. Len(a) = 8 /\ Len(q) = 4 /\ Len(b) \in Nat  BY BytesOf
<1>2. a \in Seq(ByteValue) /\ q \in Seq(ByteValue) /\ b \in Seq(ByteValue)  BY DEF Bytes
<1>3. /\ aq \in Seq(ByteValue) /\ Len(aq) = Len(a) + Len(q)
      /\ \A i \in 1 .. Len(a) + Len(q) :
           aq[i] = IF i <= Len(a) THEN a[i] ELSE q[i - Len(a)]
  BY <1>2, ConcatProperties
<1> HIDE DEF aq
<1>9. aq \in Seq(ByteValue) /\ b \in Seq(ByteValue)  BY <1>2, <1>3
<1>4. /\ aq \o b \in Seq(ByteValue) /\ Len(aq \o b) = Len(aq) + Len(b)
      /\ \A i \in 1 .. Len(aq) + Len(b) :
           (aq \o b)[i] = IF i <= Len(aq) THEN aq[i] ELSE b[i - Len(aq)]
  BY <1>9, ConcatProperties
<1>5. Len(aq) = 12  BY <1>1, <1>3
<1>6. ASSUME NEW i \in 1 .. 12 + Len(b)
      PROVE  (aq \o b)[i] = IF i <= 8 THEN a[i] ELSE IF i <= 12 THEN q[i - 8] ELSE b[i - 12]
  <2>1. (aq \o b)[i] = IF i <= 12 THEN aq[i] ELSE b[i - 12]  BY <1>4, <1>5
  <2>2. ASSUME i <= 12 PROVE aq[i] = IF i <= 8 THEN a[i] ELSE q[i - 8]
    <3>1. i \in 1 .. Len(a) + Len(q)  BY <1>1, <2>2
    <3> QED  BY <1>1, <1>3, <3>1
  <2> QED  BY <2>1, <2>2
<1> QED  BY <1>1, <1>4, <1>5, <1>6 DEF aq, Bytes, Joining, IsJoined

\* What stands between the addresses and a segment of n bytes.
Middle(n) == <<0, PROTOCOL_TCP, n \div 256, n % 256>>

\* What the checksum of a segment is about, for a frame in which the header ends at
\* h and the packet at e.
Protected(f, h, e) == SubSeq(f, 27, 34) \o Middle(e - h) \o SubSeq(f, h + 1, e)

\* These are bytes.
LEMMA MiddleBytes ==
  ASSUME Byte = 256, NEW n \in Nat, n <= 65535
  PROVE  Middle(n) \in Bytes /\ Len(Middle(n)) = 4
<1>1. Byte = 256 /\ PROTOCOL_TCP = 6  BY DEF PROTOCOL_TCP
<1>2. 256 \in Nat /\ 256 > 0  OBVIOUS
<1>3. /\ n \div 256 \in Nat /\ n % 256 \in Nat /\ n % 256 <= 256 - 1
      /\ n = 256 * (n \div 256) + (n % 256)
  BY <1>2, Division
<1>4. n \div 256 <= 255  BY <1>3
<1>5. 255 = Byte - 1  BY <1>1
<1>6. \A x \in Nat : x <= Byte - 1 => x \in ByteValue  BY <1>1 DEF ByteValue
<1>7. /\ 0 \in ByteValue /\ PROTOCOL_TCP \in ByteValue
      /\ n \div 256 \in ByteValue /\ n % 256 \in ByteValue
  <2>1. 0 \in Nat /\ 0 <= Byte - 1 /\ PROTOCOL_TCP \in Nat /\ PROTOCOL_TCP <= Byte - 1
    BY <1>1
  <2>2. n \div 256 <= Byte - 1 /\ n % 256 <= Byte - 1  BY <1>1, <1>3, <1>4
  <2> QED  BY <1>3, <1>6, <2>1, <2>2
<1> QED  BY <1>7 DEF Middle, Bytes

\* r is what is protected of the frame f, byte for byte.
IsProtected(r, f, h, e) ==
  /\ r \in Bytes /\ Len(r) = 12 + (e - h)
  /\ \A i \in 1 .. 12 + (e - h) :
       r[i] = IF i <= 8 THEN f[26 + i] ELSE IF i <= 12 THEN Middle(e - h)[i - 8]
              ELSE f[h + (i - 12)]

\* So it is.
LEMMA ProtectedBytes ==
  ASSUME Byte = 256, NEW f \in Bytes, NEW h \in Nat, NEW e \in Nat, 34 <= h, h <= e,
         e <= Len(f), e - h <= 65535
  PROVE  IsProtected(Protected(f, h, e), f, h, e)
<1>1. PICK n \in Nat : n = e - h  OBVIOUS
<1>2. Len(f) \in Nat  BY BytesOf
<1> DEFINE a == SubSeq(f, 27, 34)
           q == Middle(n)
           b == SubSeq(f, h + 1, e)
           r == Joining(a, q, b)
<1> HIDE DEF a, q, b, r
<1>4. a \in Bytes /\ Len(a) = 8 /\ \A i \in Int : 1 <= i /\ i <= 8 => a[i] = f[26 + i]
  <2>1. PICK m \in Nat, k \in Nat : m = 26 /\ k = 34  OBVIOUS
  <2>2. m <= k /\ k <= Len(f)  BY <1>2, <2>1
  <2>3. /\ SubSeq(f, m + 1, k) \in Bytes /\ Len(SubSeq(f, m + 1, k)) = k - m
        /\ \A i \in 1 .. k - m : SubSeq(f, m + 1, k)[i] = f[m + i]
    BY <2>2, PartOf
  <2>4. m + 1 = 27 /\ k - m = 8  BY <2>1
  <2>5. a = SubSeq(f, m + 1, k)  BY <2>1, <2>4 DEF a
  <2>6. a \in Bytes /\ Len(a) = 8  BY <2>3, <2>4, <2>5
  <2>7. ASSUME NEW i \in Int, 1 <= i, i <= 8 PROVE a[i] = f[26 + i]
    <3>1. i \in 1 .. k - m /\ m + i = 26 + i  BY <2>1, <2>7
    <3> QED  BY <2>3, <2>5, <3>1
  <2> QED  BY <2>6, <2>7
<1>6. q \in Bytes /\ Len(q) = 4  BY <1>1, MiddleBytes DEF q
<1>8. b \in Bytes /\ Len(b) = n /\ \A i \in 1 .. n : b[i] = f[h + i]
  <2>1. /\ SubSeq(f, h + 1, e) \in Bytes /\ Len(SubSeq(f, h + 1, e)) = e - h
        /\ \A i \in 1 .. e - h : SubSeq(f, h + 1, e)[i] = f[h + i]
    BY PartOf
  <2> QED  BY <1>1, <2>1 DEF b
<1>10. /\ r \in Bytes /\ Len(r) = 12 + n
       /\ \A i \in 1 .. 12 + n :
            r[i] = IF i <= 8 THEN a[i] ELSE IF i <= 12 THEN q[i - 8] ELSE b[i - 12]
  <2>1. a \in Bytes /\ Len(a) = 8 /\ q \in Bytes /\ Len(q) = 4 /\ b \in Bytes
    BY <1>4, <1>6, <1>8
  <2>2. IsJoined(Joining(a, q, b), a, q, b)  BY <2>1, Joined
  <2>3. IsJoined(r, a, q, b) /\ Len(b) = n  BY <1>8, <2>2 DEF r
  <2> QED  BY <2>3 DEF IsJoined
<1>11. r = Protected(f, h, e)  BY <1>1 DEF Protected, Joining, a, q, b, r
<1>12. ASSUME NEW i \in 1 .. 12 + n
       PROVE  r[i] = IF i <= 8 THEN f[26 + i] ELSE IF i <= 12 THEN Middle(n)[i - 8]
                     ELSE f[h + (i - 12)]
  <2>1. CASE i <= 8
    <3>1. i \in Int /\ 1 <= i  OBVIOUS
    <3>2. a[i] = f[26 + i]  BY <1>4, <2>1, <3>1
    <3> QED  BY <1>10, <2>1, <3>2
  <2>2. CASE ~ (i <= 8) /\ i <= 12
    BY <1>10, <2>2 DEF q
  <2>3. CASE ~ (i <= 8) /\ ~ (i <= 12)
    <3>1. i - 12 \in 1 .. n  BY <1>1, <2>3
    <3>2. b[i - 12] = f[h + (i - 12)]  BY <1>8, <3>1
    <3> QED  BY <1>10, <2>3, <3>2
  <2> QED  BY <2>1, <2>2, <2>3
<1>13. IsProtected(r, f, h, e)  BY <1>1, <1>10, <1>12 DEF IsProtected
<1> QED  BY <1>11, <1>13

\* The verdict on a TCP segment, for which the addresses count too.
LEMMA TcpVerdict ==
  ASSUME NEW s, NEW c, Taken(s, c), Ethernet(s) = "IP", At(s, 23) = PROTOCOL_TCP
  PROVE  Tcp(c).verdict = "Incorrect"
           <=> \E o \in Addresses \cup (HeaderEnd(s) .. PacketEnd(s) - 1) :
                 At(c, o) # At(s, o)
<1>1. PICK h \in Nat : 34 <= h /\ h <= 74 /\ h = HeaderEnd(s)  BY Layout
<1>2. Len(s) \in Nat /\ Len(c) = Len(s)  BY Offsets
<1>3. PICK e \in Nat : h <= e /\ e <= Len(s) /\ e = PacketEnd(s) /\ e - h <= 65535
  <2>1. PacketEnd(s) \in h .. Len(s) /\ PacketEnd(s) - h <= 65535  BY <1>1, Layout
  <2>2. PacketEnd(s) \in Nat  BY <1>1, <1>2, <2>1
  <2> QED  BY <1>1, <1>2, <2>1, <2>2
<1>4. s \in Bytes /\ c \in Bytes /\ Byte = 256  BY DEF Taken
<1>5. IpHdrLen(c) = h - 14 /\ TcpSegLen(c) = e - h /\ At(c, 23) = PROTOCOL_TCP
  BY <1>1, <1>3, Layout
<1> DEFINE x == Protected(s, h, e)
           y == Protected(c, h, e)
<1>6. Accepted(x)
  <2>1. TcpFramed(s)  BY DEF Taken, Framed
  <2>2. Accepted(SubSeq(s, 27, 34) \o Middle(e - h) \o SubSeq(s, h + 1, e))
    BY <1>1, <1>3, <2>1 DEF TcpFramed, Middle
  <2> QED  BY <2>2 DEF Protected, x
<1>7. Tcp(c).verdict = Verdict(y)
  <2>1. Tcp(c).verdict = Verdict(PseudoHdr(c) \o Slice(c, 14 + IpHdrLen(c), TcpSegLen(c)))
    BY DEF Tcp, ETHER_HDR_LEN
  <2>2. PseudoHdr(c) = SubSeq(c, 27, 34) \o Middle(e - h)
    <3>1. Slice(c, 26, 8) = SubSeq(c, 27, 34)
      <4>1. 26 + 1 = 27 /\ 26 + 8 = 34  OBVIOUS
      <4> QED  BY <4>1 DEF Slice
    <3> QED  BY <1>5, <3>1 DEF PseudoHdr, Middle
  <2>3. Slice(c, 14 + IpHdrLen(c), TcpSegLen(c)) = SubSeq(c, h + 1, e)
    <3>1. 14 + IpHdrLen(c) = h /\ h + TcpSegLen(c) = e  BY <1>5
    <3> QED  BY <3>1 DEF Slice
  <2> QED  BY <2>1, <2>2, <2>3 DEF Protected, y
<1> HIDE DEF x, y
<1>8. /\ x \in Bytes /\ Len(x) = 12 + (e - h)
      /\ \A i \in 1 .. 12 + (e - h) :
           x[i] = IF i <= 8 THEN s[26 + i] ELSE IF i <= 12 THEN Middle(e - h)[i - 8]
                  ELSE s[h + (i - 12)]
  <2>1. IsProtected(Protected(s, h, e), s, h, e)  BY <1>1, <1>3, <1>4, ProtectedBytes
  <2>2. IsProtected(x, s, h, e)  BY <2>1 DEF x
  <2> QED  BY <2>2 DEF IsProtected
<1>9. /\ y \in Bytes /\ Len(y) = 12 + (e - h)
      /\ \A i \in 1 .. 12 + (e - h) :
           y[i] = IF i <= 8 THEN c[26 + i] ELSE IF i <= 12 THEN Middle(e - h)[i - 8]
                  ELSE c[h + (i - 12)]
  <2>1. IsProtected(Protected(c, h, e), c, h, e)  BY <1>1, <1>2, <1>3, <1>4, ProtectedBytes
  <2>2. IsProtected(y, c, h, e)  BY <2>1 DEF y
  <2> QED  BY <2>2 DEF IsProtected
<1>10. PICK n \in Nat : n = e - h /\ n <= 65535 /\ Len(x) = 12 + n  BY <1>3, <1>8
<1>11. WordsIn(Len(x)) <= Word
  <2>1. 12 + n \in Nat /\ 12 + n <= 65547  BY <1>10
  <2> QED  BY <1>4, <1>10, <2>1, WordsFit
<1>12. ASSUME NEW i \in 1 .. Len(x), y[i] # x[i]
       PROVE  \/ i <= 8 /\ c[26 + i] # s[26 + i]
              \/ i >= 13 /\ c[h + (i - 12)] # s[h + (i - 12)]
  <2>1. i \in 1 .. 12 + (e - h)  BY <1>8
  <2>2. CASE i <= 8
    <3>1. y[i] = c[26 + i] /\ x[i] = s[26 + i]  BY <1>8, <1>9, <2>1, <2>2
    <3> QED  BY <1>12, <2>2, <3>1
  <2>3. CASE ~ (i <= 8) /\ i <= 12
    <3>1. y[i] = x[i]  BY <1>8, <1>9, <2>1, <2>3
    <3> QED  BY <1>12, <3>1
  <2>4. CASE ~ (i <= 8) /\ ~ (i <= 12)
    <3>1. y[i] = c[h + (i - 12)] /\ x[i] = s[h + (i - 12)]  BY <1>8, <1>9, <2>1, <2>4
    <3>2. i >= 13  BY <2>4
    <3> QED  BY <1>12, <3>1, <3>2
  <2> QED  BY <2>2, <2>3, <2>4
<1>13. ASSUME NEW i \in 1 .. Len(x)
       PROVE  /\ i <= 8 => 26 + i \in 1 .. Len(s)
              /\ i >= 13 => h + (i - 12) \in 1 .. Len(s)
  <2>1. i \in Int /\ 1 <= i /\ i <= 12 + n  BY <1>10
  <2>2. i <= 8 => 26 + i \in 1 .. Len(s)  BY <1>1, <1>2, <1>3, <2>1
  <2>3. ASSUME i >= 13 PROVE h + (i - 12) \in 1 .. Len(s)
    <3>1. PICK k \in Nat : k = i - 12 /\ 1 <= k /\ k <= n  BY <2>1, <2>3
    <3>2. h \in Nat /\ n \in Nat /\ Len(s) \in Nat /\ h + n <= Len(s)
      BY <1>1, <1>2, <1>3, <1>10
    <3>3. h + k \in 1 .. Len(s)  BY <3>1, <3>2
    <3> QED  BY <3>1, <3>3
  <2> QED  BY <2>2, <2>3
<1>14. ASSUME NEW i \in 1 .. Len(x), NEW j \in 1 .. Len(x), y[i] # x[i], y[j] # x[j]
       PROVE  i = j
  <2>1. \A p, q \in 1 .. Len(s) : c[p] # s[p] /\ c[q] # s[q] => p = q  BY Offsets
  <2>2. /\ \/ i <= 8 /\ c[26 + i] # s[26 + i]
           \/ i >= 13 /\ c[h + (i - 12)] # s[h + (i - 12)]
        /\ \/ j <= 8 /\ c[26 + j] # s[26 + j]
           \/ j >= 13 /\ c[h + (j - 12)] # s[h + (j - 12)]
    BY <1>12, <1>14
  <2>3. CASE i <= 8 /\ j <= 8
    <3>1. 26 + i = 26 + j  BY <1>13, <2>1, <2>2, <2>3
    <3> QED  BY <3>1
  <2>4. CASE i >= 13 /\ j >= 13
    <3>1. h + (i - 12) = h + (j - 12)  BY <1>13, <2>1, <2>2, <2>4
    <3> QED  BY <3>1
  <2>5. CASE i <= 8 /\ j >= 13
    <3>1. 26 + i = h + (j - 12)  BY <1>13, <2>1, <2>2, <2>5
    <3> QED  BY <1>1, <2>5, <3>1
  <2>6. CASE i >= 13 /\ j <= 8
    <3>1. h + (i - 12) = 26 + j  BY <1>13, <2>1, <2>2, <2>6
    <3> QED  BY <1>1, <2>6, <3>1
  <2> QED  BY <2>2, <2>3, <2>4, <2>5, <2>6
<1>15. Verdict(y) = "Incorrect" <=> \E i \in 1 .. Len(x) : y[i] # x[i]
  BY <1>6, <1>8, <1>9, <1>11, <1>14, VerdictTells
<1> DEFINE M == Addresses \cup (h .. e - 1)
<1>16. ASSUME NEW i \in 1 .. Len(x), y[i] # x[i]
       PROVE  \E o \in M : At(c, o) # At(s, o)
  <2>1. CASE i <= 8 /\ c[26 + i] # s[26 + i]
    <3>1. 25 + i \in Addresses /\ (25 + i) + 1 = 26 + i  BY <2>1 DEF Addresses
    <3>2. At(c, 25 + i) # At(s, 25 + i)  BY <2>1, <3>1 DEF At
    <3> QED  BY <3>1, <3>2
  <2>2. CASE i >= 13 /\ c[h + (i - 12)] # s[h + (i - 12)]
    <3>1. h + (i - 13) \in h .. e - 1 /\ (h + (i - 13)) + 1 = h + (i - 12)
      BY <1>10, <2>2
    <3>2. At(c, h + (i - 13)) # At(s, h + (i - 13))  BY <2>2, <3>1 DEF At
    <3> QED  BY <3>1, <3>2
  <2> QED  BY <1>12, <1>16, <2>1, <2>2
<1>17. ASSUME NEW o \in M, At(c, o) # At(s, o)
       PROVE  \E i \in 1 .. Len(x) : y[i] # x[i]
  <2>1. CASE o \in Addresses
    <3>1. o \in Int /\ 26 <= o /\ o <= 33  BY <2>1 DEF Addresses
    <3>2. PICK i \in Int : i = o - 25  BY <3>1
    <3>3. i \in 1 .. 12 + (e - h) /\ i <= 8 /\ 26 + i = o + 1  BY <1>3, <3>1, <3>2
    <3>4. y[i] = c[26 + i] /\ x[i] = s[26 + i]  BY <1>8, <1>9, <3>3
    <3>5. y[i] # x[i]  BY <1>17, <3>3, <3>4 DEF At
    <3> QED  BY <1>8, <3>3, <3>5
  <2>2. CASE o \in h .. e - 1
    <3>1. PICK i \in Int : i = (o - h) + 13  BY <2>2
    <3>2. i \in 1 .. 12 + (e - h) /\ ~ (i <= 8) /\ ~ (i <= 12) /\ h + (i - 12) = o + 1
      BY <1>3, <2>2, <3>1
    <3>3. y[i] = c[h + (i - 12)] /\ x[i] = s[h + (i - 12)]  BY <1>8, <1>9, <3>2
    <3>4. y[i] # x[i]  BY <1>17, <3>2, <3>3 DEF At
    <3> QED  BY <1>8, <3>2, <3>4
  <2> QED  BY <2>1, <2>2
<1> QED  BY <1>1, <1>3, <1>7, <1>15, <1>16, <1>17

\* The ports are where the IP header ends, also when it has options, and are those
\* that were sent if no byte of the segment was damaged.
LEMMA PortsTaken ==
  ASSUME NEW s, NEW c, Taken(s, c), Ethernet(s) = "IP", HeaderEnd(s) + 4 <= PacketEnd(s),
         \A o \in HeaderEnd(s) .. PacketEnd(s) - 1 : At(c, o) = At(s, o)
  PROVE  Ports(c, HeaderEnd(s)) = Ports(s, HeaderEnd(s))
<1>1. PICK h \in Nat : h = HeaderEnd(s)  BY Layout
<1>2. Len(s) \in Nat  BY Offsets
<1>3. PICK e \in Nat : e = PacketEnd(s)
  <2>1. PacketEnd(s) \in h .. Len(s)  BY <1>1, Layout
  <2> QED  BY <1>1, <1>2, <2>1
<1>4. \A o \in h .. e - 1 : At(c, o) = At(s, o)  BY <1>1, <1>3
<1>5. /\ h \in h .. e - 1 /\ h + 1 \in h .. e - 1
      /\ h + 2 \in h .. e - 1 /\ (h + 2) + 1 \in h .. e - 1
  <2>1. h + 4 <= e  BY <1>1, <1>3
  <2> QED  BY <1>1, <2>1
<1>6. Ntohs(c, h) = Ntohs(s, h)
  <2>1. At(c, h) = At(s, h) /\ At(c, h + 1) = At(s, h + 1)  BY <1>4, <1>5
  <2> QED  BY <2>1 DEF Ntohs
<1>7. Ntohs(c, h + 2) = Ntohs(s, h + 2)
  <2>1. At(c, h + 2) = At(s, h + 2) /\ At(c, (h + 2) + 1) = At(s, (h + 2) + 1)
    BY <1>4, <1>5
  <2> QED  BY <2>1 DEF Ntohs
<1>8. Ports(c, h) = Ports(s, h)  BY <1>6, <1>7 DEF Ports
<1> QED  BY <1>1, <1>8

\* What is printed of an IP packet, and that of other packets no IP header is.
LEMMA PrintedIs ==
  ASSUME NEW s, NEW c, Taken(s, c)
  PROVE  /\ "ip" \in DOMAIN Printed(c) => Ethernet(s) = "IP"
         /\ Ethernet(s) = "IP" =>
              /\ Printed(c).ip = Ip(c)
              /\ At(s, 23) = PROTOCOL_TCP => Printed(c).transport = Tcp(c)
              /\ At(s, 23) = PROTOCOL_UDP => Printed(c).transport = Udp(c, HeaderEnd(s))
<1>1. Ethernet(c) = Ethernet(s)  BY Layout
<1>2. ASSUME Ethernet(s) # "IP" PROVE "ip" \notin DOMAIN Printed(c)
  <2>1. CASE Ethernet(c) = "ARP"
    <3>1. Ethernet(c) # "IP"  BY <2>1
    <3>2. Printed(c) = [arp |-> Arp(c)]  BY <2>1, <3>1 DEF Printed
    <3>3. DOMAIN [arp |-> Arp(c)] = {"arp"}  OBVIOUS
    <3> QED  BY <3>2, <3>3
  <2>2. CASE Ethernet(c) # "ARP"
    <3>1. Printed(c) = << >>  BY <1>1, <1>2, <2>2 DEF Printed
    <3> QED  BY <3>1
  <2> QED  BY <2>1, <2>2
<1>3. ASSUME Ethernet(s) = "IP"
      PROVE  /\ Printed(c).ip = Ip(c)
             /\ At(s, 23) = PROTOCOL_TCP => Printed(c).transport = Tcp(c)
             /\ At(s, 23) = PROTOCOL_UDP => Printed(c).transport = Udp(c, HeaderEnd(s))
  <2>1. Printed(c) = [ip |-> Ip(c), transport |-> Transport(c)]
    BY <1>1, <1>3 DEF Printed
  <2>2. Printed(c).ip = Ip(c) /\ Printed(c).transport = Transport(c)  BY <2>1
  <2>3. At(c, 23) = At(s, 23)  BY <1>3, Layout
  <2>4. (ETHER_HDR_LEN + IpHdrLen(c)) % 256 = HeaderEnd(s)
    <3>1. PICK h \in Nat : h = HeaderEnd(s) /\ h <= 74 /\ IpHdrLen(c) = h - 14
      BY <1>3, Layout
    <3>2. 14 + (h - 14) = h /\ 256 \in Nat /\ h < 256  BY <3>1
    <3>3. h % 256 = h  BY <3>2, FitsIn
    <3> QED  BY <3>1, <3>2, <3>3 DEF ETHER_HDR_LEN
  <2>5. PROTOCOL_ICMP = 1 /\ PROTOCOL_TCP = 6 /\ PROTOCOL_UDP = 17
    BY DEF PROTOCOL_ICMP, PROTOCOL_TCP, PROTOCOL_UDP
  <2>6. ASSUME At(s, 23) = PROTOCOL_TCP PROVE Transport(c) = Tcp(c)
    BY <2>3, <2>5, <2>6 DEF Transport
  <2>7. ASSUME At(s, 23) = PROTOCOL_UDP PROVE Transport(c) = Udp(c, HeaderEnd(s))
    BY <2>3, <2>4, <2>5, <2>7 DEF Transport
  <2> QED  BY <2>2, <2>6, <2>7
<1> QED  BY <1>2, <1>3

-----------------------------------------------------------------------------
(***************************************************************************)
(* The trace, packet by packet                                             *)
(***************************************************************************)

\* What trace may print of a file.
PrintsOf(f) == {Printed(f[k].captured) : k \in DOMAIN f}

\* The inductive invariant: what is printed is the file, packet by packet.
TraceInv ==
  /\ file \in Files
  /\ packetNo \in 0 .. Len(file)
  /\ shown \in Seq(PrintsOf(file)) /\ Len(shown) = packetNo
  /\ \A k \in 1 .. packetNo : shown[k] = Printed(file[k].captured)

\* A file is a sequence of packets.
LEMMA FileOf ==
  ASSUME NEW f \in Files
  PROVE  /\ Len(f) \in Nat /\ DOMAIN f = 1 .. Len(f)
         /\ \A k \in 1 .. Len(f) : Taken(f[k].sent, f[k].captured)
<1>1. f \in Seq(Capture)  BY FilesAssumption
<1>2. Len(f) \in Nat /\ DOMAIN f = 1 .. Len(f)  BY <1>1, LenProperties
<1>3. ASSUME NEW k \in 1 .. Len(f) PROVE Taken(f[k].sent, f[k].captured)
  <2>1. f[k] \in Capture  BY <1>1, ElementOfSeq
  <2>2. f[k].sent \in Bytes /\ f[k].captured \in Bytes  BY <2>1 DEF Capture, Bytes
  <2>3. Framed(f[k].sent) /\ DamagedOnce(f[k].sent, f[k].captured)
    BY <1>2, FilesAssumption
  <2>4. Byte = 256  BY FilesAssumption
  <2> QED  BY <2>2, <2>3, <2>4 DEF Taken
<1> QED  BY <1>2, <1>3

\* It holds from the start and in every step.
LEMMA TraceInvariant == TraceSpec => []TraceInv
<1>1. TraceInit => TraceInv
  <2> SUFFICES ASSUME TraceInit PROVE TraceInv  OBVIOUS
  <2>1. file \in Files /\ packetNo = 0 /\ shown = << >>  BY DEF TraceInit
  <2>2. Len(file) \in Nat  BY <2>1, FileOf
  <2>3. packetNo \in 0 .. Len(file)  BY <2>1, <2>2
  <2>4. << >> \in Seq(PrintsOf(file)) /\ Len(<< >>) = 0  BY EmptySeq
  <2>5. \A k \in 1 .. packetNo : shown[k] = Printed(file[k].captured)  BY <2>1
  <2> QED  BY <2>1, <2>3, <2>4, <2>5 DEF TraceInv
<1>2. TraceInv /\ [TraceNext]_traceVars => TraceInv'
  <2> SUFFICES ASSUME TraceInv, [TraceNext]_traceVars PROVE TraceInv'  OBVIOUS
  <2>1. CASE NextPacket
    <3>1. /\ packetNo < Len(file) /\ packetNo' = packetNo + 1 /\ file' = file
          /\ shown' = Append(shown, Printed(file[packetNo + 1].captured))
      BY <2>1 DEF NextPacket
    <3>2. /\ file \in Files /\ packetNo \in 0 .. Len(file)
          /\ shown \in Seq(PrintsOf(file)) /\ Len(shown) = packetNo
          /\ \A k \in 1 .. packetNo : shown[k] = Printed(file[k].captured)
      BY DEF TraceInv
    <3>3. Len(file) \in Nat /\ DOMAIN file = 1 .. Len(file)  BY <3>2, FileOf
    <3>4. packetNo + 1 \in 1 .. Len(file)  BY <3>1, <3>2, <3>3
    <3> DEFINE p == Printed(file[packetNo + 1].captured)
    <3>5. p \in PrintsOf(file)  BY <3>3, <3>4 DEF PrintsOf
    <3> HIDE DEF p
    <3>6. shown' = Append(shown, p)  BY <3>1 DEF p
    <3>7. /\ Append(shown, p) \in Seq(PrintsOf(file))
          /\ Len(Append(shown, p)) = packetNo + 1
          /\ \A k \in 1 .. packetNo : Append(shown, p)[k] = shown[k]
          /\ Append(shown, p)[packetNo + 1] = p
      BY <3>2, <3>5, AppendProperties
    <3>8. ASSUME NEW k \in 1 .. packetNo + 1
          PROVE  shown'[k] = Printed(file[k].captured)
      <4>1. CASE k = packetNo + 1
        BY <3>6, <3>7, <4>1 DEF p
      <4>2. CASE k # packetNo + 1
        <5>1. k \in 1 .. packetNo  BY <3>2, <3>3, <4>2
        <5> QED  BY <3>2, <3>6, <3>7, <5>1
      <4> QED  BY <4>1, <4>2
    <3>9. packetNo' \in 0 .. Len(file')  BY <3>1, <3>3, <3>4
    <3>10. shown' \in Seq(PrintsOf(file')) /\ Len(shown') = packetNo'
      BY <3>1, <3>6, <3>7
    <3>11. \A k \in 1 .. packetNo' : shown'[k] = Printed(file'[k].captured)
      BY <3>1, <3>8
    <3> QED  BY <3>1, <3>2, <3>9, <3>10, <3>11 DEF TraceInv
  <2>2. CASE UNCHANGED traceVars
    BY <2>2 DEF traceVars, TraceInv
  <2> QED  BY <2>1, <2>2 DEF TraceNext
<1> QED  BY <1>1, <1>2, PTL DEF TraceSpec

\* What has been shown of packet k, in terms of the packet.
LEMMA ShownIs ==
  ASSUME TraceInv, NEW k \in DOMAIN shown
  PROVE  /\ Taken(file[k].sent, file[k].captured)
         /\ shown[k] = Printed(file[k].captured)
<1>1. file \in Files /\ packetNo \in 0 .. Len(file)  BY DEF TraceInv
<1>2. Len(file) \in Nat  BY <1>1, FileOf
<1>3. DOMAIN shown = 1 .. packetNo  BY LenProperties DEF TraceInv
<1>4. k \in 1 .. packetNo /\ k \in 1 .. Len(file)  BY <1>1, <1>2, <1>3
<1>5. shown[k] = Printed(file[k].captured)  BY <1>4 DEF TraceInv
<1> QED  BY <1>1, <1>4, <1>5, FileOf

\* trace prints "Incorrect" exactly for the packets with a damaged byte in what the
\* checksum protects, and "Correct" for all others, whatever the options, the length
\* of the segment, the padding and the byte.  The packets are whole: of an IP fragment,
\* which holds part of a segment, FilesAssumption says nothing.
THEOREM TraceVerdicts == TraceSpec => []VerdictsRight
<1>1. TraceInv => VerdictsRight
  <2> SUFFICES ASSUME TraceInv, NEW k \in DOMAIN shown
               PROVE  /\ "ip" \in DOMAIN shown[k] =>
                           (shown[k].ip.verdict = "Incorrect") = Damaged(k, IpHeader(k))
                      /\ Carries(k, PROTOCOL_TCP) =>
                           (shown[k].transport.verdict = "Incorrect") =
                             Damaged(k, Addresses \cup Segment(k))
    BY DEF VerdictsRight
  <2> DEFINE s == file[k].sent
             c == file[k].captured
  <2>1. Taken(s, c) /\ shown[k] = Printed(c)  BY ShownIs
  <2> HIDE DEF s, c
  <2>2. ASSUME "ip" \in DOMAIN shown[k]
        PROVE  (shown[k].ip.verdict = "Incorrect") = Damaged(k, IpHeader(k))
    <3>1. Ethernet(s) = "IP" /\ shown[k].ip = Ip(c)  BY <2>1, <2>2, PrintedIs
    <3>2. Ip(c).verdict = "Incorrect"
            <=> \E o \in 14 .. HeaderEnd(s) - 1 : At(c, o) # At(s, o)
      BY <2>1, <3>1, IpVerdict
    <3>3. Damaged(k, IpHeader(k)) <=> \E o \in 14 .. HeaderEnd(s) - 1 : At(c, o) # At(s, o)
      BY DEF Damaged, IpHeader, s, c
    <3>4. shown[k].ip.verdict = "Incorrect" <=> Damaged(k, IpHeader(k))
      BY <3>1, <3>2, <3>3
    <3> QED  BY <3>4 DEF Damaged
  <2>3. ASSUME Carries(k, PROTOCOL_TCP)
        PROVE  (shown[k].transport.verdict = "Incorrect") =
                 Damaged(k, Addresses \cup Segment(k))
    <3>1. "ip" \in DOMAIN shown[k] /\ At(s, 23) = PROTOCOL_TCP
      BY <2>3 DEF Carries, s
    <3>2. Ethernet(s) = "IP" /\ shown[k].transport = Tcp(c)
      BY <2>1, <3>1, PrintedIs
    <3>3. Tcp(c).verdict = "Incorrect"
            <=> \E o \in Addresses \cup (HeaderEnd(s) .. PacketEnd(s) - 1) :
                  At(c, o) # At(s, o)
      BY <2>1, <3>1, <3>2, TcpVerdict
    <3>4. Damaged(k, Addresses \cup Segment(k))
            <=> \E o \in Addresses \cup (HeaderEnd(s) .. PacketEnd(s) - 1) :
                  At(c, o) # At(s, o)
      BY DEF Damaged, Segment, s, c
    <3>5. shown[k].transport.verdict = "Incorrect" <=> Damaged(k, Addresses \cup Segment(k))
      BY <3>2, <3>3, <3>4
    <3> QED  BY <3>5 DEF Damaged
  <2> QED  BY <2>2, <2>3
<1> QED  BY <1>1, TraceInvariant, PTL

\* The ports trace prints are those of the segment that was sent, unless a byte of
\* the segment was damaged.
THEOREM TracePorts == TraceSpec => []PortsRight
<1>1. TraceInv => PortsRight
  <2> SUFFICES ASSUME TraceInv, NEW k \in DOMAIN shown,
                      Carries(k, PROTOCOL_TCP) \/ Carries(k, PROTOCOL_UDP),
                      ~ Damaged(k, Segment(k))
               PROVE  shown[k].transport.ports =
                        Ports(file[k].sent, HeaderEnd(file[k].sent))
    BY DEF PortsRight
  <2> DEFINE s == file[k].sent
             c == file[k].captured
  <2>1. Taken(s, c) /\ shown[k] = Printed(c)  BY ShownIs
  <2>2. \A o \in HeaderEnd(s) .. PacketEnd(s) - 1 : At(c, o) = At(s, o)
    BY DEF Damaged, Segment
  <2>3. "ip" \in DOMAIN shown[k] /\ (At(s, 23) = PROTOCOL_TCP \/ At(s, 23) = PROTOCOL_UDP)
    BY DEF Carries
  <2> HIDE DEF s, c
  <2>4. Ethernet(s) = "IP"  BY <2>1, <2>3, PrintedIs
  <2>5. HeaderEnd(s) \in Nat /\ Len(s) \in Nat /\ PacketEnd(s) \in HeaderEnd(s) .. Len(s)
    BY <2>1, <2>4, Layout, Offsets
  <2>6. CASE At(s, 23) = PROTOCOL_TCP
    <3>1. 20 <= PacketEnd(s) - HeaderEnd(s)  BY <2>1, <2>4, <2>6 DEF Taken, Framed, TcpFramed
    <3>2. HeaderEnd(s) + 4 <= PacketEnd(s)  BY <2>5, <3>1
    <3>3. Ports(c, HeaderEnd(s)) = Ports(s, HeaderEnd(s))
      BY <2>1, <2>2, <2>4, <3>2, PortsTaken
    <3>4. shown[k].transport = Tcp(c)  BY <2>1, <2>4, <2>6, PrintedIs
    <3>5. Tcp(c).ports = Ports(c, ETHER_HDR_LEN + IpHdrLen(c))  BY DEF Tcp
    <3>6. ETHER_HDR_LEN + IpHdrLen(c) = HeaderEnd(s)
      <4>1. IpHdrLen(c) = HeaderEnd(s) - 14  BY <2>1, <2>4, Layout
      <4> QED  BY <2>5, <4>1 DEF ETHER_HDR_LEN
    <3> QED  BY <3>3, <3>4, <3>5, <3>6 DEF s
  <2>7. CASE At(s, 23) = PROTOCOL_UDP
    <3>1. HeaderEnd(s) + 8 <= PacketEnd(s)  BY <2>1, <2>4, <2>7 DEF Taken, Framed
    <3>2. HeaderEnd(s) + 4 <= PacketEnd(s)  BY <2>5, <3>1
    <3>3. Ports(c, HeaderEnd(s)) = Ports(s, HeaderEnd(s))
      BY <2>1, <2>2, <2>4, <3>2, PortsTaken
    <3>4. shown[k].transport = Udp(c, HeaderEnd(s))  BY <2>1, <2>4, <2>7, PrintedIs
    <3>5. Udp(c, HeaderEnd(s)).ports = Ports(c, HeaderEnd(s))  BY DEF Udp
    <3> QED  BY <3>3, <3>4, <3>5 DEF s
  <2> QED  BY <2>3, <2>6, <2>7
<1> QED  BY <1>1, TraceInvariant, PTL
=============================================================================
