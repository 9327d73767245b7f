--------------------------- MODULE TcpEchoProofs ----------------------------
(***************************************************************************)
(* The TCP echo programs, for any number of clients, any lines and however *)
(* TCP cuts the streams: clients get back their own lines, none is dropped *)
(* for a PDU that arrives in pieces, and the server ends for the two       *)
(* reasons only that DeathExplained names.                                 *)
(***************************************************************************)
EXTENDS TcpEcho, FiniteSetTheorems, SequenceTheorems, WellFoundedInduction, TLAPS

Byte == 0 .. 255
Bytes == Seq(Byte)
Line == {l \in Bytes : Len(l) >= 1 /\ Len(l) <= 1024}
Stream == [wire : Bytes, buffer : Bytes, ended : BOOLEAN]

-----------------------------------------------------------------------------
(***************************************************************************)
(* PDUs, one after the other                                               *)
(***************************************************************************)

\* q is the PDUs of the lines ls, the i-th up to cut[i].
CutAt(q, ls, cut) ==
  /\ cut \in [0 .. Len(ls) -> 0 .. Len(q)]
  /\ cut[0] = 0 /\ cut[Len(ls)] = Len(q)
  /\ \A i, j \in 0 .. Len(ls) : i <= j => cut[i] <= cut[j]
  /\ \A i \in 1 .. Len(ls) :
       /\ cut[i] = cut[i - 1] + Len(ls[i]) + 2
       /\ \A j \in 1 .. Len(ls[i]) + 2 : q[cut[i - 1] + j] = PDU(ls[i])[j]

Frames(q, ls) == \E cut : CutAt(q, ls, cut)

\* Bytes, one after the other.
LEMMA Joined ==
  ASSUME NEW p \in Bytes, NEW q \in Bytes
  PROVE  /\ Len(p) \in Nat /\ Len(q) \in Nat
         /\ p \o q \in Bytes /\ Len(p \o q) = Len(p) + Len(q)
         /\ \A j \in 1 .. Len(p) + Len(q) :
              (p \o q)[j] = IF j <= Len(p) THEN p[j] ELSE q[j - Len(p)]
<1>1. p \in Seq(Byte) /\ q \in Seq(Byte)  BY DEF Bytes
<1>2. /\ p \o q \in Seq(Byte) /\ Len(p \o q) = Len(p) + Len(q)
      /\ \A j \in 1 .. Len(p) + Len(q) :
           (p \o q)[j] = IF j <= Len(p) THEN p[j] ELSE q[j - Len(p)]
  BY <1>1, ConcatProperties
<1> QED  BY <1>1, <1>2, LenProperties DEF Bytes

\* The order of joining does not matter.
LEMMA JoinedThree ==
  ASSUME NEW p \in Bytes, NEW q \in Bytes, NEW r \in Bytes
  PROVE  (p \o q) \o r = p \o (q \o r)
BY ConcatAssociative DEF Bytes

\* What is behind the first k bytes, and these.
LEMMA Parted ==
  ASSUME NEW q \in Bytes, NEW k \in Nat, k <= Len(q)
  PROVE  /\ Len(q) \in Nat
         /\ SubSeq(q, k + 1, Len(q)) \in Bytes /\ Len(SubSeq(q, k + 1, Len(q))) = Len(q) - k
         /\ \A j \in 1 .. Len(q) - k : SubSeq(q, k + 1, Len(q))[j] = q[k + j]
         /\ SubSeq(q, 1, k) \in Bytes /\ Len(SubSeq(q, 1, k)) = k
         /\ \A j \in 1 .. k : SubSeq(q, 1, k)[j] = q[j]
<1> DEFINE m == Len(q)
<1>1. m \in Nat /\ \A i \in 1 .. m : q[i] \in Byte
  BY LenProperties, ElementOfSeq DEF Bytes
<1> HIDE DEF m
<1>2. \A i \in k + 1 .. m : i \in 1 .. m  BY <1>1
<1>3. /\ SubSeq(q, k + 1, m) \in Seq(Byte)
      /\ Len(SubSeq(q, k + 1, m)) = IF k + 1 <= m THEN m - (k + 1) + 1 ELSE 0
      /\ \A j \in 1 .. m - (k + 1) + 1 : SubSeq(q, k + 1, m)[j] = q[(k + 1) + j - 1]
  <2>1. k + 1 \in Int /\ m \in Int /\ \A i \in k + 1 .. m : q[i] \in Byte  BY <1>1, <1>2
  <2> QED  BY <2>1, SubSeqProperties
<1>4. k <= m  BY DEF m
<1>5. Len(SubSeq(q, k + 1, m)) = m - k  BY <1>1, <1>3, <1>4
<1>6. ASSUME NEW j \in 1 .. m - k PROVE SubSeq(q, k + 1, m)[j] = q[k + j]
  <2>1. j \in 1 .. m - (k + 1) + 1 /\ (k + 1) + j - 1 = k + j  BY <1>1
  <2> QED  BY <1>3, <2>1
<1>7. \A i \in 1 .. k : i \in 1 .. m  BY <1>1, <1>4
<1>8. /\ SubSeq(q, 1, k) \in Seq(Byte)
      /\ Len(SubSeq(q, 1, k)) = IF 1 <= k THEN k - 1 + 1 ELSE 0
      /\ \A j \in 1 .. k - 1 + 1 : SubSeq(q, 1, k)[j] = q[1 + j - 1]
  <2>1. 1 \in Int /\ k \in Int /\ \A i \in 1 .. k : q[i] \in Byte  BY <1>1, <1>7
  <2> QED  BY <2>1, SubSeqProperties
<1>9. Len(SubSeq(q, 1, k)) = k  BY <1>8
<1>10. ASSUME NEW j \in 1 .. k PROVE SubSeq(q, 1, k)[j] = q[j]
  <2>1. j \in 1 .. k - 1 + 1 /\ 1 + j - 1 = j  OBVIOUS
  <2> QED  BY <1>8, <2>1
<1> QED  BY <1>1, <1>3, <1>5, <1>6, <1>8, <1>9, <1>10 DEF m, Bytes

\* A line is bytes, one at least.
LEMMA LineLength ==
  ASSUME NEW l \in Line
  PROVE  l \in Bytes /\ Len(l) \in Nat /\ Len(l) >= 1 /\ Len(l) <= 1024
<1>1. l \in Bytes /\ Len(l) >= 1 /\ Len(l) <= 1024  BY DEF Line
<1>2. Len(l) \in Nat  BY <1>1, LenProperties DEF Bytes
<1> QED  BY <1>1, <1>2

\* A length field is two bytes that give the length.
LEMMA LengthField ==
  ASSUME NEW n \in Nat, n <= 1026
  PROVE  n \div 256 \in Byte /\ n % 256 \in Byte /\ 256 * (n \div 256) + (n % 256) = n
<1>1. n \div 256 \in Nat /\ n \div 256 <= 255  OBVIOUS
<1>2. n % 256 \in Nat /\ n % 256 <= 255  OBVIOUS
<1>3. 256 * (n \div 256) + (n % 256) = n  OBVIOUS
<1>4. \A k \in Nat : k <= 255 => k \in Byte  BY DEF Byte
<1> QED  BY <1>1, <1>2, <1>3, <1>4

\* A PDU is two bytes that give its length, and the line.
LEMMA PDUBytes ==
  ASSUME NEW l \in Line
  PROVE  /\ PDU(l) \in Bytes /\ Len(PDU(l)) = Len(l) + 2
         /\ 256 * PDU(l)[1] + PDU(l)[2] - 2 = Len(l)
         /\ \A j \in 1 .. Len(l) : PDU(l)[j + 2] = l[j]
<1> DEFINE n == Len(l) + 2
           h == <<n \div 256, n % 256>>
<1>1. n \in Nat /\ n <= 1026 /\ l \in Bytes /\ Len(l) \in Nat  BY LineLength
<1>2. n \div 256 \in Byte /\ n % 256 \in Byte /\ 256 * (n \div 256) + (n % 256) = n
  <2> HIDE DEF n
  <2> QED  BY <1>1, LengthField
<1>3. PDU(l) = h \o l  BY DEF PDU
<1>4. h \in Bytes /\ Len(h) = 2 /\ h[1] = n \div 256 /\ h[2] = n % 256
  <2> HIDE DEF n
  <2> QED  BY <1>2 DEF Bytes
<1> HIDE DEF h
<1>5. /\ PDU(l) \in Bytes /\ Len(PDU(l)) = 2 + Len(l)
      /\ \A j \in 1 .. 2 + Len(l) : PDU(l)[j] = IF j <= 2 THEN h[j] ELSE l[j - 2]
  <2>1. /\ h \o l \in Bytes /\ Len(h \o l) = Len(h) + Len(l)
        /\ \A j \in 1 .. Len(h) + Len(l) : (h \o l)[j] = IF j <= Len(h) THEN h[j] ELSE l[j - Len(h)]
    BY <1>1, <1>4, Joined, ZenonT(60)
  <2>2. Len(h) = 2  BY <1>4
  <2> QED  BY <1>3, <2>1, <2>2
<1>6. PDU(l)[1] = h[1] /\ PDU(l)[2] = h[2]
  <2>1. 1 \in 1 .. 2 + Len(l) /\ 2 \in 1 .. 2 + Len(l)  BY <1>1
  <2> QED  BY <1>5, <2>1
<1>7. ASSUME NEW j \in 1 .. Len(l) PROVE PDU(l)[j + 2] = l[j]
  <2>1. j + 2 \in 1 .. 2 + Len(l) /\ ~ (j + 2 <= 2) /\ (j + 2) - 2 = j  BY <1>1
  <2> QED  BY <1>5, <2>1
<1>8. 256 * PDU(l)[1] + PDU(l)[2] - 2 = Len(l)
  <2>1. 256 * h[1] + h[2] = Len(l) + 2  BY <1>2, <1>4
  <2>2. h[1] \in Int /\ h[2] \in Int
    <3>1. \A b \in Byte : b \in Int  BY DEF Byte
    <3> QED  BY <1>2, <1>4, <3>1
  <2> QED  BY <1>1, <1>6, <2>1, <2>2
<1>9. Len(PDU(l)) = Len(l) + 2  BY <1>1, <1>5
<1> QED  BY <1>5, <1>7, <1>8, <1>9

\* No line, no byte.
LEMMA NoFrames ==
  /\ Frames(<< >>, << >>)
  /\ \A q \in Bytes : \A ls \in Seq(Line) : Frames(q, ls) /\ q # << >> => ls # << >>
<1>1. Frames(<< >>, << >>)
  <2>1. CutAt(<< >>, << >>, [i \in {0} |-> 0])
    <3>1. Len(<< >>) = 0 /\ 0 .. 0 = {0} /\ 1 .. 0 = {}  OBVIOUS
    <3> QED  BY <3>1 DEF CutAt
  <2> QED  BY <2>1 DEF Frames
<1>2. ASSUME NEW q \in Bytes, Frames(q, << >>) PROVE q = << >>
  <2>1. PICK cut : CutAt(q, << >>, cut)  BY <1>2 DEF Frames
  <2>2. Len(q) = 0  BY <2>1 DEF CutAt
  <2> QED  BY <2>2, EmptySeq DEF Bytes
<1> QED  BY <1>1, <1>2

\* sendPDU adds a PDU at the end.
LEMMA FrameAdded ==
  ASSUME NEW q \in Bytes, NEW ls \in Seq(Line), NEW l \in Line, Frames(q, ls)
  PROVE  Frames(q \o PDU(l), Append(ls, l))
<1>1. PICK cut : CutAt(q, ls, cut)  BY DEF Frames
<1> DEFINE n == Len(ls)
           m == Len(q)
           r == q \o PDU(l)
           ms == Append(ls, l)
           new == [i \in 0 .. n + 1 |-> IF i <= n THEN cut[i] ELSE m + Len(l) + 2]
<1>2. n \in Nat /\ m \in Nat /\ Len(l) \in Nat  BY LenProperties, LineLength DEF Bytes
<1>3. Len(ms) = n + 1 /\ ms[n + 1] = l /\ \A i \in 1 .. n : ms[i] = ls[i]
  BY AppendProperties
<1>4. PDU(l) \in Bytes /\ Len(PDU(l)) = Len(l) + 2  BY PDUBytes
<1>5. /\ Len(r) = m + (Len(l) + 2)
      /\ \A j \in 1 .. m + (Len(l) + 2) : r[j] = IF j <= m THEN q[j] ELSE PDU(l)[j - m]
  <2>1. /\ Len(r) = Len(q) + Len(PDU(l))
        /\ \A j \in 1 .. Len(q) + Len(PDU(l)) : r[j] = IF j <= Len(q) THEN q[j] ELSE PDU(l)[j - Len(q)]
    BY <1>4, Joined
  <2> QED  BY <1>4, <2>1
<1>6. /\ cut \in [0 .. n -> 0 .. m] /\ cut[0] = 0 /\ cut[n] = m
      /\ \A i, j \in 0 .. n : i <= j => cut[i] <= cut[j]
      /\ \A i \in 1 .. n : /\ cut[i] = cut[i - 1] + Len(ls[i]) + 2
                           /\ \A j \in 1 .. Len(ls[i]) + 2 : q[cut[i - 1] + j] = PDU(ls[i])[j]
  BY <1>1 DEF CutAt
<1>7. /\ \A i \in 0 .. n : new[i] = cut[i]
      /\ new[n + 1] = m + Len(l) + 2
      /\ DOMAIN new = 0 .. n + 1 /\ new = [i \in 0 .. n + 1 |-> new[i]]
  BY <1>2
<1> HIDE DEF r, ms, n, m, new
<1>8. \A i \in 0 .. n + 1 : i \in 0 .. n \/ i = n + 1  BY <1>2
<1>9. ASSUME NEW i \in 0 .. n + 1 PROVE new[i] \in 0 .. Len(r)
  <2>1. Len(r) \in Nat /\ m <= Len(r) /\ Len(r) = m + Len(l) + 2  BY <1>2, <1>5
  <2>2. CASE i \in 0 .. n
    <3>1. new[i] \in 0 .. m  BY <1>6, <1>7, <2>2
    <3> QED  BY <1>2, <2>1, <3>1
  <2>3. CASE i = n + 1  BY <1>7, <2>1, <2>3
  <2> QED  BY <1>8, <2>2, <2>3
<1>10. new \in [0 .. n + 1 -> 0 .. Len(r)]  BY <1>7, <1>9
<1>11. new[0] = 0 /\ new[n + 1] = Len(r)
  <2>1. 0 \in 0 .. n /\ Len(r) = m + Len(l) + 2  BY <1>2, <1>5
  <2> QED  BY <1>6, <1>7, <2>1
<1>12. ASSUME NEW i \in 0 .. n + 1, NEW j \in 0 .. n + 1, i <= j PROVE new[i] <= new[j]
  <2>1. CASE j \in 0 .. n
    <3>1. i \in 0 .. n  BY <1>2, <1>12, <2>1
    <3> QED  BY <1>6, <1>7, <1>12, <2>1, <3>1
  <2>2. CASE j = n + 1  BY <1>2, <1>5, <1>9, <1>11, <2>2
  <2> QED  BY <1>8, <2>1, <2>2
<1>13. ASSUME NEW i \in 1 .. n + 1
       PROVE  /\ new[i] = new[i - 1] + Len(ms[i]) + 2
              /\ \A j \in 1 .. Len(ms[i]) + 2 : r[new[i - 1] + j] = PDU(ms[i])[j]
  <2>1. CASE i = n + 1
    <3>1. i - 1 = n /\ n \in 0 .. n  BY <1>2, <2>1
    <3>2. new[i] = m + Len(l) + 2 /\ new[i - 1] = m /\ ms[i] = l
      BY <1>3, <1>6, <1>7, <2>1, <3>1
    <3>3. ASSUME NEW j \in 1 .. Len(l) + 2 PROVE r[m + j] = PDU(l)[j]
      <4>1. m + j \in 1 .. m + (Len(l) + 2) /\ ~ (m + j <= m) /\ (m + j) - m = j  BY <1>2
      <4> QED  BY <1>5, <4>1
    <3> QED  BY <3>2, <3>3
  <2>2. CASE i \in 1 .. n
    <3>1. i \in 0 .. n /\ i - 1 \in 0 .. n  BY <1>2, <2>2
    <3>2. new[i] = cut[i] /\ new[i - 1] = cut[i - 1] /\ ms[i] = ls[i]  BY <1>3, <1>7, <2>2, <3>1
    <3>3. Len(ls[i]) \in Nat
      <4>1. ls[i] \in Line  BY <2>2 DEF n
      <4> QED  BY <4>1, LineLength
    <3>4. cut[i] \in 0 .. m /\ cut[i - 1] \in 0 .. m /\ cut[i] = cut[i - 1] + Len(ls[i]) + 2
      BY <1>6, <2>2, <3>1
    <3>5. ASSUME NEW j \in 1 .. Len(ls[i]) + 2 PROVE r[cut[i - 1] + j] = PDU(ls[i])[j]
      <4>1. /\ cut[i - 1] + j \in 1 .. m + (Len(l) + 2) /\ cut[i - 1] + j <= m
        BY <1>2, <3>3, <3>4, SMTT(30)
      <4>2. r[cut[i - 1] + j] = q[cut[i - 1] + j]  BY <1>5, <4>1
      <4> QED  BY <1>6, <2>2, <4>2
    <3> QED  BY <3>2, <3>4, <3>5
  <2> QED  BY <1>2, <2>1, <2>2
<1>14. CutAt(r, ms, new)  BY <1>3, <1>10, <1>11, <1>12, <1>13 DEF CutAt
<1> QED  BY <1>14 DEF Frames, r, ms

\* What is left of q behind its first PDU, which is that of the first line.
LEMMA FrameTaken ==
  ASSUME NEW q \in Bytes, NEW ls \in Seq(Line), ls # << >>, Frames(q, ls)
  PROVE  /\ ls[1] \in Line
         /\ Len(q) >= Len(ls[1]) + 2
         /\ \A j \in 1 .. Len(ls[1]) + 2 : q[j] = PDU(ls[1])[j]
         /\ Frames(SubSeq(q, Len(ls[1]) + 3, Len(q)), Tail(ls))
<1>1. PICK cut : CutAt(q, ls, cut)  BY DEF Frames
<1> DEFINE n == Len(ls)
           m == Len(q)
           k == Len(ls[1]) + 2
           r == SubSeq(q, k + 1, m)
           ms == Tail(ls)
           new == [i \in 0 .. n - 1 |-> cut[i + 1] - k]
<1>2. n \in Nat \ {0} /\ m \in Nat /\ ls[1] \in Line  BY EmptySeq, LenProperties DEF Bytes
<1>3. k \in Nat \ {0}
  <2>1. Len(ls[1]) \in Nat  BY <1>2, LineLength
  <2> QED  BY <2>1
<1>4. Len(ms) = n - 1 /\ \A i \in 1 .. n - 1 : ms[i] = ls[i + 1]
  BY <1>2, HeadTailProperties
<1>5. /\ cut \in [0 .. n -> 0 .. m] /\ cut[0] = 0 /\ cut[n] = m
      /\ \A i, j \in 0 .. n : i <= j => cut[i] <= cut[j]
      /\ \A i \in 1 .. n : /\ cut[i] = cut[i - 1] + Len(ls[i]) + 2
                           /\ \A j \in 1 .. Len(ls[i]) + 2 : q[cut[i - 1] + j] = PDU(ls[i])[j]
  BY <1>1 DEF CutAt
<1>6. cut[1] = k /\ k <= m
  <2>1. 1 \in 1 .. n /\ 1 - 1 = 0 /\ 1 \in 0 .. n  BY <1>2
  <2>2. cut[1] = cut[0] + Len(ls[1]) + 2  BY <1>5, <2>1
  <2>3. Len(ls[1]) \in Nat  BY <1>2, LineLength
  <2>4. cut[1] = k  BY <1>5, <2>2, <2>3
  <2>5. cut[1] \in 0 .. m  BY <1>5, <2>1
  <2> QED  BY <1>2, <1>3, <2>4, <2>5
<1>7. \A j \in 1 .. k : q[j] = PDU(ls[1])[j]
  <2>1. 1 \in 1 .. n /\ 1 - 1 = 0  BY <1>2
  <2>2. \A j \in 1 .. k : q[cut[0] + j] = PDU(ls[1])[j]  BY <1>5, <2>1
  <2>3. \A j \in 1 .. k : cut[0] + j = j  BY <1>3, <1>5
  <2> QED  BY <2>2, <2>3
<1>8. Len(r) = m - k /\ \A j \in 1 .. m - k : r[j] = q[k + j]
  BY <1>2, <1>3, <1>6, Parted
<1>9. \A i \in 0 .. n - 1 : new[i] = cut[i + 1] - k /\ i + 1 \in 1 .. n /\ i + 1 \in 0 .. n
  BY <1>2
<1>10. DOMAIN new = 0 .. n - 1 /\ new = [i \in 0 .. n - 1 |-> new[i]]  OBVIOUS
<1> HIDE DEF r, ms, n, m, new, k
<1>11. ASSUME NEW i \in 0 .. n - 1 PROVE new[i] \in 0 .. Len(r)
  <2>1. cut[i + 1] \in 0 .. m  BY <1>5, <1>9
  <2>2. cut[1] <= cut[i + 1]
    <3>1. 1 \in 0 .. n /\ 1 <= i + 1  BY <1>2
    <3> QED  BY <1>5, <1>9, <3>1
  <2> QED  BY <1>2, <1>3, <1>6, <1>8, <1>9, <2>1, <2>2
<1>12. new \in [0 .. n - 1 -> 0 .. Len(r)]  BY <1>10, <1>11
<1>13. new[0] = 0 /\ new[n - 1] = Len(r)
  <2>1. 0 \in 0 .. n - 1 /\ n - 1 \in 0 .. n - 1 /\ 0 + 1 = 1 /\ (n - 1) + 1 = n  BY <1>2
  <2>2. new[0] = cut[1] - k /\ new[n - 1] = cut[n] - k  BY <1>9, <2>1
  <2> QED  BY <1>2, <1>3, <1>5, <1>6, <1>8, <2>2
<1>14. ASSUME NEW i \in 0 .. n - 1, NEW j \in 0 .. n - 1, i <= j PROVE new[i] <= new[j]
  <2>1. i + 1 \in 0 .. n /\ j + 1 \in 0 .. n /\ i + 1 <= j + 1  BY <1>2, <1>14
  <2>2. cut[i + 1] <= cut[j + 1] /\ cut[i + 1] \in 0 .. m /\ cut[j + 1] \in 0 .. m  BY <1>5, <2>1
  <2> QED  BY <1>2, <1>3, <1>9, <2>2
<1>15. ASSUME NEW i \in 1 .. n - 1
       PROVE  /\ new[i] = new[i - 1] + Len(ms[i]) + 2
              /\ \A j \in 1 .. Len(ms[i]) + 2 : r[new[i - 1] + j] = PDU(ms[i])[j]
  <2>1. i \in 0 .. n - 1 /\ i - 1 \in 0 .. n - 1 /\ (i - 1) + 1 = i /\ i + 1 \in 1 .. n /\ (i + 1) - 1 = i
        /\ i \in 0 .. n /\ 1 <= i /\ 1 \in 0 .. n /\ i + 1 \in 0 .. n
    BY <1>2
  <2>2. new[i] = cut[i + 1] - k /\ new[i - 1] = cut[i] - k /\ ms[i] = ls[i + 1]  BY <1>4, <1>9, <2>1
  <2>3. cut[i + 1] = cut[i] + Len(ls[i + 1]) + 2  BY <1>5, <2>1
  <2>4. Len(ls[i + 1]) \in Nat
    <3>1. ls[i + 1] \in Line  BY <2>1 DEF n
    <3> QED  BY <3>1, LineLength
  <2>5. cut[i] \in 0 .. m /\ cut[i + 1] \in 0 .. m /\ k <= cut[i]  BY <1>5, <1>6, <2>1
  <2>6. new[i] = new[i - 1] + Len(ms[i]) + 2  BY <1>2, <1>3, <2>2, <2>3, <2>4, <2>5, SMTT(30)
  <2>7. ASSUME NEW j \in 1 .. Len(ms[i]) + 2 PROVE r[new[i - 1] + j] = PDU(ms[i])[j]
    <3>1. j \in 1 .. Len(ls[i + 1]) + 2  BY <2>2
    <3>2. /\ new[i - 1] + j \in 1 .. m - k
          /\ k + (new[i - 1] + j) = cut[i] + j
      <4> DEFINE L == Len(ls[i + 1])
      <4>1. L \in Nat /\ j \in 1 .. L + 2 /\ cut[i + 1] = cut[i] + L + 2  BY <2>3, <2>4, <3>1
      <4>2. new[i - 1] = cut[i] - k /\ k <= cut[i] /\ cut[i + 1] <= m /\ cut[i] \in Nat
        BY <1>2, <2>2, <2>5
      <4> HIDE DEF L
      <4>3. \A a, b \in Nat : b = a + L + 2 /\ k <= a /\ b <= m =>
              (a - k) + j \in 1 .. m - k /\ k + ((a - k) + j) = a + j
        BY <1>2, <1>3, <4>1
      <4>4. cut[i + 1] \in Nat  BY <2>5
      <4> QED  BY <4>1, <4>2, <4>3, <4>4
    <3>3. r[new[i - 1] + j] = q[cut[i] + j]  BY <1>8, <3>2
    <3>4. q[cut[(i + 1) - 1] + j] = PDU(ls[i + 1])[j]  BY <1>5, <2>1, <3>1
    <3> QED  BY <2>1, <2>2, <3>3, <3>4
  <2> QED  BY <2>6, <2>7
<1>16. CutAt(r, ms, new)  BY <1>4, <1>12, <1>13, <1>14, <1>15 DEF CutAt
<1>17. Frames(r, ms)  BY <1>16 DEF Frames
<1>18. k + 1 = Len(ls[1]) + 3
  <2>1. Len(ls[1]) \in Nat  BY <1>2, LineLength
  <2> QED  BY <2>1 DEF k
<1>19. r = SubSeq(q, Len(ls[1]) + 3, Len(q))  BY <1>18 DEF r, m
<1> QED  BY <1>2, <1>6, <1>7, <1>17, <1>19 DEF k, m, ms

-----------------------------------------------------------------------------
(***************************************************************************)
(* Streams                                                                 *)
(***************************************************************************)

\* What the receiver has not read yet.
Content(s) == s.buffer \o s.wire

\* A stream carries the PDUs of ls, all of them, or a beginning if it has ended.
Begins(q, whole, ended) ==
  /\ Len(q) <= Len(whole)
  /\ \A j \in 1 .. Len(q) : q[j] = whole[j]
  /\ ~ended => q = whole

Carries(s, ls) ==
  \E whole \in Bytes : Frames(whole, ls) /\ Begins(Content(s), whole, s.ended)

\* The fields of a stream.
LEMMA StreamFields ==
  ASSUME NEW s \in Stream
  PROVE  /\ s.wire \in Bytes /\ s.buffer \in Bytes /\ s.ended \in BOOLEAN
         /\ Content(s) \in Bytes
         /\ Len(Content(s)) = Len(s.buffer) + Len(s.wire)
         /\ Len(s.buffer) \in Nat /\ Len(s.wire) \in Nat
         /\ \A j \in 1 .. Len(s.buffer) : Content(s)[j] = s.buffer[j]
<1>1. s.wire \in Bytes /\ s.buffer \in Bytes /\ s.ended \in BOOLEAN  BY DEF Stream
<1>2. /\ Len(s.buffer) \in Nat /\ Len(s.wire) \in Nat
      /\ Content(s) \in Bytes /\ Len(Content(s)) = Len(s.buffer) + Len(s.wire)
      /\ \A j \in 1 .. Len(s.buffer) + Len(s.wire) : Content(s)[j] =
           IF j <= Len(s.buffer) THEN s.buffer[j] ELSE s.wire[j - Len(s.buffer)]
  BY <1>1, Joined DEF Content
<1>3. ASSUME NEW j \in 1 .. Len(s.buffer) PROVE Content(s)[j] = s.buffer[j]
  <2>1. \A m, n \in Nat : j \in 1 .. m => j \in 1 .. m + n /\ j <= m  OBVIOUS
  <2>2. j \in 1 .. Len(s.buffer) + Len(s.wire) /\ j <= Len(s.buffer)  BY <1>2, <2>1
  <2> QED  BY <1>2, <2>2
<1> QED  BY <1>1, <1>2, <1>3

\* Nothing has been sent yet.
LEMMA NewCarries ==
  NewStream \in Stream /\ ~NewStream.ended /\ Carries(NewStream, << >>)
<1>1. << >> \in Bytes /\ Len(<< >>) = 0  BY EmptySeq DEF Bytes
<1>2. NewStream.wire = << >> /\ NewStream.buffer = << >> /\ NewStream.ended = FALSE
  BY DEF NewStream
<1>3. NewStream \in Stream  BY <1>1 DEF NewStream, Stream
<1>4. Content(NewStream) = << >>  BY <1>1, <1>2, ConcatEmptySeq DEF Content, Bytes
<1>5. Begins(<< >>, << >>, FALSE)  BY <1>1 DEF Begins
<1> QED  BY <1>1, <1>2, <1>3, <1>4, <1>5, NoFrames DEF Carries

\* Sending a line does not end a stream.
LEMMA WrittenOpen ==
  ASSUME NEW s \in Stream, ~s.ended, NEW l \in Line
  PROVE  Written(s, PDU(l)) \in Stream /\ ~Written(s, PDU(l)).ended
<1>1. Written(s, PDU(l)) = [s EXCEPT !.wire = s.wire \o PDU(l)]  BY DEF Written
<1>2. \A x \in Bytes : [s EXCEPT !.wire = x] \in Stream /\ [s EXCEPT !.wire = x].ended = s.ended
  BY DEF Stream
<1>3. s.wire \o PDU(l) \in Bytes  BY StreamFields, PDUBytes, Joined
<1> QED  BY <1>1, <1>2, <1>3

\* Sending a line on a stream that has not ended.
LEMMA WrittenCarries ==
  ASSUME NEW s \in Stream, ~s.ended, NEW ls \in Seq(Line), NEW l \in Line, Carries(s, ls)
  PROVE  LET t == Written(s, PDU(l))
         IN  t \in Stream /\ ~t.ended /\ Carries(t, Append(ls, l))
<1> DEFINE t == Written(s, PDU(l))
<1>1. PDU(l) \in Bytes  BY PDUBytes
<1>2. s.wire \in Bytes /\ s.buffer \in Bytes  BY StreamFields
<1>3. s.wire \o PDU(l) \in Bytes  BY <1>1, <1>2, Joined
<1>4. t = [wire |-> s.wire \o PDU(l), buffer |-> s.buffer, ended |-> s.ended]
  <2> DEFINE b == PDU(l)
  <2> HIDE DEF b
  <2>1. Written(s, b) = [wire |-> s.wire \o b, buffer |-> s.buffer, ended |-> s.ended]
    <3>1. \A x : [s EXCEPT !.wire = x] = [wire |-> x, buffer |-> s.buffer, ended |-> s.ended]
      BY DEF Stream
    <3>2. Written(s, b) = [s EXCEPT !.wire = s.wire \o b]  BY DEF Written
    <3> QED  BY <3>1, <3>2
  <2> QED  BY <2>1 DEF b
<1>5. t \in Stream /\ ~t.ended /\ t.wire = s.wire \o PDU(l) /\ t.buffer = s.buffer
  BY <1>2, <1>3, <1>4 DEF Stream
<1> HIDE DEF t
<1>6. Content(t) = Content(s) \o PDU(l)
  <2>1. (s.buffer \o s.wire) \o PDU(l) = s.buffer \o (s.wire \o PDU(l))
    BY <1>1, <1>2, JoinedThree
  <2> QED  BY <1>5, <2>1 DEF Content
<1>7. PICK whole \in Bytes : Frames(whole, ls) /\ Begins(Content(s), whole, s.ended)
  BY DEF Carries
<1>8. Content(s) = whole  BY <1>7 DEF Begins
<1>9. Frames(Content(t), Append(ls, l))  BY <1>6, <1>7, <1>8, FrameAdded
<1>10. Content(t) \in Bytes /\ Len(Content(t)) \in Nat
  BY <1>5, StreamFields, LenProperties DEF Bytes
<1>11. Begins(Content(t), Content(t), t.ended)  BY <1>10 DEF Begins
<1> QED  BY <1>5, <1>9, <1>10, <1>11 DEF Carries, t

\* Delivery changes nothing of what is to be read.
LEMMA DeliveryCarries ==
  ASSUME NEW s \in Stream, NEW t \in Deliveries(s)
  PROVE  /\ t \in Stream /\ t.ended = s.ended
         /\ \A ls : Carries(s, ls) => Carries(t, ls)
<1>1. PICK n \in 1 .. Len(s.wire) :
        t = [s EXCEPT !.wire = SubSeq(@, n + 1, Len(@)),
                      !.buffer = @ \o SubSeq(s.wire, 1, n)]
  BY DEF Deliveries
<1>2. /\ s.wire \in Bytes /\ s.buffer \in Bytes /\ s.ended \in BOOLEAN
      /\ Len(s.wire) \in Nat
  BY StreamFields
<1> DEFINE w == s.wire
           a == SubSeq(w, 1, n)
           b == SubSeq(w, n + 1, Len(w))
<1>3. n \in Nat /\ n <= Len(w)  BY <1>2
<1>4. /\ b \in Bytes /\ Len(b) = Len(w) - n
      /\ \A j \in 1 .. Len(w) - n : b[j] = w[n + j]
      /\ a \in Bytes /\ Len(a) = n
      /\ \A j \in 1 .. n : a[j] = w[j]
  BY <1>2, <1>3, Parted
<1>5. t = [wire |-> b, buffer |-> s.buffer \o a, ended |-> s.ended]
  BY <1>1 DEF Stream
<1> HIDE DEF a, b
<1>6. s.buffer \o a \in Bytes  BY <1>2, <1>4, Joined
<1>7. t \in Stream /\ t.ended = s.ended /\ t.wire = b /\ t.buffer = s.buffer \o a
  BY <1>2, <1>4, <1>5, <1>6 DEF Stream
<1>8. a \o b = w
  <2>1. /\ a \o b \in Bytes /\ Len(a \o b) = Len(a) + Len(b)
        /\ \A j \in 1 .. Len(a) + Len(b) : (a \o b)[j] = IF j <= Len(a) THEN a[j] ELSE b[j - Len(a)]
    BY <1>4, Joined
  <2>2. Len(a \o b) = Len(w)  BY <1>2, <1>3, <1>4, <2>1
  <2>3. ASSUME NEW j \in 1 .. Len(w) PROVE (a \o b)[j] = w[j]
    <3>1. (a \o b)[j] = IF j <= n THEN a[j] ELSE b[j - n]
      <4>1. j \in 1 .. Len(a) + Len(b)  BY <1>2, <1>3, <1>4
      <4> QED  BY <1>4, <2>1, <4>1
    <3>2. CASE j <= n
      <4>1. j \in 1 .. n  BY <3>2
      <4> QED  BY <1>4, <3>1, <3>2, <4>1
    <3>3. CASE ~ (j <= n)
      <4>1. j - n \in 1 .. Len(w) - n /\ n + (j - n) = j  BY <1>2, <1>3, <3>3
      <4> QED  BY <1>4, <3>1, <3>3, <4>1
    <3> QED  BY <3>2, <3>3
  <2> QED  BY <1>2, <2>1, <2>2, <2>3, SeqEqual DEF Bytes
<1>9. Content(t) = Content(s)
  <2>1. (s.buffer \o a) \o b = s.buffer \o (a \o b)  BY <1>2, <1>4, JoinedThree
  <2> QED  BY <1>7, <1>8, <2>1 DEF Content
<1> QED  BY <1>7, <1>9 DEF Carries

\* An end that cuts off some of it.
LEMMA EndingCarries ==
  ASSUME NEW s \in Stream, NEW t \in Endings(s)
  PROVE  /\ t \in Stream /\ t.ended
         /\ \A ls : Carries(s, ls) => Carries(t, ls)
<1>1. PICK n \in 0 .. Len(s.wire) :
        t = [s EXCEPT !.wire = SubSeq(@, 1, n), !.ended = TRUE]
  BY DEF Endings
<1>2. /\ s.wire \in Bytes /\ s.buffer \in Bytes /\ Len(s.wire) \in Nat /\ Len(s.buffer) \in Nat
  BY StreamFields
<1> DEFINE w == s.wire
           a == SubSeq(w, 1, n)
<1>3. n \in Nat /\ n <= Len(w)  BY <1>2
<1>4. a \in Bytes /\ Len(a) = n /\ \A j \in 1 .. n : a[j] = w[j]
  BY <1>2, <1>3, Parted
<1>5. t = [wire |-> a, buffer |-> s.buffer, ended |-> TRUE]
  BY <1>1 DEF Stream
<1> HIDE DEF a
<1>6. t \in Stream /\ t.ended /\ t.wire = a /\ t.buffer = s.buffer
  BY <1>2, <1>4, <1>5 DEF Stream
<1> DEFINE k == Len(s.buffer)
<1>7. /\ Len(Content(t)) = k + n
      /\ \A j \in 1 .. k + n : Content(t)[j] = IF j <= k THEN s.buffer[j] ELSE a[j - k]
  <2>1. Content(t) = s.buffer \o a  BY <1>6 DEF Content
  <2>2. /\ Len(s.buffer \o a) = k + Len(a)
        /\ \A j \in 1 .. k + Len(a) : (s.buffer \o a)[j] = IF j <= k THEN s.buffer[j] ELSE a[j - k]
    BY <1>2, <1>4, Joined
  <2> QED  BY <1>4, <2>1, <2>2
<1>8. /\ Len(Content(s)) = k + Len(w)
      /\ \A j \in 1 .. k + Len(w) : Content(s)[j] = IF j <= k THEN s.buffer[j] ELSE w[j - k]
  BY <1>2, Joined DEF Content
<1> HIDE DEF k, w
<1>9. k \in Nat /\ Len(w) \in Nat  BY <1>2 DEF k, w
<1>10. ASSUME NEW j \in 1 .. k + n PROVE j \in 1 .. k + Len(w) /\ Content(t)[j] = Content(s)[j]
  <2>1. j \in 1 .. k + Len(w)  BY <1>3, <1>9
  <2>2. CASE j <= k  BY <1>7, <1>8, <2>1, <2>2
  <2>3. CASE ~ (j <= k)
    <3>1. j - k \in 1 .. n  BY <1>3, <1>9, <2>3
    <3> QED  BY <1>4, <1>7, <1>8, <2>1, <2>3, <3>1
  <2> QED  BY <2>1, <2>2, <2>3
<1>11. ASSUME NEW ls, Carries(s, ls) PROVE Carries(t, ls)
  <2>1. PICK whole \in Bytes : Frames(whole, ls) /\ Begins(Content(s), whole, s.ended)
    BY <1>11 DEF Carries
  <2>2. Len(whole) \in Nat  BY <2>1, LenProperties DEF Bytes
  <2>3. k + n <= Len(whole)
    <3>1. k + Len(w) <= Len(whole)  BY <1>8, <2>1 DEF Begins
    <3> QED  BY <1>3, <1>9, <2>2, <3>1
  <2>4. \A j \in 1 .. k + n : Content(t)[j] = whole[j]
    <3>1. \A j \in 1 .. k + Len(w) : Content(s)[j] = whole[j]  BY <1>8, <2>1 DEF Begins
    <3> QED  BY <1>10, <3>1
  <2>5. Begins(Content(t), whole, t.ended)  BY <1>6, <1>7, <2>3, <2>4 DEF Begins
  <2> QED  BY <2>1, <2>5 DEF Carries
<1> QED  BY <1>6, <1>11

-----------------------------------------------------------------------------
(***************************************************************************)
(* recvPDU                                                                 *)
(***************************************************************************)

\* What has arrived of a PDU begins with its length field.
LEMMA LengthRead ==
  ASSUME NEW s \in Stream, NEW ls \in Seq(Line), NEW whole \in Bytes,
         Frames(whole, ls), Begins(Content(s), whole, s.ended), Len(s.buffer) >= 2
  PROVE  /\ ls # << >> /\ ls[1] \in Line
         /\ PayloadLength(s) = Len(ls[1])
         /\ Len(whole) >= Len(ls[1]) + 2
         /\ \A j \in 1 .. Len(ls[1]) + 2 : whole[j] = PDU(ls[1])[j]
<1> DEFINE q == Content(s)
           h == Len(s.buffer)
<1>1. /\ q \in Bytes /\ Len(q) = h + Len(s.wire)
      /\ h \in Nat /\ Len(s.wire) \in Nat
      /\ \A j \in 1 .. h : q[j] = s.buffer[j]
  BY StreamFields
<1>2. Len(q) <= Len(whole) /\ \A j \in 1 .. Len(q) : q[j] = whole[j]
  BY DEF Begins
<1> HIDE DEF q, h
<1>3. Len(whole) \in Nat  BY LenProperties DEF Bytes
<1>4. h >= 2  BY DEF h
<1>5. whole # << >>
  <2>1. Len(whole) >= 2  BY <1>1, <1>2, <1>3, <1>4
  <2>2. Len(<< >>) = 0  BY EmptySeq
  <2> QED  BY <2>1, <2>2
<1>6. ls # << >>  BY <1>5, NoFrames
<1>7. /\ ls[1] \in Line /\ Len(whole) >= Len(ls[1]) + 2
      /\ \A j \in 1 .. Len(ls[1]) + 2 : whole[j] = PDU(ls[1])[j]
  BY <1>6, FrameTaken
<1>8. Len(ls[1]) \in Nat  BY <1>7, LineLength
<1>9. s.buffer[1] = PDU(ls[1])[1] /\ s.buffer[2] = PDU(ls[1])[2]
  <2>1. \A n, m \in Nat : n >= 2 => /\ 1 \in 1 .. n /\ 2 \in 1 .. n
                                    /\ 1 \in 1 .. n + m /\ 2 \in 1 .. n + m
                                    /\ 1 \in 1 .. m + 2 /\ 2 \in 1 .. m + 2
    OBVIOUS
  <2>2. /\ 1 \in 1 .. h /\ 2 \in 1 .. h /\ 1 \in 1 .. Len(q) /\ 2 \in 1 .. Len(q)
        /\ 1 \in 1 .. Len(ls[1]) + 2 /\ 2 \in 1 .. Len(ls[1]) + 2
    BY <1>1, <1>4, <1>8, <2>1
  <2> QED  BY <1>1, <1>2, <1>7, <2>2
<1>10. PayloadLength(s) = Len(ls[1])
  <2>1. 256 * PDU(ls[1])[1] + PDU(ls[1])[2] - 2 = Len(ls[1])  BY <1>7, PDUBytes
  <2> QED  BY <1>9, <2>1 DEF PayloadLength
<1> QED  BY <1>6, <1>7, <1>10

\* What recvPDU returns if the length says k.
LEMMA RecvPDUCases ==
  ASSUME NEW s \in Stream, Len(s.buffer) >= 2 => PayloadLength(s) \in Nat \ {0}
  PROVE  /\ RecvPDU(s).len > 0 =>
              /\ Len(s.buffer) >= 2 + PayloadLength(s)
              /\ RecvPDU(s) = [len |-> PayloadLength(s),
                               data |-> SubSeq(s.buffer, 3, 2 + PayloadLength(s))]
         /\ RecvPDU(s).len <= 0 =>
              Len(s.buffer) < 2 \/ Len(s.buffer) < 2 + PayloadLength(s)
<1> DEFINE h == Len(s.buffer)
           k == PayloadLength(s)
           got == IF h <= 2 THEN 0 ELSE IF h - 2 < k THEN h - 2 ELSE k
           d == SubSeq(s.buffer, 3, 2 + got)
<1>1. h \in Nat  BY StreamFields
<1>2. RecvPDU(s) = CASE h = 0 \/ (h >= 2 /\ got = 0) -> [len |-> 0, data |-> << >>]
                     [] h = 1 \/ (h > 2 /\ got # k) -> [len |-> -1, data |-> << >>]
                     [] OTHER -> [len |-> got, data |-> d]
  BY DEF RecvPDU
<1>3. h >= 2 => k \in Nat \ {0}  OBVIOUS
<1>4. k = PayloadLength(s) /\ h = Len(s.buffer)  OBVIOUS
<1>5. h = 0 \/ h = 1 \/ h = 2 \/ h > 2
  <2> HIDE DEF h
  <2> QED  BY <1>1
<1>6. d = SubSeq(s.buffer, 3, 2 + got)  OBVIOUS
<1> HIDE DEF h, k, d
<1>7. CASE h = 0
  <2>1. RecvPDU(s) = [len |-> 0, data |-> << >>]  BY <1>2, <1>7
  <2> QED  BY <1>4, <1>7, <2>1
<1>8. CASE h = 1
  <2>1. ~ (h = 0) /\ ~ (h >= 2)  BY <1>8
  <2>2. RecvPDU(s) = [len |-> -1, data |-> << >>]  BY <1>2, <1>8, <2>1
  <2> QED  BY <1>4, <1>8, <2>2
<1>9. CASE h = 2
  <2>1. got = 0 /\ h >= 2 /\ ~ (h > 2) /\ h # 1  BY <1>9
  <2>2. RecvPDU(s) = [len |-> 0, data |-> << >>]  BY <1>2, <2>1
  <2>3. h < 2 + k  BY <1>3, <1>9
  <2> QED  BY <1>4, <2>2, <2>3
<1>10. CASE h > 2 /\ h - 2 < k
  <2>1. got = h - 2 /\ got # 0 /\ got # k /\ h > 2 /\ h # 0  BY <1>1, <1>3, <1>10
  <2>2. RecvPDU(s) = [len |-> -1, data |-> << >>]  BY <1>2, <2>1
  <2>3. h < 2 + k  BY <1>1, <1>3, <1>10
  <2> QED  BY <1>4, <2>2, <2>3
<1>11. CASE h > 2 /\ ~ (h - 2 < k)
  <2>1. h >= 2 /\ k \in Nat \ {0}  BY <1>1, <1>3, <1>11
  <2>2. got = k /\ got # 0 /\ h # 0 /\ h # 1 /\ h >= 2 + k /\ k > 0  BY <1>1, <1>11, <2>1
  <2>3. RecvPDU(s) = [len |-> got, data |-> d]  BY <1>2, <2>2
  <2>4. RecvPDU(s) = [len |-> k, data |-> SubSeq(s.buffer, 3, 2 + k)]  BY <1>6, <2>2, <2>3
  <2>5. RecvPDU(s).len = k  BY <2>4
  <2>6. ~ (RecvPDU(s).len <= 0)  BY <2>1, <2>2, <2>5
  <2> QED  BY <1>4, <2>2, <2>4, <2>6
<1> QED  BY <1>5, <1>7, <1>8, <1>9, <1>10, <1>11

\* What recvPDU returns first is a number.
LEMMA ReadLength ==
  ASSUME NEW s \in Stream
  PROVE  RecvPDU(s).len \in Int
<1> DEFINE h == Len(s.buffer)
           k == PayloadLength(s)
           got == IF h <= 2 THEN 0 ELSE IF h - 2 < k THEN h - 2 ELSE k
           d == SubSeq(s.buffer, 3, 2 + got)
<1>1. RecvPDU(s) = CASE h = 0 \/ (h >= 2 /\ got = 0) -> [len |-> 0, data |-> << >>]
                     [] h = 1 \/ (h > 2 /\ got # k) -> [len |-> -1, data |-> << >>]
                     [] OTHER -> [len |-> got, data |-> d]
  BY DEF RecvPDU
<1>2. h \in Nat /\ s.buffer \in Seq(Byte)  BY StreamFields DEF Bytes
<1>3. ASSUME h >= 2 PROVE k \in Int
  <2>1. 1 \in 1 .. h /\ 2 \in 1 .. h
    <3> HIDE DEF h
    <3> QED  BY <1>2, <1>3
  <2>2. s.buffer[1] \in Byte /\ s.buffer[2] \in Byte  BY <1>2, <2>1, ElementOfSeq
  <2>3. \A x, y \in Byte : 256 * x + y - 2 \in Int  BY DEF Byte
  <2> QED  BY <2>2, <2>3 DEF PayloadLength
<1> HIDE DEF h, k, d
<1>4. got \in Int  BY <1>2, <1>3
<1> HIDE DEF got
<1>5. RecvPDU(s).len \in {0, -1, got}
  <2>1. \A l, x : [len |-> l, data |-> x].len = l  OBVIOUS
  <2> QED  BY <1>1, <2>1
<1> QED  BY <1>4, <1>5

\* However TCP has cut the stream: when recv returns, it is the next line, whole,
\* or the stream has ended.
LEMMA PDURead ==
  ASSUME NEW s \in Stream, NEW ls \in Seq(Line), Carries(s, ls), ~RecvWaits(s)
  PROVE  LET r == RecvPDU(s)
         IN  /\ r.len > 0 => /\ ls # << >> /\ ls[1] \in Line /\ r.data = ls[1]
                             /\ Received(s, r.len) \in Stream
                             /\ Received(s, r.len).ended = s.ended
                             /\ Carries(Received(s, r.len), Tail(ls))
             /\ ~ (r.len > 0) => s.ended
<1>1. PICK whole \in Bytes : Frames(whole, ls) /\ Begins(Content(s), whole, s.ended)
  BY DEF Carries
<1>2. Len(s.buffer) >= 2 => /\ ls # << >> /\ ls[1] \in Line
                            /\ PayloadLength(s) = Len(ls[1])
                            /\ Len(whole) >= Len(ls[1]) + 2
                            /\ \A j \in 1 .. Len(ls[1]) + 2 : whole[j] = PDU(ls[1])[j]
  BY <1>1, LengthRead
<1>3. Len(s.buffer) >= 2 => PayloadLength(s) \in Nat \ {0}
  <2> SUFFICES ASSUME Len(s.buffer) >= 2 PROVE PayloadLength(s) \in Nat \ {0}
    OBVIOUS
  <2>1. Len(ls[1]) \in Nat /\ Len(ls[1]) >= 1  BY <1>2, LineLength
  <2> QED  BY <1>2, <2>1
<1>4. /\ RecvPDU(s).len > 0 =>
           /\ Len(s.buffer) >= 2 + PayloadLength(s)
           /\ RecvPDU(s) = [len |-> PayloadLength(s),
                            data |-> SubSeq(s.buffer, 3, 2 + PayloadLength(s))]
      /\ RecvPDU(s).len <= 0 =>
           Len(s.buffer) < 2 \/ Len(s.buffer) < 2 + PayloadLength(s)
  BY <1>3, RecvPDUCases
<1>5. /\ s.buffer \in Bytes /\ s.wire \in Bytes /\ Len(s.buffer) \in Nat /\ Len(s.wire) \in Nat
      /\ s.ended \in BOOLEAN
  BY StreamFields
<1>6. ~ (RecvPDU(s).len > 0) => RecvPDU(s).len <= 0
  <2>1. \A k \in Int : ~ (k > 0) => k <= 0  OBVIOUS
  <2> QED  BY <2>1, ReadLength
<1>7. ASSUME ~ (RecvPDU(s).len > 0) PROVE s.ended
  <2>1. CASE Len(s.buffer) < 2
    <3>1. ~Waits(s, 2)  BY DEF RecvWaits
    <3> QED  BY <2>1, <3>1 DEF Waits
  <2>2. CASE ~ (Len(s.buffer) < 2)
    <3>1. Len(s.buffer) >= 2  BY <1>5, <2>2
    <3>2. ~Waits(s, 2 + PayloadLength(s))  BY <3>1 DEF RecvWaits
    <3>3. Len(s.buffer) < 2 + PayloadLength(s)  BY <1>4, <1>6, <1>7, <2>2
    <3> QED  BY <3>2, <3>3 DEF Waits
  <2> QED  BY <2>1, <2>2
<1>8. ASSUME RecvPDU(s).len > 0
      PROVE  /\ ls # << >> /\ ls[1] \in Line /\ RecvPDU(s).data = ls[1]
             /\ Received(s, RecvPDU(s).len) \in Stream
             /\ Received(s, RecvPDU(s).len).ended = s.ended
             /\ Carries(Received(s, RecvPDU(s).len), Tail(ls))
  <2> DEFINE k == Len(ls[1])
             b == s.buffer
             h == Len(s.buffer)
             w == Len(s.wire)
             q == Content(s)
             t == Received(s, RecvPDU(s).len)
             rest == SubSeq(b, (2 + k) + 1, h)
             left == SubSeq(whole, (2 + k) + 1, Len(whole))
  <2>1. h >= 2
    <3>1. CASE h < 2
      <4>1. h = 0 \/ h = 1
        <5> HIDE DEF h
        <5>1. h \in Nat  BY <1>5 DEF h
        <5> QED  BY <3>1, <5>1
      <4>2. RecvPDU(s).len = 0 \/ RecvPDU(s).len = -1
        <5>1. h = 0 => RecvPDU(s) = [len |-> 0, data |-> << >>]  BY DEF RecvPDU
        <5>2. h = 1 => RecvPDU(s) = [len |-> -1, data |-> << >>]  BY DEF RecvPDU
        <5> QED  BY <4>1, <5>1, <5>2
      <4>3. ~ (RecvPDU(s).len > 0)
        <5>1. CASE RecvPDU(s).len = 0  BY <5>1
        <5>2. CASE RecvPDU(s).len = -1  BY <5>2
        <5> QED  BY <4>2, <5>1, <5>2
      <4> QED  BY <1>8, <4>3
    <3> HIDE DEF h
    <3>2. h \in Nat  BY <1>5 DEF h
    <3> QED  BY <3>1, <3>2
  <2>2. /\ ls # << >> /\ ls[1] \in Line /\ PayloadLength(s) = k /\ Len(whole) >= k + 2
        /\ \A j \in 1 .. k + 2 : whole[j] = PDU(ls[1])[j]
    BY <1>2, <2>1
  <2>3. k \in Nat /\ k >= 1 /\ h \in Nat /\ w \in Nat /\ h >= 2 + k /\ ls[1] \in Bytes
    BY <1>4, <1>5, <1>8, <2>2, LineLength
  <2>4. RecvPDU(s).len = k /\ RecvPDU(s).data = SubSeq(b, 3, 2 + k)
    BY <1>4, <1>8, <2>2
  <2>5. /\ q \in Bytes /\ Len(q) = h + w /\ Len(q) <= Len(whole)
        /\ \A j \in 1 .. Len(q) : q[j] = whole[j]
        /\ \A j \in 1 .. h : q[j] = b[j]
    BY <1>1, StreamFields DEF Begins
  <2>6. q = b \o s.wire /\ \A j \in 1 .. h + w : q[j] = IF j <= h THEN b[j] ELSE s.wire[j - h]
    BY <1>5, Joined DEF Content
  <2>7. Received(s, k) = [wire |-> s.wire, buffer |-> SubSeq(b, 2 + k + 1, h), ended |-> s.ended]
    <3>1. \A x : [s EXCEPT !.buffer = x] = [wire |-> s.wire, buffer |-> x, ended |-> s.ended]
      BY DEF Stream
    <3>2. Received(s, k) = [s EXCEPT !.buffer = SubSeq(b, 2 + k + 1, h)]  BY DEF Received
    <3> QED  BY <3>1, <3>2
  <2>8. b \in Bytes /\ s.wire \in Bytes /\ h = Len(b)  BY <1>5
  <2>9. Len(whole) \in Nat  BY LenProperties DEF Bytes
  <2>10. /\ rest \in Bytes /\ Len(rest) = h - (2 + k)
         /\ \A j \in 1 .. h - (2 + k) : rest[j] = b[(2 + k) + j]
    <3>1. 2 + k \in Nat /\ 2 + k <= Len(b) /\ b \in Bytes  BY <2>3, <2>8
    <3> HIDE DEF b, k
    <3> QED  BY <3>1, Parted DEF b
  <2>11. /\ left \in Bytes /\ Len(left) = Len(whole) - (2 + k)
         /\ \A j \in 1 .. Len(whole) - (2 + k) : left[j] = whole[(2 + k) + j]
    <3>1. 2 + k \in Nat /\ 2 + k <= Len(whole)  BY <2>2, <2>3, <2>9
    <3> QED  BY <3>1, Parted
  <2>12. t = [wire |-> s.wire, buffer |-> rest, ended |-> s.ended]
    BY <2>4, <2>7
  <2>13. Frames(left, Tail(ls))
    <3>1. Frames(SubSeq(whole, k + 3, Len(whole)), Tail(ls))  BY <1>1, <2>2, FrameTaken
    <3>2. k + 3 = (2 + k) + 1  BY <2>3
    <3> QED  BY <3>1, <3>2
  <2>14. SubSeq(b, 3, 2 + k) = ls[1]
    <3> DEFINE d == SubSeq(b, 3, 2 + k)
    <3>1. /\ d \in Bytes /\ Len(d) = k /\ \A j \in 1 .. k : d[j] = b[2 + j]
      <4>1. \A j \in 3 .. 2 + k : b[j] \in Byte
        <5>1. \A j \in 1 .. h : b[j] \in Byte  BY <2>8, ElementOfSeq DEF Bytes
        <5>2. \A j \in 3 .. 2 + k : j \in 1 .. h
          <6> HIDE DEF h, k
          <6> QED  BY <2>3
        <5> QED  BY <5>1, <5>2
      <4>2. 3 \in Int /\ 2 + k \in Int  BY <2>3
      <4>3. /\ d \in Seq(Byte) /\ Len(d) = IF 3 <= 2 + k THEN (2 + k) - 3 + 1 ELSE 0
            /\ \A j \in 1 .. (2 + k) - 3 + 1 : d[j] = b[3 + j - 1]
        BY <4>1, <4>2, SubSeqProperties
      <4> HIDE DEF d, k
      <4>4. Len(d) = k  BY <2>3, <4>3
      <4>5. ASSUME NEW j \in 1 .. k PROVE d[j] = b[2 + j]
        <5>1. j \in 1 .. (2 + k) - 3 + 1 /\ 3 + j - 1 = 2 + j  BY <2>3
        <5> QED  BY <4>3, <5>1
      <4> QED  BY <4>3, <4>4, <4>5 DEF Bytes
    <3>2. ASSUME NEW j \in 1 .. k PROVE b[2 + j] = ls[1][j]
      <4>1. \A x, y, z \in Nat : j \in 1 .. x /\ y >= 2 + x =>
               2 + j \in 1 .. x + 2 /\ 2 + j \in 1 .. y /\ 2 + j \in 1 .. y + z /\ 2 + j = j + 2
        OBVIOUS
      <4>2. 2 + j \in 1 .. k + 2 /\ 2 + j \in 1 .. h /\ 2 + j \in 1 .. h + w /\ 2 + j = j + 2
        BY <2>3, <4>1
      <4>3. b[2 + j] = whole[2 + j]  BY <2>5, <4>2
      <4>4. whole[2 + j] = PDU(ls[1])[2 + j]  BY <2>2, <4>2
      <4>5. PDU(ls[1])[j + 2] = ls[1][j]  BY <2>2, PDUBytes
      <4> QED  BY <4>2, <4>3, <4>4, <4>5
    <3> HIDE DEF d
    <3>3. \A j \in 1 .. k : d[j] = ls[1][j]  BY <3>1, <3>2
    <3>4. d = ls[1]  BY <2>3, <3>1, <3>3, SeqEqual DEF Bytes
    <3> QED  BY <3>4 DEF d
  <2> HIDE DEF t, rest, left, q, b, h, w
  <2>15. t \in Stream /\ t.wire = s.wire /\ t.buffer = rest /\ t.ended = s.ended
    BY <1>5, <2>8, <2>10, <2>12 DEF Stream
  <2> DEFINE u == Content(t)
             g == h - (2 + k)
  <2> HIDE DEF k
  <2>16. g \in Nat /\ h = (2 + k) + g  BY <2>3
  <2> HIDE DEF g
  <2>17. /\ u \in Bytes /\ Len(u) = g + w
         /\ \A j \in 1 .. g + w : u[j] = IF j <= g THEN rest[j] ELSE s.wire[j - g]
    <3>1. u = rest \o s.wire  BY <2>15 DEF Content
    <3>2. Len(rest) = g /\ Len(s.wire) = w  BY <2>10 DEF g, w
    <3>3. rest \in Bytes /\ s.wire \in Bytes  BY <2>8, <2>10
    <3>4. /\ rest \o s.wire \in Bytes /\ Len(rest \o s.wire) = Len(rest) + Len(s.wire)
          /\ \A j \in 1 .. Len(rest) + Len(s.wire) :
               (rest \o s.wire)[j] = IF j <= Len(rest) THEN rest[j] ELSE s.wire[j - Len(rest)]
      BY <3>3, Joined
    <3> QED  BY <3>1, <3>2, <3>4
  <2>18. ASSUME NEW j \in 1 .. g + w PROVE u[j] = q[(2 + k) + j]
    <3>1. (2 + k) + j \in 1 .. h + w  BY <2>3, <2>16
    <3>2. CASE j <= g
      <4>1. (2 + k) + j <= h /\ j \in 1 .. h - (2 + k)  BY <2>3, <2>16, <3>2
      <4> QED  BY <2>6, <2>10, <2>17, <3>1, <3>2, <4>1
    <3>3. CASE ~ (j <= g)
      <4>1. ~ ((2 + k) + j <= h) /\ ((2 + k) + j) - h = j - g  BY <2>3, <2>16, <3>3
      <4> QED  BY <2>6, <2>17, <3>1, <3>3, <4>1
    <3> QED  BY <3>2, <3>3
  <2>19. Begins(u, left, t.ended)
    <3> DEFINE m == Len(whole)
    <3>1. m \in Nat /\ h + w <= m  BY <2>5, <2>9
    <3>2. Len(u) = g + w /\ Len(left) = m - (2 + k)  BY <2>11, <2>17
    <3> HIDE DEF m, u
    <3>3. Len(u) <= Len(left)  BY <2>3, <2>16, <3>1, <3>2
    <3>4. ASSUME NEW j \in 1 .. Len(u) PROVE u[j] = left[j]
      <4>1. j \in 1 .. g + w  BY <3>2
      <4>2. (2 + k) + j \in 1 .. h + w /\ j \in 1 .. m - (2 + k)
        BY <2>3, <2>16, <3>1, <4>1
      <4>3. q[(2 + k) + j] = whole[(2 + k) + j]  BY <2>5, <4>2
      <4>4. left[j] = whole[(2 + k) + j]  BY <2>11, <4>2 DEF m
      <4> QED  BY <2>18, <4>1, <4>3, <4>4
    <3>5. ASSUME ~t.ended PROVE u = left
      <4>1. q = whole  BY <1>1, <2>15, <3>5 DEF Begins, q
      <4>2. h + w = m  BY <2>5, <4>1 DEF m
      <4>3. Len(u) = Len(left)  BY <2>3, <2>16, <3>2, <4>2
      <4>4. u \in Seq(Byte) /\ left \in Seq(Byte)  BY <2>11, <2>17 DEF Bytes, u
      <4> QED  BY <3>4, <4>3, <4>4, SeqEqual
    <3> QED  BY <3>3, <3>4, <3>5 DEF Begins
  <2>20. Carries(t, Tail(ls))  BY <2>11, <2>13, <2>19 DEF Carries
  <2> QED  BY <2>2, <2>4, <2>14, <2>15, <2>20 DEF t, b, k
<1> QED  BY <1>7, <1>8

-----------------------------------------------------------------------------
(***************************************************************************)
(* The lines between two numbers                                           *)
(***************************************************************************)

Part(s, m, n) == SubSeq(s, m + 1, n)

\* Some lines of many.
LEMMA PartLines ==
  ASSUME NEW s \in Seq(Line), NEW n \in Nat, n <= Len(s), NEW m \in Nat, m <= n
  PROVE  /\ Part(s, m, n) \in Seq(Line) /\ Len(Part(s, m, n)) = n - m
         /\ \A i \in 1 .. n - m : Part(s, m, n)[i] = s[m + i]
<1>1. \A i \in m + 1 .. n : s[i] \in Line
  <2>1. Len(s) \in Nat /\ \A i \in 1 .. Len(s) : s[i] \in Line
    BY LenProperties, ElementOfSeq
  <2>2. \A L \in Nat : n <= L => \A i \in m + 1 .. n : i \in 1 .. L  OBVIOUS
  <2> QED  BY <2>1, <2>2
<1>2. /\ Part(s, m, n) \in Seq(Line)
      /\ Len(Part(s, m, n)) = IF m + 1 <= n THEN n - (m + 1) + 1 ELSE 0
      /\ \A i \in 1 .. n - (m + 1) + 1 : Part(s, m, n)[i] = s[(m + 1) + i - 1]
  <2>1. m + 1 \in Int /\ n \in Int  OBVIOUS
  <2> QED  BY <1>1, <2>1, SubSeqProperties DEF Part
<1>3. Len(Part(s, m, n)) = n - m
  <2>1. CASE m = n
    <3>1. ~ (m + 1 <= n) /\ n - m = 0  BY <2>1
    <3> QED  BY <1>2, <3>1
  <2>2. CASE m # n
    <3>1. m + 1 <= n /\ n - (m + 1) + 1 = n - m  BY <2>2
    <3> QED  BY <1>2, <3>1
  <2> QED  BY <2>1, <2>2
<1>4. ASSUME NEW i \in 1 .. n - m PROVE Part(s, m, n)[i] = s[m + i]
  <2>1. i \in 1 .. n - (m + 1) + 1 /\ (m + 1) + i - 1 = m + i  OBVIOUS
  <2> QED  BY <1>2, <2>1
<1> QED  BY <1>2, <1>3, <1>4

\* The first of them is taken.
LEMMA PartTail ==
  ASSUME NEW s \in Seq(Line), NEW n \in Nat, n <= Len(s), NEW m \in Nat, m <= n,
         Part(s, m, n) # << >>
  PROVE  /\ m + 1 <= n /\ s[m + 1] \in Line /\ Part(s, m, n)[1] = s[m + 1]
         /\ Tail(Part(s, m, n)) = Part(s, m + 1, n)
<1> DEFINE p == Part(s, m, n)
           r == Part(s, m + 1, n)
<1>1. p \in Seq(Line) /\ Len(p) = n - m /\ \A i \in 1 .. n - m : p[i] = s[m + i]
  BY PartLines
<1>2. m + 1 <= n
  <2>1. Len(p) \in Nat \ {0}  BY <1>1, EmptySeq
  <2> HIDE DEF p
  <2>2. n - m # 0  BY <1>1, <2>1
  <2> QED  BY <2>2
<1>3. r \in Seq(Line) /\ Len(r) = n - (m + 1) /\ \A i \in 1 .. n - (m + 1) : r[i] = s[(m + 1) + i]
  <2>1. m + 1 \in Nat  OBVIOUS
  <2> QED  BY <1>2, <2>1, PartLines
<1>4. /\ Tail(p) \in Seq(Line) /\ Len(Tail(p)) = Len(p) - 1
      /\ \A i \in 1 .. Len(Tail(p)) : Tail(p)[i] = p[i + 1]
  <2>1. p # << >>  OBVIOUS
  <2> HIDE DEF p
  <2> QED  BY <1>1, <2>1, HeadTailProperties
<1> HIDE DEF p, r
<1>5. 1 \in 1 .. n - m  BY <1>2
<1>6. p[1] = s[m + 1]  BY <1>1, <1>5
<1>7. p[1] \in Line  BY <1>1, <1>5, ElementOfSeq
<1>8. Len(Tail(p)) = Len(r)  BY <1>1, <1>3, <1>4
<1>9. ASSUME NEW i \in 1 .. Len(r) PROVE Tail(p)[i] = r[i]
  <2>1. i \in 1 .. n - (m + 1)  BY <1>3
  <2>2. i + 1 \in 1 .. n - m /\ m + (i + 1) = (m + 1) + i  BY <2>1
  <2>3. Tail(p)[i] = p[i + 1]  BY <1>4, <1>8
  <2> QED  BY <1>1, <1>3, <2>1, <2>2, <2>3
<1>10. Tail(p) = r  BY <1>3, <1>4, <1>8, <1>9, SeqEqual
<1> QED  BY <1>2, <1>6, <1>7, <1>10 DEF p, r

\* One more at the end.
LEMMA PartMore ==
  ASSUME NEW s \in Seq(Line), NEW n \in Nat, n + 1 <= Len(s), NEW m \in Nat, m <= n
  PROVE  Append(Part(s, m, n), s[n + 1]) = Part(s, m, n + 1)
<1> DEFINE p == Part(s, m, n)
           r == Part(s, m, n + 1)
           l == s[n + 1]
           a == Append(p, l)
<1>1. Len(s) \in Nat  BY LenProperties
<1>2. n <= Len(s) /\ n + 1 \in Nat /\ m <= n + 1  BY <1>1
<1>3. p \in Seq(Line) /\ Len(p) = n - m /\ \A i \in 1 .. n - m : p[i] = s[m + i]
  BY <1>2, PartLines
<1>4. r \in Seq(Line) /\ Len(r) = (n + 1) - m /\ \A i \in 1 .. (n + 1) - m : r[i] = s[m + i]
  BY <1>2, PartLines
<1>5. l \in Line
  <2>1. \A L \in Nat : n + 1 <= L => n + 1 \in 1 .. L  OBVIOUS
  <2>2. n + 1 \in 1 .. Len(s)  BY <1>1, <2>1
  <2> QED  BY <2>2, ElementOfSeq
<1> HIDE DEF p, r, l
<1>6. /\ a \in Seq(Line) /\ Len(a) = Len(p) + 1 /\ a[Len(p) + 1] = l
      /\ \A i \in 1 .. Len(p) : a[i] = p[i]
  <2>1. p \in Seq(Line)  BY <1>3
  <2> HIDE DEF a
  <2>2. a = Append(p, l)  BY DEF a
  <2>3. /\ Append(p, l) \in Seq(Line) /\ Len(Append(p, l)) = Len(p) + 1
        /\ Append(p, l)[Len(p) + 1] = l /\ \A i \in 1 .. Len(p) : Append(p, l)[i] = p[i]
    BY <1>5, <2>1, AppendProperties
  <2> QED  BY <2>2, <2>3
<1> HIDE DEF a
<1>7. Len(a) = Len(r)  BY <1>3, <1>4, <1>6
<1>8. ASSUME NEW i \in 1 .. Len(r) PROVE a[i] = r[i]
  <2>1. i \in 1 .. (n + 1) - m  BY <1>4
  <2>2. r[i] = s[m + i]  BY <1>4, <2>1
  <2>3. CASE i \in 1 .. n - m  BY <1>3, <1>6, <2>2, <2>3
  <2>4. CASE i = (n - m) + 1
    <3>1. m + i = n + 1 /\ i = Len(p) + 1  BY <1>3, <2>4
    <3> QED  BY <1>6, <2>2, <3>1 DEF l
  <2> QED  BY <2>1, <2>3, <2>4
<1>9. a = r  BY <1>4, <1>6, <1>7, <1>8, SeqEqual
<1> QED  BY <1>9 DEF a, p, r, l

\* A line that is added behind them changes nothing of them.
LEMMA PartKept ==
  ASSUME NEW s \in Seq(Line), NEW l \in Line, NEW n \in Nat, n <= Len(s), NEW m \in Nat, m <= n
  PROVE  Part(Append(s, l), m, n) = Part(s, m, n)
<1> DEFINE p == Part(s, m, n)
           r == Part(Append(s, l), m, n)
<1>1. Len(s) \in Nat  BY LenProperties
<1>2. /\ Append(s, l) \in Seq(Line) /\ Len(Append(s, l)) = Len(s) + 1
      /\ \A i \in 1 .. Len(s) : Append(s, l)[i] = s[i]
  BY AppendProperties
<1>3. n <= Len(Append(s, l))  BY <1>1, <1>2
<1>4. p \in Seq(Line) /\ Len(p) = n - m /\ \A i \in 1 .. n - m : p[i] = s[m + i]
  BY PartLines
<1>5. r \in Seq(Line) /\ Len(r) = n - m /\ \A i \in 1 .. n - m : r[i] = Append(s, l)[m + i]
  BY <1>2, <1>3, PartLines
<1>6. ASSUME NEW i \in 1 .. n - m PROVE m + i \in 1 .. Len(s)
  <2>1. \A L \in Nat : n <= L => m + i \in 1 .. L  BY <1>6
  <2> QED  BY <1>1, <2>1
<1>7. \A i \in 1 .. n - m : p[i] = r[i]  BY <1>2, <1>4, <1>5, <1>6
<1> HIDE DEF p, r
<1>8. p = r  BY <1>4, <1>5, <1>7, SeqEqual
<1> QED  BY <1>8 DEF p, r

\* The lines from m on, and a new one.
LEMMA PartAppended ==
  ASSUME NEW s \in Seq(Line), NEW l \in Line, NEW m \in Nat, m <= Len(s)
  PROVE  Part(Append(s, l), m, Len(Append(s, l))) = Append(Part(s, m, Len(s)), l)
<1> DEFINE t == Append(s, l)
           n == Len(s)
<1>1. n \in Nat /\ n <= n  BY LenProperties
<1>2. t \in Seq(Line) /\ Len(t) = n + 1 /\ t[n + 1] = l  BY AppendProperties
<1>3. Part(t, m, n) = Part(s, m, n)  BY <1>1, PartKept
<1> HIDE DEF t, n
<1>4. m <= n  BY DEF n
<1>5. n + 1 <= Len(t)  BY <1>1, <1>2
<1>6. Append(Part(t, m, n), t[n + 1]) = Part(t, m, n + 1)  BY <1>1, <1>2, <1>4, <1>5, PartMore
<1> QED  BY <1>2, <1>3, <1>6 DEF t, n

-----------------------------------------------------------------------------
(***************************************************************************)
(* One client's lines: those echoed and printed, those on the way back,    *)
(* and those on the way to the server, up to the last one sent             *)
(***************************************************************************)

Own(s, e) == Len(e) <= Len(s) /\ \A i \in 1 .. Len(e) : e[i] = s[i]

\* The server has answered n lines.
Between(s, e, u, d, state, n) ==
  /\ n <= Len(s) /\ Carries(u, Part(s, n, Len(s)))
  /\ state # "gone" => Len(e) <= n /\ Carries(d, Part(s, Len(e), n))

Echoing(s, e, u, d, state) ==
  Own(s, e) /\ \E n \in Nat : Between(s, e, u, d, state, n)

\* A client before its first line.
LEMMA EchoingBegins ==
  Echoing(<< >>, << >>, NewStream, NewStream, "new")
<1>1. << >> \in Seq(Line) /\ Len(<< >>) = 0 /\ 0 \in Nat /\ 0 <= 0  BY EmptySeq
<1>2. Part(<< >>, 0, 0) = << >>
  <2>1. Part(<< >>, 0, 0) \in Seq(Line) /\ Len(Part(<< >>, 0, 0)) = 0 - 0
    BY <1>1, PartLines
  <2> QED  BY <2>1, EmptySeq
<1>3. Between(<< >>, << >>, NewStream, NewStream, "new", 0)
  BY <1>1, <1>2, NewCarries DEF Between
<1> QED  BY <1>1, <1>3 DEF Echoing, Own

\* sendPDU of a line adds it to those on the way to the server.
LEMMA EchoingSent ==
  ASSUME NEW s \in Seq(Line), NEW e \in Seq(Line), NEW u \in Stream, NEW d, NEW state,
         NEW l \in Line, ~u.ended, Echoing(s, e, u, d, state)
  PROVE  Echoing(Append(s, l), e, Written(u, PDU(l)), d, state)
<1> DEFINE t == Append(s, l)
<1>1. PICK n \in Nat : Between(s, e, u, d, state, n)  BY DEF Echoing
<1>2. Len(s) \in Nat /\ Len(e) \in Nat  BY LenProperties
<1>3. t \in Seq(Line) /\ Len(t) = Len(s) + 1 /\ \A i \in 1 .. Len(s) : t[i] = s[i]
  BY AppendProperties
<1>4. n <= Len(s) /\ Carries(u, Part(s, n, Len(s)))
      /\ (state # "gone" => Len(e) <= n /\ Carries(d, Part(s, Len(e), n)))
  BY <1>1 DEF Between
<1>5. Part(t, n, Len(t)) = Append(Part(s, n, Len(s)), l)  BY <1>4, PartAppended
<1>6. Part(s, n, Len(s)) \in Seq(Line)
  <2>1. Len(s) <= Len(s)  BY <1>2
  <2> QED  BY <1>2, <1>4, <2>1, PartLines
<1>7. Carries(Written(u, PDU(l)), Part(t, n, Len(t)))  BY <1>4, <1>5, <1>6, WrittenCarries
<1>8. state # "gone" => Part(t, Len(e), n) = Part(s, Len(e), n)
  BY <1>2, <1>4, PartKept
<1> HIDE DEF t
<1>9. n <= Len(t)  BY <1>2, <1>3, <1>4
<1>10. Between(t, e, Written(u, PDU(l)), d, state, n)  BY <1>4, <1>7, <1>8, <1>9 DEF Between
<1>11. Own(t, e)
  <2>1. Len(e) <= Len(s) /\ \A i \in 1 .. Len(e) : e[i] = s[i]  BY DEF Echoing, Own
  <2>2. Len(e) <= Len(t)  BY <1>2, <1>3, <2>1
  <2>3. \A i \in 1 .. Len(e) : i \in 1 .. Len(s)  BY <1>2, <2>1
  <2> QED  BY <1>3, <2>1, <2>2, <2>3 DEF Own
<1> QED  BY <1>10, <1>11 DEF Echoing, t

\* Streams that carry as much as before, and a client that may have ended.
LEMMA EchoingMoved ==
  ASSUME NEW s, NEW e, NEW u, NEW d, NEW state, Echoing(s, e, u, d, state),
         NEW v, NEW x, NEW next, next = "gone" \/ state # "gone",
         \A ls : Carries(u, ls) => Carries(v, ls),
         next = "gone" \/ \A ls : Carries(d, ls) => Carries(x, ls)
  PROVE  Echoing(s, e, v, x, next)
<1>1. PICK n \in Nat : Between(s, e, u, d, state, n)  BY DEF Echoing
<1>2. Between(s, e, v, x, next, n)  BY <1>1 DEF Between
<1> QED  BY <1>2 DEF Echoing

\* A client that reads an echo reads the next of its lines.
LEMMA EchoingHeard ==
  ASSUME NEW s \in Seq(Line), NEW e \in Seq(Line), NEW u, NEW d \in Stream, NEW state,
         state # "gone", Echoing(s, e, u, d, state), ~RecvWaits(d), RecvPDU(d).len > 0
  PROVE  LET r == RecvPDU(d)
         IN  /\ r.data \in Line
             /\ Received(d, r.len) \in Stream /\ Received(d, r.len).ended = d.ended
             /\ Echoing(s, Append(e, r.data), u, Received(d, r.len), state)
<1> DEFINE r == RecvPDU(d)
           m == Len(e)
           f == Append(e, r.data)
<1>1. PICK n \in Nat : Between(s, e, u, d, state, n)  BY DEF Echoing
<1>2. m \in Nat /\ Len(s) \in Nat  BY LenProperties
<1>3. n <= Len(s) /\ Carries(u, Part(s, n, Len(s))) /\ m <= n /\ Carries(d, Part(s, m, n))
  BY <1>1 DEF Between
<1>4. Part(s, m, n) \in Seq(Line)  BY <1>2, <1>3, PartLines
<1>5. /\ Part(s, m, n) # << >> /\ Part(s, m, n)[1] \in Line /\ r.data = Part(s, m, n)[1]
      /\ Received(d, r.len) \in Stream /\ Received(d, r.len).ended = d.ended
      /\ Carries(Received(d, r.len), Tail(Part(s, m, n)))
  BY <1>3, <1>4, PDURead
<1>6. m + 1 <= n /\ r.data = s[m + 1] /\ Tail(Part(s, m, n)) = Part(s, m + 1, n)
  BY <1>2, <1>3, <1>5, PartTail
<1>7. r.data \in Line  BY <1>5
<1>8. f \in Seq(Line) /\ Len(f) = m + 1 /\ f[m + 1] = r.data /\ \A i \in 1 .. m : f[i] = e[i]
  <2> DEFINE l == r.data
  <2>1. l \in Line  BY <1>7
  <2> HIDE DEF l
  <2>2. /\ Append(e, l) \in Seq(Line) /\ Len(Append(e, l)) = Len(e) + 1
        /\ Append(e, l)[Len(e) + 1] = l /\ \A i \in 1 .. Len(e) : Append(e, l)[i] = e[i]
    BY <2>1, AppendProperties
  <2> QED  BY <2>2 DEF l
<1> HIDE DEF r, f
<1>9. Between(s, f, u, Received(d, r.len), state, n)
  BY <1>3, <1>5, <1>6, <1>8 DEF Between
<1>10. Own(s, f)
  <2>1. m <= Len(s) /\ \A i \in 1 .. m : e[i] = s[i]  BY DEF Echoing, Own
  <2> HIDE DEF m
  <2>2. m + 1 <= Len(s)  BY <1>2, <1>3, <1>6
  <2>3. ASSUME NEW i \in 1 .. m + 1 PROVE f[i] = s[i]
    <3>1. i \in 1 .. m \/ i = m + 1  BY <1>2
    <3> QED  BY <1>6, <1>8, <2>1, <3>1
  <2> QED  BY <1>8, <2>2, <2>3 DEF Own
<1> QED  BY <1>5, <1>7, <1>9, <1>10 DEF Echoing, r, f

\* The server that reads a PDU reads the next line it has not answered; sending
\* it back puts it behind those on their way.
LEMMA EchoingAnswered ==
  ASSUME NEW s \in Seq(Line), NEW e \in Seq(Line), NEW u \in Stream, NEW d \in Stream, NEW state,
         Echoing(s, e, u, d, state), ~RecvWaits(u), RecvPDU(u).len > 0
  PROVE  LET r == RecvPDU(u)
         IN  /\ r.data \in Line
             /\ Received(u, r.len) \in Stream /\ Received(u, r.len).ended = u.ended
             /\ ~d.ended => Echoing(s, e, Received(u, r.len), Written(d, PDU(r.data)), state)
             /\ state = "gone" => Echoing(s, e, Received(u, r.len), d, state)
<1> DEFINE r == RecvPDU(u)
           m == Len(e)
           k == Len(s)
<1>1. PICK n \in Nat : Between(s, e, u, d, state, n)  BY DEF Echoing
<1>2. m \in Nat /\ k \in Nat /\ k <= k  BY LenProperties
<1>3. n <= k /\ Carries(u, Part(s, n, k)) /\ (state # "gone" => m <= n /\ Carries(d, Part(s, m, n)))
  BY <1>1 DEF Between
<1>4. Part(s, n, k) \in Seq(Line)  BY <1>2, <1>3, PartLines
<1>5. /\ Part(s, n, k) # << >> /\ Part(s, n, k)[1] \in Line /\ r.data = Part(s, n, k)[1]
      /\ Received(u, r.len) \in Stream /\ Received(u, r.len).ended = u.ended
      /\ Carries(Received(u, r.len), Tail(Part(s, n, k)))
  BY <1>3, <1>4, PDURead
<1>6. n + 1 <= k /\ r.data = s[n + 1] /\ Tail(Part(s, n, k)) = Part(s, n + 1, k)
  BY <1>2, <1>3, <1>5, PartTail
<1>7. r.data \in Line  BY <1>5
<1>8. Own(s, e) /\ n + 1 \in Nat  BY DEF Echoing
<1>9. ASSUME ~d.ended, state # "gone"
      PROVE  m <= n + 1 /\ Carries(Written(d, PDU(r.data)), Part(s, m, n + 1))
  <2>1. m <= n /\ Carries(d, Part(s, m, n))  BY <1>3, <1>9
  <2>2. Part(s, m, n) \in Seq(Line)  BY <1>2, <1>3, <2>1, PartLines
  <2>3. Append(Part(s, m, n), s[n + 1]) = Part(s, m, n + 1)  BY <1>2, <1>6, <2>1, PartMore
  <2>4. s[n + 1] \in Line  BY <1>6, <1>7
  <2>5. Carries(Written(d, PDU(s[n + 1])), Append(Part(s, m, n), s[n + 1]))
    BY <1>9, <2>1, <2>2, <2>4, WrittenCarries
  <2> HIDE DEF m
  <2>6. m <= n + 1  BY <1>2, <2>1
  <2> QED  BY <1>6, <2>3, <2>5, <2>6
<1> HIDE DEF r
<1>10. ASSUME ~d.ended PROVE Echoing(s, e, Received(u, r.len), Written(d, PDU(r.data)), state)
  <2>1. Between(s, e, Received(u, r.len), Written(d, PDU(r.data)), state, n + 1)
    BY <1>5, <1>6, <1>9, <1>10 DEF Between
  <2> QED  BY <1>8, <2>1 DEF Echoing
<1>11. ASSUME state = "gone" PROVE Echoing(s, e, Received(u, r.len), d, state)
  <2>1. Between(s, e, Received(u, r.len), d, state, n + 1)
    BY <1>5, <1>6, <1>11 DEF Between
  <2> QED  BY <1>8, <2>1 DEF Echoing
<1> QED  BY <1>5, <1>7, <1>10, <1>11 DEF r

\* recvPDU reports an end or an error only of a stream that has ended.
LEMMA EchoingEnds ==
  ASSUME NEW s \in Seq(Line), NEW e \in Seq(Line), NEW u \in Stream, NEW d, NEW state,
         Echoing(s, e, u, d, state), ~RecvWaits(u), ~ (RecvPDU(u).len > 0)
  PROVE  u.ended
<1>1. PICK n \in Nat : Between(s, e, u, d, state, n)  BY DEF Echoing
<1>2. n <= Len(s) /\ Carries(u, Part(s, n, Len(s)))  BY <1>1 DEF Between
<1>3. Part(s, n, Len(s)) \in Seq(Line)
  <2>1. Len(s) \in Nat /\ Len(s) <= Len(s)  BY LenProperties
  <2> QED  BY <1>2, <2>1, PartLines
<1> QED  BY <1>2, <1>3, PDURead

-----------------------------------------------------------------------------
(***************************************************************************)
(* The inductive invariant                                                 *)
(***************************************************************************)

Typed ==
  /\ client \in [Clients -> {"new", "up", "gone"}]
  /\ sent \in [Clients -> Seq(Line)] /\ echoed \in [Clients -> Seq(Line)]
  /\ up \in [Clients -> Stream] /\ down \in [Clients -> Stream]
  /\ broken \subseteq Clients /\ stdinOpen \in BOOLEAN
  /\ backlog \in Seq(Clients) /\ peer \in [ClientFds -> Clients \cup {Nobody}]
  /\ serving \in ClientFds \cup {Idle, Exited}

\* The poll set of a server whose descriptors are p.
Polled(p) ==
  [i \in Entries |-> IF i = ListenFd \/ (i \in ClientFds /\ p[i] # Nobody) THEN i ELSE 0]

\* A client that has connected is in the backlog once or at one descriptor, one
\* that has not is nowhere, and the poll set has the descriptors in use.
Connections ==
  /\ serving \in ClientFds => peer[serving] # Nobody
  /\ pollSet = Polled(peer)
  /\ \A i, j \in 1 .. Len(backlog) : backlog[i] = backlog[j] => i = j
  /\ \A i \in 1 .. Len(backlog) : \A fd \in ClientFds : backlog[i] # peer[fd]
  /\ \A f, g \in ClientFds : peer[f] = peer[g] /\ peer[f] # Nobody => f = g
  /\ \A c \in Clients : client[c] = "new" =>
       /\ \A i \in 1 .. Len(backlog) : backlog[i] # c
       /\ \A fd \in ClientFds : peer[fd] # c

Kept ==
  serving # Exited =>
    \A c \in Clients : client[c] = "up" =>
      (\E i \in 1 .. Len(backlog) : backlog[i] = c) \/ \E fd \in ClientFds : peer[fd] = c

\* A client that has not ended has not ended its stream, and the server ends the
\* stream to it only when the server itself ends.
Open ==
  \A c \in Clients : client[c] # "gone" =>
    ~up[c].ended /\ (serving # Exited => ~down[c].ended)

Streams ==
  \A c \in Clients : Echoing(sent[c], echoed[c], up[c], down[c], client[c])

IInv == Typed /\ Connections /\ Kept /\ Open /\ DeathExplained /\ Streams

-----------------------------------------------------------------------------
(***************************************************************************)
(* The poll set and accept                                                 *)
(***************************************************************************)

\* A set of naturals that is not empty has a least element: of the intervals
\* below its elements one is minimal.
LEMMA LeastElement ==
  ASSUME NEW S, S \subseteq Nat, S # {}
  PROVE  \E n \in S : \A m \in S : n <= m
<1> DEFINE Below(n) == 0 .. n - 1
           T == {Below(n) : n \in S}
<1>1. T \subseteq FiniteSubsetsOf(Nat)
  <2> SUFFICES ASSUME NEW n \in S PROVE Below(n) \in FiniteSubsetsOf(Nat)
    OBVIOUS
  <2>1. 0 \in Int /\ n - 1 \in Int  OBVIOUS
  <2>2. IsFiniteSet(Below(n))  BY <2>1, FS_Interval
  <2>3. Below(n) \in SUBSET Nat  BY <2>1, SMT
  <2> QED  BY <2>2, <2>3 DEF FiniteSubsetsOf
<1>2. T # {}  OBVIOUS
<1>3. PICK x \in T : \A y \in T : ~ (<<y, x>> \in StrictSubsetOrdering(Nat))
  <2> HIDE DEF T
  <2> QED  BY <1>1, <1>2, WFMin, FS_StrictSubsetOrderingWellFounded
<1>4. PICK n \in S : x = Below(n)  BY <1>3
<1>5. ASSUME NEW m \in S, m < n PROVE FALSE
  <2>1. Below(m) \subseteq Below(n) /\ Below(m) # Below(n)
    <3>1. n \in Nat /\ m \in Nat  OBVIOUS
    <3>2. m \in Below(n) /\ m \notin Below(m)  BY <3>1, <1>5
    <3> QED  BY <3>1, <3>2, <1>5
  <2>2. <<Below(m), Below(n)>> \in StrictSubsetOrdering(Nat)
    BY <2>1, SMTT(30) DEF StrictSubsetOrdering
  <2> QED  BY <1>3, <1>4, <2>2
<1> QED  BY <1>5

\* Descriptors and the special values of `serving' are apart.
LEMMA Numbers ==
  /\ \A fd \in ClientFds : fd \in Nat /\ fd > 3
  /\ Idle \notin ClientFds /\ Exited \notin ClientFds /\ Idle # Exited
  /\ Entries \subseteq Nat /\ ListenFd \in Entries /\ ListenFd \notin ClientFds
  /\ ClientFds \subseteq Entries
<1>1. \A fd \in ClientFds : fd \in Nat /\ fd > 3
  <2>1. ClientFds \subseteq Nat \ 0 .. ListenFd  BY TcpEchoAssumption, Zenon
  <2>2. \A n \in Nat \ 0 .. 3 : n > 3  OBVIOUS
  <2> QED  BY <2>1, <2>2 DEF ListenFd
<1> QED  BY <1>1 DEF Idle, Exited, Entries, ListenFd

\* pollCall reports an entry that is ready: it reads what the entry holds.
LEMMA PollReports ==
  ASSUME Typed, Connections, ReadyEntries # {}
  PROVE  /\ PollCall \in Entries
         /\ PollCall = ListenFd => backlog # << >>
         /\ PollCall \in ClientFds /\ peer[PollCall] # Nobody => Readable(up[peer[PollCall]])
         /\ PollCall # ListenFd /\ (PollCall \in ClientFds => peer[PollCall] = Nobody) => ~stdinOpen
<1>1. ReadyEntries \subseteq Nat  BY Numbers DEF ReadyEntries
<1>2. \E i \in ReadyEntries : \A j \in ReadyEntries : i <= j
  BY <1>1, LeastElement
<1>3. PollCall \in ReadyEntries  BY <1>2 DEF PollCall
<1> DEFINE i == PollCall
<1> HIDE DEF i
<1>4. i \in Entries /\ FdReady(pollSet[i])  BY <1>3 DEF ReadyEntries, i
<1>5. pollSet[i] = IF i = ListenFd \/ (i \in ClientFds /\ peer[i] # Nobody) THEN i ELSE 0
  BY <1>4 DEF Connections, Polled
<1>6. i = ListenFd => backlog # << >>
  BY <1>4, <1>5, Numbers DEF FdReady, ListenFd
<1>7. ASSUME i \in ClientFds, peer[i] # Nobody PROVE Readable(up[peer[i]])
  <2>1. i # 0 /\ i # ListenFd  BY <1>7, Numbers DEF ListenFd
  <2> QED  BY <1>4, <1>5, <1>7, <2>1 DEF FdReady
<1>8. i # ListenFd /\ (i \in ClientFds => peer[i] = Nobody) => ~stdinOpen
  <2>1. FdReady(0) => ~stdinOpen  BY DEF FdReady, ListenFd
  <2> QED  BY <1>4, <1>5, <2>1
<1> QED  BY <1>4, <1>6, <1>7, <1>8 DEF i

\* While some client has no descriptor there is one for it: the descriptors in
\* use lead to different clients, and there are as many descriptors as clients.
LEMMA AcceptFinds ==
  ASSUME Typed, Connections, NEW c \in Clients, \A fd \in ClientFds : peer[fd] # c
  PROVE  TcpAccept \in ClientFds /\ peer[TcpAccept] = Nobody
<1>1. FreeFds # {}
  <2> SUFFICES ASSUME FreeFds = {} PROVE FALSE
    OBVIOUS
  <2>1. \A fd \in ClientFds : peer[fd] \in Clients \ {c} /\ peer[fd] # Nobody
    BY DEF FreeFds, Typed
  <2> DEFINE f == [fd \in ClientFds |-> peer[fd]]
  <2>2. IsFiniteSet(Clients \ {c}) /\ IsFiniteSet(ClientFds)
    BY TcpEchoAssumption, FS_RemoveElement, ZenonT(60)
  <2>3. Cardinality(Clients \ {c}) < Cardinality(ClientFds)
    <3>1. Cardinality(Clients \ {c}) = Cardinality(Clients) - 1
      BY TcpEchoAssumption, FS_RemoveElement, ZenonT(60)
    <3>2. Cardinality(Clients) \in Nat /\ Cardinality(ClientFds) \in Nat
      BY TcpEchoAssumption, FS_CardinalityType, ZenonT(60)
    <3>3. Cardinality(ClientFds) >= Cardinality(Clients)  BY TcpEchoAssumption, Zenon
    <3> QED  BY <3>1, <3>2, <3>3
  <2>4. f \in [ClientFds -> Clients \ {c}]  BY <2>1
  <2>5. \E x, y \in ClientFds : x # y /\ f[x] = f[y]
    <3> HIDE DEF f
    <3> QED  BY <2>2, <2>3, <2>4, FS_PigeonHole
  <2>6. PICK x, y \in ClientFds : x # y /\ f[x] = f[y]  BY <2>5
  <2> QED  BY <2>1, <2>6 DEF Connections
<1>2. FreeFds \subseteq Nat  BY Numbers DEF FreeFds
<1>3. \E fd \in FreeFds : \A other \in FreeFds : fd <= other
  BY <1>1, <1>2, LeastElement
<1>4. TcpAccept \in FreeFds  BY <1>3 DEF TcpAccept
<1> QED  BY <1>4 DEF FreeFds

-----------------------------------------------------------------------------
(***************************************************************************)
(* What the steps of the clients and of TCP do                             *)
(***************************************************************************)

\* A line a user types is one the PDU layer can send.
LEMMA TypedLine ==
  \A c \in Clients : \A line \in Lines[c] : line \in Line
<1> SUFFICES ASSUME NEW c \in Clients, NEW line \in Lines[c] PROVE line \in Line
  OBVIOUS
<1>1. Lines \in [Clients -> SUBSET Seq(0 .. 255)] /\ Len(line) \in 1 .. 1024
  BY TcpEchoAssumption, ZenonT(60)
<1>2. line \in Seq(0 .. 255)  BY <1>1, ZenonT(60)
<1> DEFINE n == Len(line)
<1>3. n \in 1 .. 1024  BY <1>1
<1> HIDE DEF n
<1>4. n >= 1 /\ n <= 1024  BY <1>3
<1> QED  BY <1>2, <1>4 DEF Line, Bytes, Byte, n

\* The initial states.
LEMMA InitInv == Init => IInv
<1> SUFFICES ASSUME Init PROVE IInv
  OBVIOUS
<1>1. << >> \in Seq(Line) /\ << >> \in Seq(Clients) /\ Len(<< >>) = 0  BY EmptySeq
<1>2. NewStream \in Stream /\ ~NewStream.ended  BY NewCarries
<1>3. Typed  BY <1>1, <1>2 DEF Init, Typed
<1>4. Connections
  <2>1. pollSet = Polled(peer)
    BY Numbers DEF Init, Polled, AddToPollSet
  <2>2. 1 .. Len(backlog) = {}  BY <1>1 DEF Init
  <2>3. \A fd \in ClientFds : peer[fd] = Nobody  BY DEF Init
  <2>4. serving \notin ClientFds  BY Numbers DEF Init
  <2>5. Nobody \notin Clients  BY TcpEchoAssumption
  <2> QED  BY <2>1, <2>2, <2>3, <2>4, <2>5 DEF Connections
<1>5. Kept  BY DEF Init, Kept
<1>6. Open  BY <1>2 DEF Init, Open
<1>7. DeathExplained  BY Numbers DEF Init, DeathExplained
<1>8. Streams  BY EchoingBegins DEF Init, Streams
<1> QED  BY <1>3, <1>4, <1>5, <1>6, <1>7, <1>8 DEF IInv

\* A client connects.
LEMMA ConnectStep ==
  ASSUME IInv, NEW c \in Clients, Connect(c)
  PROVE  IInv'
<1> USE DEF IInv
<1> DEFINE n == Len(backlog)
<1>1. n \in Nat  BY LenProperties DEF Typed
<1>2. /\ backlog' \in Seq(Clients) /\ Len(backlog') = n + 1 /\ backlog'[n + 1] = c
      /\ \A i \in 1 .. n : backlog'[i] = backlog[i]
  <2>1. backlog \in Seq(Clients) /\ backlog' = Append(backlog, c)  BY DEF Typed, Connect
  <2>2. /\ Append(backlog, c) \in Seq(Clients) /\ Len(Append(backlog, c)) = Len(backlog) + 1
        /\ Append(backlog, c)[Len(backlog) + 1] = c
        /\ \A i \in 1 .. Len(backlog) : Append(backlog, c)[i] = backlog[i]
    BY <2>1, AppendProperties
  <2> QED  BY <2>1, <2>2
<1>3. /\ client[c] = "new" /\ serving # Exited
      /\ client' = [client EXCEPT ![c] = "up"]
      /\ UNCHANGED <<sent, echoed, up, down, broken, peer, pollSet, stdinOpen, serving>>
  BY DEF Connect
<1>4. Typed'  BY <1>2, <1>3 DEF Typed
<1>5. Connections'
  <2> HIDE DEF n
  <2>1. \A i \in 1 .. n + 1 : i \in 1 .. n \/ i = n + 1  BY <1>1
  <2>2. (\A i \in 1 .. n : backlog[i] # c) /\ \A fd \in ClientFds : peer[fd] # c
    BY <1>3 DEF Connections, n
  <2>3. ASSUME NEW i \in 1 .. n + 1, NEW j \in 1 .. n + 1, backlog'[i] = backlog'[j]
        PROVE  i = j
    <3>1. CASE i \in 1 .. n /\ j \in 1 .. n
      BY <1>2, <2>3, <3>1 DEF Connections, n
    <3>2. CASE i = n + 1 \/ j = n + 1  BY <1>2, <2>1, <2>2, <2>3, <3>2
    <3> QED  BY <2>1, <3>1, <3>2
  <2>4. ASSUME NEW i \in 1 .. n + 1, NEW fd \in ClientFds PROVE backlog'[i] # peer[fd]
    <3>1. CASE i \in 1 .. n  BY <1>2, <3>1 DEF Connections, n
    <3>2. CASE i = n + 1  BY <1>2, <2>2, <3>2
    <3> QED  BY <2>1, <3>1, <3>2
  <2>5. ASSUME NEW x \in Clients, client'[x] = "new"
        PROVE  /\ \A i \in 1 .. n + 1 : backlog'[i] # x
               /\ \A fd \in ClientFds : peer[fd] # x
    <3>1. x # c /\ client[x] = "new"  BY <1>3, <2>5 DEF Typed
    <3>2. (\A i \in 1 .. n : backlog[i] # x) /\ \A fd \in ClientFds : peer[fd] # x
      BY <3>1 DEF Connections, n
    <3> QED  BY <1>2, <2>1, <3>1, <3>2
  <2>6. /\ serving \in ClientFds => peer[serving] # Nobody
        /\ pollSet = Polled(peer)
        /\ \A f, g \in ClientFds : peer[f] = peer[g] /\ peer[f] # Nobody => f = g
    BY DEF Connections
  <2> QED  BY <1>2, <1>3, <2>3, <2>4, <2>5, <2>6 DEF Connections, Polled
<1>6. Kept'
  <2> HIDE DEF n
  <2> SUFFICES ASSUME NEW x \in Clients, client'[x] = "up"
               PROVE  (\E i \in 1 .. n + 1 : backlog'[i] = x) \/ \E fd \in ClientFds : peer[fd] = x
    BY <1>2, <1>3 DEF Kept
  <2>1. n + 1 \in 1 .. n + 1 /\ \A i \in 1 .. n : i \in 1 .. n + 1  BY <1>1
  <2>2. CASE x = c  BY <1>2, <2>1, <2>2
  <2>3. CASE x # c
    <3>1. client[x] = "up"  BY <1>3, <2>3 DEF Typed
    <3>2. (\E i \in 1 .. n : backlog[i] = x) \/ \E fd \in ClientFds : peer[fd] = x
      BY <1>3, <3>1 DEF Kept, n
    <3> QED  BY <1>2, <2>1, <3>2
  <2> QED  BY <2>2, <2>3
<1>7. Open'
  <2> SUFFICES ASSUME NEW x \in Clients, client'[x] # "gone"
               PROVE  ~up[x].ended /\ (serving # Exited => ~down[x].ended)
    BY <1>3 DEF Open
  <2>1. client[x] # "gone"  BY <1>3 DEF Typed
  <2> QED  BY <2>1 DEF Open
<1>8. DeathExplained'  BY <1>3 DEF DeathExplained
<1>9. Streams'
  <2> SUFFICES ASSUME NEW x \in Clients
               PROVE  Echoing(sent[x], echoed[x], up[x], down[x], client'[x])
    BY <1>3 DEF Streams
  <2>1. Echoing(sent[x], echoed[x], up[x], down[x], client[x])  BY DEF Streams
  <2>2. client'[x] = client[x] \/ client[x] # "gone"  BY <1>3 DEF Typed
  <2> QED  BY <2>1, <2>2, EchoingMoved
<1> QED  BY <1>4, <1>5, <1>6, <1>7, <1>8, <1>9

\* A step that moves no connection: Connections and Kept stay, whichever clients
\* end and however the server goes on, unless it takes up a descriptor.
LEMMA ConnectionsStay ==
  ASSUME Typed, Connections, Kept, UNCHANGED <<backlog, peer, pollSet>>,
         serving' \in {serving, Idle, Exited}, serving = Exited => serving' = Exited,
         \A x \in Clients : client'[x] \in {client[x], "gone"}
  PROVE  Connections' /\ Kept'
<1>1. Connections'  BY Numbers DEF Connections, Polled
<1>2. Kept'
  <2> SUFFICES ASSUME serving' # Exited, NEW x \in Clients, client'[x] = "up"
               PROVE  \/ \E i \in 1 .. Len(backlog) : backlog[i] = x
                      \/ \E fd \in ClientFds : peer[fd] = x
    BY DEF Kept
  <2>1. client[x] = "up" /\ serving # Exited  OBVIOUS
  <2> QED  BY <2>1 DEF Kept
<1> QED  BY <1>1, <1>2

\* A user types a line.
LEMMA StdinStep ==
  ASSUME IInv, NEW c \in Clients, ProcessStdin(c)
  PROVE  IInv'
<1> USE DEF IInv
<1>1. PICK line \in Lines[c] : /\ sent' = [sent EXCEPT ![c] = Append(@, line)]
                               /\ up' = [up EXCEPT ![c] = Written(@, PDU(line))]
  BY DEF ProcessStdin
<1>2. /\ client[c] = "up" /\ serving # Exited
      /\ UNCHANGED <<client, echoed, down, broken, backlog, peer, pollSet, stdinOpen, serving>>
  BY DEF ProcessStdin
<1>3. /\ line \in Line /\ sent[c] \in Seq(Line) /\ echoed[c] \in Seq(Line) /\ up[c] \in Stream
      /\ ~up[c].ended /\ Echoing(sent[c], echoed[c], up[c], down[c], client[c])
  BY <1>2, TypedLine DEF Typed, Open, Streams
<1> DEFINE t == Append(sent[c], line)
           v == Written(up[c], PDU(line))
<1>4. t \in Seq(Line)  BY <1>3, AppendProperties
<1>5. v \in Stream /\ ~v.ended  BY <1>3, WrittenOpen
<1>6. Echoing(t, echoed[c], v, down[c], client[c])  BY <1>3, EchoingSent
<1>7. /\ sent'[c] = t /\ up'[c] = v
      /\ \A x \in Clients \ {c} : sent'[x] = sent[x] /\ up'[x] = up[x]
      /\ sent' = [sent EXCEPT ![c] = t] /\ up' = [up EXCEPT ![c] = v]
  BY <1>1 DEF Typed
<1> HIDE DEF t, v
<1>8. Typed'  BY <1>2, <1>4, <1>5, <1>7 DEF Typed
<1>9. Connections' /\ Kept'  BY <1>2, ConnectionsStay
<1>10. Open'  BY <1>2, <1>5, <1>7 DEF Open
<1>11. DeathExplained'  BY <1>2 DEF DeathExplained
<1>12. Streams'
  <2> SUFFICES ASSUME NEW x \in Clients
               PROVE  Echoing(sent'[x], echoed[x], up'[x], down[x], client[x])
    BY <1>2 DEF Streams
  <2>1. CASE x = c  BY <1>6, <1>7, <2>1
  <2>2. CASE x # c  BY <1>7, <2>2 DEF Streams
  <2> QED  BY <2>1, <2>2
<1> QED  BY <1>8, <1>9, <1>10, <1>11, <1>12

\* A client reads an echo, or the end of the stream.
LEMMA ReadStep ==
  ASSUME IInv, NEW c \in Clients, ProcessMsgFromServer(c)
  PROVE  IInv'
<1> USE DEF IInv
<1> DEFINE r == RecvPDU(down[c])
           f == Append(echoed[c], r.data)
           v == Received(down[c], r.len)
<1>1. /\ client[c] = "up" /\ ~RecvWaits(down[c])
      /\ UNCHANGED <<sent, up, broken, backlog, peer, pollSet, stdinOpen, serving>>
  BY DEF ProcessMsgFromServer
<1>2. /\ sent[c] \in Seq(Line) /\ echoed[c] \in Seq(Line) /\ down[c] \in Stream
      /\ Echoing(sent[c], echoed[c], up[c], down[c], client[c])
  BY DEF Typed, Streams
<1>3. CASE r.len > 0
  <2>1. /\ echoed' = [echoed EXCEPT ![c] = f] /\ down' = [down EXCEPT ![c] = v]
        /\ client' = client
    BY <1>3 DEF ProcessMsgFromServer
  <2>2. /\ r.data \in Line /\ v \in Stream /\ v.ended = down[c].ended
        /\ Echoing(sent[c], f, up[c], v, client[c])
    BY <1>1, <1>2, <1>3, EchoingHeard
  <2>3. f \in Seq(Line)
    <3> HIDE DEF r
    <3> QED  BY <1>2, <2>2, AppendProperties
  <2> HIDE DEF r, f, v
  <2>4. /\ echoed'[c] = f /\ down'[c] = v
        /\ \A x \in Clients \ {c} : echoed'[x] = echoed[x] /\ down'[x] = down[x]
    BY <2>1 DEF Typed
  <2>5. Typed'  BY <1>1, <2>1, <2>2, <2>3 DEF Typed
  <2>6. Connections' /\ Kept'  BY <1>1, <2>1, ConnectionsStay
  <2>7. Open'  BY <1>1, <2>1, <2>2, <2>4 DEF Open
  <2>8. DeathExplained'  BY <1>1 DEF DeathExplained
  <2>9. Streams'
    <3> SUFFICES ASSUME NEW x \in Clients
                 PROVE  Echoing(sent[x], echoed'[x], up[x], down'[x], client[x])
      BY <1>1, <2>1 DEF Streams
    <3>1. CASE x = c  BY <2>2, <2>4, <3>1
    <3>2. CASE x # c  BY <2>4, <3>2 DEF Streams
    <3> QED  BY <3>1, <3>2
  <2> QED  BY <2>5, <2>6, <2>7, <2>8, <2>9
<1>4. CASE ~ (r.len > 0)
  <2>1. client' = [client EXCEPT ![c] = "gone"] /\ UNCHANGED <<echoed, down>>
    BY <1>4 DEF ProcessMsgFromServer
  <2>2. client'[c] = "gone" /\ \A x \in Clients \ {c} : client'[x] = client[x]
    BY <2>1 DEF Typed
  <2>3. Typed'  BY <1>1, <2>1 DEF Typed
  <2>4. Connections' /\ Kept'
    <3>1. \A x \in Clients : client'[x] \in {client[x], "gone"}  BY <2>2
    <3> QED  BY <1>1, <3>1, ConnectionsStay
  <2>5. Open'  BY <1>1, <2>1, <2>2 DEF Open
  <2>6. DeathExplained'  BY <1>1 DEF DeathExplained
  <2>7. Streams'
    <3> SUFFICES ASSUME NEW x \in Clients
                 PROVE  Echoing(sent[x], echoed[x], up[x], down[x], client'[x])
      BY <1>1, <2>1 DEF Streams
    <3>1. Echoing(sent[x], echoed[x], up[x], down[x], client[x])  BY DEF Streams
    <3>2. client'[x] = "gone" \/ client'[x] = client[x]  BY <2>2
    <3> QED  BY <3>1, <3>2, EchoingMoved
  <2> QED  BY <2>3, <2>4, <2>5, <2>6, <2>7
<1> QED  BY <1>3, <1>4

\* A client ends; the last of what it sent may be lost.
LEMMA InterruptedStep ==
  ASSUME IInv, NEW c \in Clients, Interrupted(c)
  PROVE  IInv'
<1> USE DEF IInv
<1>1. PICK end \in Endings(up[c]) : up' = [up EXCEPT ![c] = end]
  BY DEF Interrupted
<1>2. /\ client' = [client EXCEPT ![c] = "gone"]
      /\ broken \subseteq broken' /\ broken' \subseteq broken \cup {c}
      /\ down' = [down EXCEPT ![c] = NewStream]
      /\ UNCHANGED <<sent, echoed, backlog, peer, pollSet, stdinOpen, serving>>
  BY DEF Interrupted
<1>3. end \in Stream /\ \A ls : Carries(up[c], ls) => Carries(end, ls)
  BY EndingCarries DEF Typed
<1>4. /\ client'[c] = "gone" /\ up'[c] = end
      /\ \A x \in Clients \ {c} : client'[x] = client[x] /\ up'[x] = up[x] /\ down'[x] = down[x]
  BY <1>1, <1>2 DEF Typed
<1>5. Typed'  BY <1>1, <1>2, <1>3, NewCarries DEF Typed
<1>6. Connections' /\ Kept'
  <2>1. \A x \in Clients : client'[x] \in {client[x], "gone"}  BY <1>4
  <2> QED  BY <1>2, <2>1, ConnectionsStay
<1>7. Open'
  <2> SUFFICES ASSUME NEW x \in Clients, client'[x] # "gone"
               PROVE  ~up'[x].ended /\ (serving # Exited => ~down'[x].ended)
    BY <1>2 DEF Open
  <2>1. x # c  BY <1>4
  <2> QED  BY <1>4, <2>1 DEF Open
<1>8. DeathExplained'  BY <1>2 DEF DeathExplained
<1>9. Streams'
  <2> SUFFICES ASSUME NEW x \in Clients
               PROVE  Echoing(sent[x], echoed[x], up'[x], down'[x], client'[x])
    BY <1>2 DEF Streams
  <2>1. Echoing(sent[x], echoed[x], up[x], down[x], client[x])  BY DEF Streams
  <2>2. CASE x = c  BY <1>3, <1>4, <2>1, <2>2, EchoingMoved
  <2>3. CASE x # c  BY <1>4, <2>1, <2>3
  <2> QED  BY <2>2, <2>3
<1> QED  BY <1>5, <1>6, <1>7, <1>8, <1>9

\* TCP delivers some bytes of a stream.
LEMMA DeliverStep ==
  ASSUME IInv, NEW c \in Clients, Deliver(c)
  PROVE  IInv'
<1> USE DEF IInv
<1>1. UNCHANGED <<client, sent, echoed, broken, backlog, peer, pollSet, stdinOpen, serving>>
  BY DEF Deliver
<1>2. PICK v, d : /\ up' = [up EXCEPT ![c] = v] /\ down' = [down EXCEPT ![c] = d]
                  /\ v \in Deliveries(up[c]) \cup {up[c]} /\ d \in Deliveries(down[c]) \cup {down[c]}
  <2>1. CASE \E s \in Deliveries(up[c]) : up' = [up EXCEPT ![c] = s] /\ UNCHANGED down
    <3>1. PICK s \in Deliveries(up[c]) : up' = [up EXCEPT ![c] = s] /\ UNCHANGED down  BY <2>1
    <3>2. down' = [down EXCEPT ![c] = down[c]]  BY <3>1 DEF Typed
    <3> QED  BY <3>1, <3>2
  <2>2. CASE \E s \in Deliveries(down[c]) : down' = [down EXCEPT ![c] = s] /\ UNCHANGED up
    <3>1. PICK s \in Deliveries(down[c]) : down' = [down EXCEPT ![c] = s] /\ UNCHANGED up  BY <2>2
    <3>2. up' = [up EXCEPT ![c] = up[c]]  BY <3>1 DEF Typed
    <3> QED  BY <3>1, <3>2
  <2> QED  BY <2>1, <2>2 DEF Deliver
<1>3. up[c] \in Stream /\ down[c] \in Stream  BY DEF Typed
<1>4. /\ v \in Stream /\ v.ended = up[c].ended /\ \A ls : Carries(up[c], ls) => Carries(v, ls)
  BY <1>2, <1>3, DeliveryCarries
<1>5. /\ d \in Stream /\ d.ended = down[c].ended /\ \A ls : Carries(down[c], ls) => Carries(d, ls)
  BY <1>2, <1>3, DeliveryCarries
<1>6. /\ up'[c] = v /\ down'[c] = d
      /\ \A x \in Clients \ {c} : up'[x] = up[x] /\ down'[x] = down[x]
  BY <1>2 DEF Typed
<1>7. Typed'  BY <1>1, <1>2, <1>4, <1>5 DEF Typed
<1>8. Connections' /\ Kept'  BY <1>1, ConnectionsStay
<1>9. Open'  BY <1>1, <1>4, <1>5, <1>6 DEF Open
<1>10. DeathExplained'  BY <1>1 DEF DeathExplained
<1>11. Streams'
  <2> SUFFICES ASSUME NEW x \in Clients
               PROVE  Echoing(sent[x], echoed[x], up'[x], down'[x], client[x])
    BY <1>1 DEF Streams
  <2>1. Echoing(sent[x], echoed[x], up[x], down[x], client[x])  BY DEF Streams
  <2>2. CASE x = c  BY <1>4, <1>5, <1>6, <2>1, <2>2, EchoingMoved
  <2>3. CASE x # c  BY <1>6, <2>1, <2>3
  <2> QED  BY <2>2, <2>3
<1> QED  BY <1>7, <1>8, <1>9, <1>10, <1>11

-----------------------------------------------------------------------------
(***************************************************************************)
(* What the steps of the server do                                         *)
(***************************************************************************)

\* The server ends for one of the two reasons.
LEMMA ServerExitsStep ==
  ASSUME IInv, ServerExits, ~stdinOpen \/ broken # {}
  PROVE  IInv'
<1> USE DEF IInv
<1>1. PICK ends \in [Clients -> UNION {Endings(down[c]) : c \in Clients}] :
        down' = ends /\ \A c \in Clients : ends[c] \in Endings(down[c])
  BY DEF ServerExits
<1>2. /\ serving' = Exited
      /\ UNCHANGED <<client, sent, echoed, up, broken, backlog, peer, pollSet, stdinOpen>>
  BY DEF ServerExits
<1>3. \A c \in Clients : /\ down'[c] \in Stream
                         /\ \A ls : Carries(down[c], ls) => Carries(down'[c], ls)
  BY <1>1, EndingCarries DEF Typed
<1>4. down' \in [Clients -> Stream]
  <2>1. down' = [c \in Clients |-> down'[c]]  BY <1>1
  <2> QED  BY <1>3, <2>1
<1>5. Typed'  BY <1>2, <1>4 DEF Typed
<1>6. Connections' /\ Kept'  BY <1>2, ConnectionsStay
<1>7. Open'  BY <1>2 DEF Open
<1>8. DeathExplained'  BY <1>2 DEF DeathExplained
<1>9. Streams'
  <2> SUFFICES ASSUME NEW x \in Clients
               PROVE  Echoing(sent[x], echoed[x], up[x], down'[x], client[x])
    BY <1>2 DEF Streams
  <2>1. Echoing(sent[x], echoed[x], up[x], down[x], client[x])  BY DEF Streams
  <2> QED  BY <1>3, <2>1, EchoingMoved
<1> QED  BY <1>5, <1>6, <1>7, <1>8, <1>9

\* pollCall returns an unused entry: its fd 0 has hung up.
LEMMA PolledInVainStep ==
  ASSUME IInv, PolledInVain
  PROVE  IInv'
<1>1. ~stdinOpen  BY PollReports DEF PolledInVain, IInv
<1> QED  BY <1>1, ServerExitsStep DEF PolledInVain

\* A write to a client that is known to have ended.
LEMMA EchoKillsStep ==
  ASSUME IInv, EchoKills
  PROVE  IInv'
<1>1. broken # {}  BY DEF EchoKills
<1> QED  BY <1>1, ServerExitsStep DEF EchoKills

\* Standard input hangs up.
LEMMA StdinHangsUpStep ==
  ASSUME IInv, StdinHangsUp
  PROVE  IInv'
<1> USE DEF IInv
<1>1. /\ stdinOpen' = FALSE
      /\ UNCHANGED <<client, sent, echoed, up, down, broken, backlog, peer, pollSet, serving>>
  BY DEF StdinHangsUp
<1>2. Typed'  BY <1>1 DEF Typed
<1>3. Connections' /\ Kept'  BY <1>1, ConnectionsStay
<1>4. Open' /\ Streams'  BY <1>1 DEF Open, Streams
<1>5. DeathExplained'  BY <1>1 DEF DeathExplained
<1> QED  BY <1>2, <1>3, <1>4, <1>5

\* accept: the first of the backlog gets a free descriptor.
LEMMA AddNewSocketStep ==
  ASSUME IInv, AddNewSocket
  PROVE  IInv'
<1> USE DEF IInv
<1> DEFINE f == TcpAccept
           h == Head(backlog)
           n == Len(backlog)
<1>1. /\ serving = Idle /\ backlog # << >>
      /\ peer' = [peer EXCEPT ![f] = h] /\ pollSet' = [pollSet EXCEPT ![f] = f]
      /\ backlog' = Tail(backlog)
      /\ UNCHANGED <<client, sent, echoed, up, down, broken, stdinOpen, serving>>
  BY PollReports DEF AddNewSocket, AddToPollSet
<1>2. /\ n \in Nat \ {0} /\ h \in Clients /\ h = backlog[1]
      /\ backlog' \in Seq(Clients) /\ Len(backlog') = n - 1
      /\ \A i \in 1 .. n - 1 : backlog'[i] = backlog[i + 1]
  <2>1. backlog \in Seq(Clients)  BY DEF Typed
  <2>2. n \in Nat \ {0}  BY <1>1, <2>1, EmptySeq, LenProperties
  <2>3. h \in Clients /\ Tail(backlog) \in Seq(Clients) /\ Len(Tail(backlog)) = n - 1
        /\ \A i \in 1 .. Len(Tail(backlog)) : Tail(backlog)[i] = backlog[i + 1]
    BY <1>1, <2>1, HeadTailProperties
  <2> QED  BY <1>1, <2>2, <2>3
<1>3. /\ \A fd \in ClientFds : peer[fd] # h
      /\ 1 \in 1 .. n /\ h # Nobody
  <2>1. 1 \in 1 .. n
    <3> HIDE DEF n
    <3> QED  BY <1>2
  <2>2. h = backlog[1] /\ h \in Clients  BY <1>2
  <2> HIDE DEF h
  <2>3. \A fd \in ClientFds : peer[fd] # backlog[1]  BY <2>1 DEF Connections
  <2>4. h # Nobody  BY <2>2, TcpEchoAssumption, ZenonT(60)
  <2> QED  BY <2>1, <2>2, <2>3, <2>4
<1>4. f \in ClientFds /\ peer[f] = Nobody  BY <1>2, <1>3, AcceptFinds
<1> HIDE DEF f, h
<1>5. peer'[f] = h /\ \A fd \in ClientFds \ {f} : peer'[fd] = peer[fd]
  BY <1>1, <1>4 DEF Typed
<1>6. Typed'  BY <1>1, <1>2, <1>4 DEF Typed
<1>7. pollSet' = Polled(peer')
  <2>1. pollSet = Polled(peer)  BY DEF Connections
  <2>2. f \in Entries  BY <1>4, Numbers
  <2>3. ASSUME NEW i \in Entries
        PROVE  [pollSet EXCEPT ![f] = f][i] =
                 IF i = ListenFd \/ (i \in ClientFds /\ peer'[i] # Nobody) THEN i ELSE 0
    <3>1. CASE i = f  BY <1>3, <1>4, <1>5, <2>1, <2>2, <3>1 DEF Polled
    <3>2. CASE i # f  BY <1>5, <2>1, <3>2 DEF Polled
    <3> QED  BY <3>1, <3>2
  <2>4. [pollSet EXCEPT ![f] = f] = [i \in Entries |-> [pollSet EXCEPT ![f] = f][i]]
    BY <2>1 DEF Polled
  <2> QED  BY <1>1, <2>3, <2>4 DEF Polled
<1>8. Connections'
  <2> HIDE DEF n
  <2>1. \A i \in 1 .. n - 1 : i + 1 \in 1 .. n /\ i + 1 # 1  BY <1>2
  <2>2. ASSUME NEW i \in 1 .. n - 1, NEW j \in 1 .. n - 1, backlog'[i] = backlog'[j]
        PROVE  i = j
    <3>1. backlog[i + 1] = backlog[j + 1]  BY <1>2, <2>2
    <3>2. i + 1 = j + 1  BY <2>1, <3>1 DEF Connections, n
    <3> QED  BY <1>2, <3>2
  <2>3. ASSUME NEW i \in 1 .. n - 1 PROVE backlog'[i] # h
    <3>1. backlog[i + 1] # backlog[1]  BY <1>3, <2>1 DEF Connections, n
    <3> QED  BY <1>2, <3>1
  <2>4. ASSUME NEW i \in 1 .. n - 1, NEW fd \in ClientFds PROVE backlog'[i] # peer'[fd]
    <3>1. backlog[i + 1] # peer[fd]  BY <2>1 DEF Connections, n
    <3> QED  BY <1>2, <1>5, <2>3, <3>1
  <2>5. ASSUME NEW a \in ClientFds, NEW b \in ClientFds, peer'[a] = peer'[b], peer'[a] # Nobody
        PROVE  a = b
    <3>1. CASE a # f /\ b # f  BY <1>5, <2>5, <3>1 DEF Connections
    <3>2. CASE a = f \/ b = f  BY <1>3, <1>5, <2>5, <3>2
    <3> QED  BY <3>1, <3>2
  <2>6. ASSUME NEW x \in Clients, client[x] = "new"
        PROVE  /\ \A i \in 1 .. n - 1 : backlog'[i] # x
               /\ \A fd \in ClientFds : peer'[fd] # x
    <3>1. (\A i \in 1 .. n : backlog[i] # x) /\ \A fd \in ClientFds : peer[fd] # x
      BY <2>6 DEF Connections, n
    <3>2. x # h  BY <1>2, <1>3, <3>1
    <3> QED  BY <1>2, <1>5, <2>1, <3>1, <3>2
  <2>7. serving' \notin ClientFds  BY <1>1, Numbers
  <2> QED  BY <1>1, <1>2, <1>7, <2>2, <2>4, <2>5, <2>6, <2>7, ZenonT(60) DEF Connections
<1>9. Kept'
  <2> HIDE DEF n
  <2> SUFFICES ASSUME NEW x \in Clients, client[x] = "up"
               PROVE  \/ \E i \in 1 .. n - 1 : backlog'[i] = x
                      \/ \E fd \in ClientFds : peer'[fd] = x
    BY <1>1, <1>2 DEF Kept
  <2>1. (\E i \in 1 .. n : backlog[i] = x) \/ \E fd \in ClientFds : peer[fd] = x
    BY <1>1, Numbers DEF Kept, n
  <2>2. CASE \E fd \in ClientFds : peer[fd] = x
    <3>1. PICK fd \in ClientFds : peer[fd] = x  BY <2>2
    <3>2. fd # f  BY <1>4, <3>1, TcpEchoAssumption
    <3> QED  BY <1>5, <3>1, <3>2
  <2>3. CASE \E i \in 1 .. n : backlog[i] = x
    <3>1. PICK i \in 1 .. n : backlog[i] = x  BY <2>3
    <3>2. CASE i = 1  BY <1>2, <1>4, <1>5, <3>1, <3>2
    <3>3. CASE i # 1
      <4>1. i - 1 \in 1 .. n - 1 /\ (i - 1) + 1 = i  BY <1>2, <3>3
      <4>2. backlog'[i - 1] = x  BY <1>2, <3>1, <4>1
      <4> QED  BY <4>1, <4>2
    <3> QED  BY <3>2, <3>3
  <2> QED  BY <2>1, <2>2, <2>3
<1>10. Open' /\ Streams'  BY <1>1 DEF Open, Streams
<1>11. DeathExplained'  BY <1>1 DEF DeathExplained
<1> QED  BY <1>6, <1>8, <1>9, <1>10, <1>11

\* The server turns to a client that has sent something.
LEMMA PolledClientStep ==
  ASSUME IInv, PolledClient
  PROVE  IInv'
<1> USE DEF IInv
<1>1. /\ serving = Idle /\ serving' \in ClientFds /\ peer[serving'] # Nobody
      /\ UNCHANGED <<client, sent, echoed, up, down, broken, backlog, peer, pollSet, stdinOpen>>
  BY DEF PolledClient
<1>2. serving # Exited /\ serving' # Exited  BY <1>1, Numbers
<1>3. Typed'  BY <1>1 DEF Typed
<1>4. Connections'  BY <1>1 DEF Connections, Polled
<1>5. Kept' /\ Open' /\ Streams'  BY <1>1, <1>2 DEF Kept, Open, Streams
<1>6. DeathExplained'  BY <1>2 DEF DeathExplained
<1> QED  BY <1>3, <1>4, <1>5, <1>6

\* The client at the descriptor being served.
LEMMA Served ==
  ASSUME Typed, Connections, serving \in ClientFds
  PROVE  /\ peer[serving] \in Clients /\ client[peer[serving]] \in {"up", "gone"}
         /\ serving # Exited /\ serving # Idle
<1>1. peer[serving] \in Clients  BY DEF Typed, Connections
<1>2. client[peer[serving]] # "new"  BY <1>1 DEF Connections
<1> QED  BY <1>1, <1>2, Numbers DEF Typed

\* The server sends a line back.
LEMMA EchoStep ==
  ASSUME IInv, Echo
  PROVE  IInv'
<1> USE DEF IInv
<1> DEFINE c == peer[serving]
           r == RecvPDU(up[c])
           v == Received(up[c], r.len)
<1>1. /\ serving \in ClientFds /\ ~RecvWaits(up[c]) /\ r.len > 0 /\ serving' = Idle
      /\ up' = [up EXCEPT ![c] = v]
      /\ \/ client[c] = "up" /\ down' = [down EXCEPT ![c] = Written(@, PDU(r.data))] /\ UNCHANGED broken
         \/ client[c] # "up" /\ broken' = broken \cup {c} /\ UNCHANGED down
      /\ UNCHANGED <<client, sent, echoed, backlog, peer, pollSet, stdinOpen>>
  BY DEF Echo
<1>2. /\ c \in Clients /\ client[c] \in {"up", "gone"} /\ serving # Exited
  BY <1>1, Served
<1>3. /\ sent[c] \in Seq(Line) /\ echoed[c] \in Seq(Line) /\ up[c] \in Stream /\ down[c] \in Stream
      /\ Echoing(sent[c], echoed[c], up[c], down[c], client[c])
  BY <1>2 DEF Typed, Streams
<1> HIDE DEF c
<1>4. /\ r.data \in Line /\ v \in Stream /\ v.ended = up[c].ended
      /\ ~down[c].ended => Echoing(sent[c], echoed[c], v, Written(down[c], PDU(r.data)), client[c])
      /\ client[c] = "gone" => Echoing(sent[c], echoed[c], v, down[c], client[c])
  BY <1>1, <1>3, EchoingAnswered
<1>5. PICK d : /\ down' = [down EXCEPT ![c] = d] /\ d \in Stream
               /\ client[c] = "up" => ~d.ended
               /\ Echoing(sent[c], echoed[c], v, d, client[c])
  <2> HIDE DEF r, v
  <2>1. CASE client[c] = "up"
    <3>1. down' = [down EXCEPT ![c] = Written(down[c], PDU(r.data))]  BY <1>1, <2>1
    <3>2. ~down[c].ended  BY <1>2, <2>1 DEF Open
    <3>3. Written(down[c], PDU(r.data)) \in Stream /\ ~Written(down[c], PDU(r.data)).ended
      BY <1>3, <1>4, <3>2, WrittenOpen
    <3> QED  BY <1>4, <3>1, <3>2, <3>3
  <2>2. CASE client[c] # "up"
    <3>1. down' = [down EXCEPT ![c] = down[c]]  BY <1>1, <2>2 DEF Typed
    <3> QED  BY <1>2, <1>3, <1>4, <2>2, <3>1
  <2> QED  BY <2>1, <2>2
<1>6. broken' \subseteq Clients  BY <1>1, <1>2 DEF Typed
<1> HIDE DEF r, v
<1>7. /\ up'[c] = v /\ down'[c] = d
      /\ \A x \in Clients \ {c} : up'[x] = up[x] /\ down'[x] = down[x]
  BY <1>1, <1>2, <1>5 DEF Typed
<1>8. Typed'  BY <1>1, <1>4, <1>5, <1>6 DEF Typed
<1>9. Connections' /\ Kept'
  BY <1>1, <1>2, ConnectionsStay
<1>10. Open'
  <2> SUFFICES ASSUME NEW x \in Clients, client[x] # "gone"
               PROVE  ~up'[x].ended /\ ~down'[x].ended
    BY <1>1 DEF Open
  <2>1. CASE x = c  BY <1>2, <1>4, <1>5, <1>7, <2>1 DEF Open
  <2>2. CASE x # c  BY <1>2, <1>7, <2>2 DEF Open
  <2> QED  BY <2>1, <2>2
<1>11. DeathExplained'  BY <1>1, Numbers DEF DeathExplained
<1>12. Streams'
  <2> SUFFICES ASSUME NEW x \in Clients
               PROVE  Echoing(sent[x], echoed[x], up'[x], down'[x], client[x])
    BY <1>1 DEF Streams
  <2>1. CASE x = c  BY <1>5, <1>7, <2>1
  <2>2. CASE x # c  BY <1>7, <2>2 DEF Streams
  <2> QED  BY <2>1, <2>2
<1> QED  BY <1>8, <1>9, <1>10, <1>11, <1>12

\* The server closes the connection of a client that has ended.
LEMMA CleanupStep ==
  ASSUME IInv, CleanupClient
  PROVE  IInv'
<1> USE DEF IInv
<1> DEFINE c == peer[serving]
           f == serving
<1>1. /\ f \in ClientFds /\ ~RecvWaits(up[c]) /\ RecvPDU(up[c]).len <= 0 /\ serving' = Idle
      /\ pollSet' = [pollSet EXCEPT ![f] = 0] /\ peer' = [peer EXCEPT ![f] = Nobody]
      /\ \E end \in Endings(down[c]) : down' = [down EXCEPT ![c] = end]
      /\ UNCHANGED <<client, sent, echoed, up, broken, backlog, stdinOpen>>
  BY DEF CleanupClient, RemoveFromPollSet
<1>2. c \in Clients /\ client[c] \in {"up", "gone"} /\ serving # Exited  BY <1>1, Served
<1>3. /\ sent[c] \in Seq(Line) /\ echoed[c] \in Seq(Line) /\ up[c] \in Stream /\ down[c] \in Stream
      /\ Echoing(sent[c], echoed[c], up[c], down[c], client[c])
  BY <1>2 DEF Typed, Streams
<1> HIDE DEF c, f
<1>4. client[c] = "gone"
  <2>1. up[c].ended
    <3>1. ~ (RecvPDU(up[c]).len > 0)
      <4>1. \A k : k \in Int /\ k <= 0 => ~ (k > 0)  OBVIOUS
      <4>2. RecvPDU(up[c]).len \in Int  BY <1>1, <1>3, ReadLength
      <4> QED  BY <1>1, <4>1, <4>2
    <3> QED  BY <1>1, <1>3, <3>1, EchoingEnds
  <2> QED  BY <1>2, <2>1 DEF Open
<1>5. PICK end \in Endings(down[c]) : down' = [down EXCEPT ![c] = end]  BY <1>1
<1>6. end \in Stream /\ \A ls : Carries(down[c], ls) => Carries(end, ls)
  BY <1>3, EndingCarries
<1>7. /\ down'[c] = end /\ \A x \in Clients \ {c} : down'[x] = down[x]
      /\ peer'[f] = Nobody /\ \A fd \in ClientFds \ {f} : peer'[fd] = peer[fd]
  BY <1>1, <1>2, <1>5 DEF Typed
<1>8. Typed'  BY <1>1, <1>5, <1>6 DEF Typed
<1>9. pollSet' = Polled(peer')
  <2>1. pollSet = Polled(peer)  BY DEF Connections
  <2>2. ASSUME NEW i \in Entries
        PROVE  [pollSet EXCEPT ![f] = 0][i] =
                 IF i = ListenFd \/ (i \in ClientFds /\ peer'[i] # Nobody) THEN i ELSE 0
    <3>1. CASE i = f  BY <1>1, <1>7, <2>1, <3>1, Numbers DEF Polled
    <3>2. CASE i # f  BY <1>7, <2>1, <3>2 DEF Polled
    <3> QED  BY <3>1, <3>2
  <2>3. [pollSet EXCEPT ![f] = 0] = [i \in Entries |-> [pollSet EXCEPT ![f] = 0][i]]
    BY <2>1 DEF Polled
  <2> QED  BY <1>1, <2>2, <2>3 DEF Polled
<1>10. Connections'
  <2>1. Nobody \notin Clients  BY TcpEchoAssumption
  <2>2. ASSUME NEW i \in 1 .. Len(backlog), NEW fd \in ClientFds PROVE backlog[i] # peer'[fd]
    <3>1. backlog[i] \in Clients  BY ElementOfSeq DEF Typed
    <3>2. backlog[i] # peer[fd]  BY DEF Connections
    <3> QED  BY <1>7, <2>1, <3>1, <3>2
  <2>3. ASSUME NEW a \in ClientFds, NEW b \in ClientFds, peer'[a] = peer'[b], peer'[a] # Nobody
        PROVE  a = b
    <3>1. a # f /\ b # f  BY <1>7, <2>3
    <3> QED  BY <1>7, <2>3, <3>1 DEF Connections
  <2>4. ASSUME NEW x \in Clients, client[x] = "new"
        PROVE  /\ \A i \in 1 .. Len(backlog) : backlog[i] # x
               /\ \A fd \in ClientFds : peer'[fd] # x
    <3>1. (\A i \in 1 .. Len(backlog) : backlog[i] # x) /\ \A fd \in ClientFds : peer[fd] # x
      BY <2>4 DEF Connections
    <3> QED  BY <1>7, <2>1, <3>1
  <2>5. \A i, j \in 1 .. Len(backlog) : backlog[i] = backlog[j] => i = j  BY DEF Connections
  <2>6. serving' \notin ClientFds  BY <1>1, Numbers
  <2> QED  BY <1>1, <1>9, <2>2, <2>3, <2>4, <2>5, <2>6, ZenonT(60) DEF Connections
<1>11. Kept'
  <2> SUFFICES ASSUME NEW x \in Clients, client[x] = "up"
               PROVE  \/ \E i \in 1 .. Len(backlog) : backlog[i] = x
                      \/ \E fd \in ClientFds : peer'[fd] = x
    BY <1>1 DEF Kept
  <2>1. (\E i \in 1 .. Len(backlog) : backlog[i] = x) \/ \E fd \in ClientFds : peer[fd] = x
    BY <1>2 DEF Kept
  <2>2. ASSUME NEW fd \in ClientFds, peer[fd] = x PROVE peer'[fd] = x
    <3>1. x # c  BY <1>4
    <3>2. fd # f  BY <2>2, <3>1 DEF c, f
    <3> QED  BY <1>7, <2>2, <3>2
  <2> QED  BY <2>1, <2>2
<1>12. Open'
  <2> SUFFICES ASSUME NEW x \in Clients, client[x] # "gone"
               PROVE  ~up[x].ended /\ ~down'[x].ended
    BY <1>1 DEF Open
  <2>1. x # c  BY <1>4
  <2> QED  BY <1>2, <1>7, <2>1 DEF Open
<1>13. DeathExplained'  BY <1>1, Numbers DEF DeathExplained
<1>14. Streams'
  <2> SUFFICES ASSUME NEW x \in Clients
               PROVE  Echoing(sent[x], echoed[x], up[x], down'[x], client[x])
    BY <1>1 DEF Streams
  <2>1. Echoing(sent[x], echoed[x], up[x], down[x], client[x])  BY DEF Streams
  <2>2. CASE x = c  BY <1>6, <1>7, <2>1, <2>2, EchoingMoved
  <2>3. CASE x # c  BY <1>7, <2>1, <2>3
  <2> QED  BY <2>2, <2>3
<1> QED  BY <1>8, <1>10, <1>11, <1>12, <1>13, <1>14

-----------------------------------------------------------------------------

\* Every step keeps the invariant.
LEMMA NextInv == IInv /\ [Next]_vars => IInv'
<1> SUFFICES ASSUME IInv, [Next]_vars PROVE IInv'
  OBVIOUS
<1>1. ASSUME NEW c \in Clients, Connect(c) PROVE IInv'  BY <1>1, ConnectStep
<1>2. ASSUME NEW c \in Clients, Client(c) PROVE IInv'
  BY <1>2, StdinStep, ReadStep DEF Client
<1>3. ASSUME NEW c \in Clients, Interrupted(c) PROVE IInv'  BY <1>3, InterruptedStep
<1>4. ASSUME NEW c \in Clients, Deliver(c) PROVE IInv'  BY <1>4, DeliverStep
<1>5. ASSUME StdinHangsUp PROVE IInv'  BY <1>5, StdinHangsUpStep
<1>6. ASSUME Server PROVE IInv'
  BY <1>6, AddNewSocketStep, PolledInVainStep, PolledClientStep, EchoStep, EchoKillsStep, CleanupStep
     DEF Server
<1>7. ASSUME UNCHANGED vars PROVE IInv'
  <2>1. /\ UNCHANGED <<client, sent, echoed, up, down, broken>>
        /\ UNCHANGED <<backlog, peer, pollSet, stdinOpen, serving>>
    BY <1>7 DEF vars
  <2>2. Typed'  BY <2>1 DEF Typed, IInv
  <2>3. Connections' /\ Kept'  BY <2>1, ConnectionsStay DEF IInv
  <2>4. Open' /\ Streams' /\ DeathExplained'  BY <2>1 DEF Open, Streams, DeathExplained, IInv
  <2> QED  BY <2>2, <2>3, <2>4 DEF IInv
<1> QED  BY <1>1, <1>2, <1>3, <1>4, <1>5, <1>6, <1>7 DEF Next

\* Whatever happens, the invariant holds.
LEMMA Inductive == Spec => []IInv
BY InitInv, NextInv, PTL DEF Spec

\* The server ends because an unused entry of the poll set reports standard
\* input's hang-up, or because it writes to a client known to have ended: no
\* other poll and no way TCP cuts the streams stops it.
THEOREM ServerDiesExplained == Spec => []DeathExplained
<1>1. IInv => DeathExplained  BY DEF IInv
<1> QED  BY <1>1, Inductive, PTL

\* A client that runs keeps its place in the backlog or its descriptor while the
\* server runs: a PDU in pieces is never taken for the end of the stream.
THEOREM NobodyIsDropped == Spec => []NobodyDropped
<1>1. ASSUME IInv PROVE NobodyDropped
  <2>1. ASSUME NEW i \in 1 .. Len(backlog) PROVE backlog[i] \in ToSet(backlog)
    <3>1. backlog \in Seq(Clients) /\ DOMAIN backlog = 1 .. Len(backlog)
      BY <1>1, LenProperties DEF IInv, Typed
    <3> QED  BY <3>1 DEF ToSet
  <2> QED  BY <1>1, <2>1 DEF IInv, Kept, NobodyDropped
<1> QED  BY <1>1, Inductive, PTL

\* What a client gets back is what it sent, line by line and in order, however
\* TCP cuts the streams and whoever leaves in the middle of a PDU.
THEOREM EchoesAreExact == Spec => []EchoesExact
<1>1. ASSUME IInv PROVE EchoesExact
  <2> SUFFICES ASSUME NEW c \in Clients PROVE IsPrefix(echoed[c], sent[c])
    BY DEF EchoesExact
  <2> DEFINE e == echoed[c]
             s == sent[c]
  <2>1. e \in Seq(Line) /\ s \in Seq(Line) /\ Own(s, e)
    BY <1>1 DEF IInv, Typed, Streams, Echoing
  <2> HIDE DEF e, s
  <2>2. Len(e) \in Nat /\ Len(s) \in Nat  BY <2>1, LenProperties
  <2>3. Len(e) <= Len(s) /\ \A i \in 1 .. Len(e) : e[i] = s[i]  BY <2>1 DEF Own
  <2>4. /\ Part(s, 0, Len(e)) \in Seq(Line) /\ Len(Part(s, 0, Len(e))) = Len(e) - 0
        /\ \A i \in 1 .. Len(e) - 0 : Part(s, 0, Len(e))[i] = s[0 + i]
    <3>1. 0 \in Nat /\ 0 <= Len(e)  BY <2>2
    <3> QED  BY <2>1, <2>2, <2>3, <3>1, PartLines
  <2>5. Len(e) - 0 = Len(e) /\ \A i \in 1 .. Len(e) : 0 + i = i  BY <2>2
  <2>6. Part(s, 0, Len(e)) = e  BY <2>1, <2>3, <2>4, <2>5, SeqEqual
  <2>7. SubSeq(s, 1, Len(e)) = e  BY <2>6 DEF Part
  <2>8. IsPrefix(e, s)  BY <2>3, <2>7 DEF IsPrefix
  <2> QED  BY <2>8 DEF e, s
<1> QED  BY <1>1, Inductive, PTL

============================================================================
