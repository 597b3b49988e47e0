--------------------------- MODULE EvaluationProofs ---------------------------
(***************************************************************************)
(* What the parts without state promise, for inputs of every size: each    *)
(* result is the value of the function on an input of its type, and the    *)
(* promise follows from what the operators of the function do.             *)
(***************************************************************************)
EXTENDS Evaluation, OperatorProofs, FiniteSetTheorems

\* What is done is done for the input chosen at the start.
EvaluationInv ==
    /\ arg \in Inputs(fn)
    /\ Evaluated("identitiesMatch") => out = identitiesMatch(arg[1], arg[2])
    /\ Evaluated("decodeCSRBody") => out = decodeCSRBody(arg)
    /\ Evaluated("handleCACerts") =>
           out = handleCACerts(IF arg.backend = "local" THEN LoadedCertificates(arg.text)
                               ELSE DownloadedCertificates(arg.status, arg.text))
    /\ Evaluated("csrattrs") => out = Encode(csrAttrsOptions(arg))
    /\ Evaluated("IssueCertificate") => out = IssueCertificate(arg[2], arg[1], 1, Now)
    /\ Evaluated("serialHex") =>
           out = << serialHex(SerialNumber(arg[1])), serialHex(SerialNumber(arg[2])) >>

LEMMA EvaluationInvariant == Spec => []EvaluationInv
<1>1. Init => EvaluationInv
  BY DEF Init, EvaluationInv, Evaluated
<1>2. EvaluationInv /\ [Next]_vars => EvaluationInv'
  <2> SUFFICES ASSUME EvaluationInv, [Next]_vars
               PROVE  EvaluationInv'
    OBVIOUS
  <2>1. CASE Compare
    BY <2>1, Zenon DEF EvaluationInv, Evaluated, Compare, Evaluate
  <2>2. CASE ReadBody
    BY <2>2, Zenon DEF EvaluationInv, Evaluated, ReadBody, Evaluate
  <2>3. CASE ServeCACerts
    BY <2>3, Zenon DEF EvaluationInv, Evaluated, ServeCACerts, Evaluate
  <2>4. CASE EncodeAttrs
    BY <2>4, Zenon DEF EvaluationInv, Evaluated, EncodeAttrs, Evaluate
  <2>5. CASE Issue
    BY <2>5, Zenon DEF EvaluationInv, Evaluated, Issue, Evaluate
  <2>6. CASE NameSerials
    BY <2>6, Zenon DEF EvaluationInv, Evaluated, NameSerials, Evaluate
  <2>7. CASE UNCHANGED vars
    BY <2>7, Zenon DEF EvaluationInv, Evaluated, vars
  <2> QED
    BY <2>1, <2>2, <2>3, <2>4, <2>5, <2>6, <2>7 DEF Next
<1> QED
  BY <1>1, <1>2, PTL DEF Spec

-----------------------------------------------------------------------------
(* Lists that are put one after the other.                                 *)

\* join[i] is the first i lists of seqs, one after the other.
IsJoin(join, seqs, S) ==
    /\ join \in [0..Len(seqs) -> Seq(S)]
    /\ join[0] = <<>>
    /\ \A i \in 1..Len(seqs) : join[i] = join[i - 1] \o seqs[i]

Joins(seqs) ==
    CHOOSE f : f = [i \in 1..Len(seqs) |-> IF i = 1 THEN seqs[i] ELSE f[i - 1] \o seqs[i]]

LEMMA FlattenIs ==
    ASSUME NEW seqs
    PROVE  FlattenSeq(seqs) = IF Len(seqs) = 0 THEN seqs ELSE Joins(seqs)[Len(seqs)]
BY DEF FlattenSeq, Joins

LEMMA JoinExists ==
    ASSUME NEW S, NEW seqs \in Seq(Seq(S))
    PROVE  \E join : IsJoin(join, seqs, S)
<1> DEFINE n == Len(seqs)
           list(i) == IF i \in 1..n THEN seqs[i] ELSE <<>>
           step == [p \in Nat \X Seq(S) |-> p[2] \o list(p[1])]
<1>1. n \in Nat /\ \A i \in 1..n : seqs[i] \in Seq(S)
  OBVIOUS
<1>2. <<>> \in Seq(S)
  OBVIOUS
<1>3. \A i \in Nat : list(i) \in Seq(S)
  BY <1>1, <1>2
<1>4. \A u, v \in Seq(S) : u \o v \in Seq(S)
  OBVIOUS
<1> HIDE DEF n, list
<1>5. step \in Steps(Seq(S))
  <2>1. ASSUME NEW p \in Nat \X Seq(S)
        PROVE  p[2] \o list(p[1]) \in Seq(S)
    <3>1. p[1] \in Nat /\ p[2] \in Seq(S)
      BY Zenon
    <3> QED
      BY <1>3, <1>4, <3>1
  <2> QED
    BY <2>1, Zenon DEF Steps
<1>6. \A i \in Nat : \A v \in Seq(S) : step[<<i, v>>] = v \o list(i)
  BY Zenon
<1> HIDE DEF step
<1>7. Solvable(Seq(S), <<>>, step, n)
  BY <1>1, <1>2, <1>5, RecursionDefines
<1>8. PICK g \in [0..n -> Seq(S)] :
          g[0] = <<>> /\ \A i \in 1..n : g[i] = step[<<i, g[i - 1]>>]
  BY <1>7 DEF Solvable
<1>9. \A i \in 1..n : g[i] = g[i - 1] \o seqs[i]
  <2> SUFFICES ASSUME NEW i \in 1..n
               PROVE  g[i] = g[i - 1] \o seqs[i]
    OBVIOUS
  <2>1. i \in Nat /\ i - 1 \in 0..n
    BY <1>1
  <2>2. g[i - 1] \in Seq(S)
    BY <2>1
  <2>3. g[i] = g[i - 1] \o list(i)
    BY <1>6, <1>8, <2>1, <2>2, Zenon
  <2> QED
    BY <2>3 DEF list
<1> QED
  BY <1>8, <1>9 DEF IsJoin, n

LEMMA JoinsAre ==
    ASSUME NEW S, NEW seqs \in Seq(Seq(S)), Len(seqs) # 0
    PROVE  /\ Joins(seqs)[1] = seqs[1]
           /\ \A i \in 2..Len(seqs) : Joins(seqs)[i] = Joins(seqs)[i - 1] \o seqs[i]
<1> DEFINE n == Len(seqs)
<1>1. PICK g : IsJoin(g, seqs, S)
  BY JoinExists
<1> DEFINE h == [i \in 1..n |-> g[i]]
<1>2. n \in Nat /\ n >= 1 /\ \A i \in 1..n : seqs[i] \in Seq(S)
  OBVIOUS
<1>3. h[1] = seqs[1]
  <2>0. 1 \in 1..n /\ 1 - 1 = 0
    BY <1>2
  <2>1. g[1] = g[1 - 1] \o seqs[1] /\ g[0] = <<>>
    BY <1>1, <2>0, Zenon DEF IsJoin
  <2>2. seqs[1] \in Seq(S)
    BY <1>2, <2>0
  <2>3. <<>> \o seqs[1] = seqs[1]
    BY <2>2, ConcatEmptySeq
  <2>4. h[1] = g[1]
    BY <2>0
  <2> QED
    BY <2>0, <2>1, <2>3, <2>4
<1>4. \A i \in 1..n : h[i] = IF i = 1 THEN seqs[i] ELSE h[i - 1] \o seqs[i]
  <2> SUFFICES ASSUME NEW i \in 1..n, i # 1
               PROVE  h[i] = h[i - 1] \o seqs[i]
    BY <1>3
  <2>1. i - 1 \in 1..n
    BY <1>2
  <2>2. g[i] = g[i - 1] \o seqs[i]
    BY <1>1 DEF IsJoin
  <2> QED
    BY <2>1, <2>2
<1>5. h = [i \in 1..n |-> IF i = 1 THEN seqs[i] ELSE h[i - 1] \o seqs[i]]
  <2>1. DOMAIN h = 1..n /\ h = [i \in DOMAIN h |-> h[i]]
    OBVIOUS
  <2> HIDE DEF h, n
  <2> QED
    BY <1>4, <2>1, Zenon
<1> HIDE DEF h
<1> DEFINE j == Joins(seqs)
<1>6. j = [i \in 1..n |-> IF i = 1 THEN seqs[i] ELSE j[i - 1] \o seqs[i]]
  BY <1>5 DEF Joins
<1> HIDE DEF j
<1>7. \A i \in 1..n : j[i] = IF i = 1 THEN seqs[i] ELSE j[i - 1] \o seqs[i]
  BY <1>6
<1>8. j[1] = seqs[1]
  BY <1>2, <1>7
<1>9. \A i \in 2..n : j[i] = j[i - 1] \o seqs[i]
  <2>1. \A i \in 2..n : i \in 1..n /\ i # 1
    BY <1>2
  <2> HIDE DEF n
  <2> QED
    BY <1>7, <2>1
<1> QED
  BY <1>8, <1>9 DEF j

LEMMA FlattenJoins ==
    ASSUME NEW S, NEW seqs \in Seq(Seq(S))
    PROVE  \E join : IsJoin(join, seqs, S) /\ FlattenSeq(seqs) = join[Len(seqs)]
<1>1. CASE Len(seqs) = 0
  <2>1. seqs = <<>> /\ FlattenSeq(seqs) = seqs
    BY <1>1, FlattenIs
  <2>2. PICK g : IsJoin(g, seqs, S)
    BY JoinExists
  <2> QED
    BY <1>1, <2>1, <2>2 DEF IsJoin
<1>2. CASE Len(seqs) # 0
  <2> DEFINE n == Len(seqs)
             j == Joins(seqs)
             g == [i \in 0..n |-> IF i = 0 THEN <<>> ELSE j[i]]
  <2>1. n \in Nat /\ n >= 1 /\ \A i \in 1..n : seqs[i] \in Seq(S)
    BY <1>2
  <2>2. j[1] = seqs[1] /\ \A i \in 2..n : j[i] = j[i - 1] \o seqs[i]
    BY <1>2, JoinsAre
  <2>3. FlattenSeq(seqs) = j[n]
    BY <1>2, FlattenIs
  <2> HIDE DEF j, n
  <2>4. g[0] = <<>> /\ g[n] = j[n]
    BY <2>1
  <2>5. \A i \in 1..n : g[i] = g[i - 1] \o seqs[i]
    <3> SUFFICES ASSUME NEW i \in 1..n
                 PROVE  g[i] = g[i - 1] \o seqs[i]
      OBVIOUS
    <3>1. i \in 0..n /\ i - 1 \in 0..n /\ i # 0 /\ g[i] = j[i]
      BY <2>1
    <3>2. CASE i = 1
      <4>1. g[i - 1] = <<>>
        BY <3>1, <3>2
      <4>2. <<>> \o seqs[1] = seqs[1]
        BY <2>1
      <4> QED
        BY <2>2, <3>1, <3>2, <4>1, <4>2
    <3>3. CASE i # 1
      <4>1. i \in 2..n /\ g[i - 1] = j[i - 1]
        BY <2>1, <3>1, <3>3
      <4> QED
        BY <2>2, <3>1, <4>1
    <3> QED
      BY <3>2, <3>3
  <2>6. g \in [0..n -> Seq(S)]
    <3>1. DOMAIN g = 0..n /\ g \in [0..n -> {g[i] : i \in 0..n}]
      OBVIOUS
    <3> HIDE DEF g
    <3>2. <<>> \in Seq(S)
      OBVIOUS
    <3>3. g[0] \in Seq(S)
      BY <2>4, <3>2
    <3>4. ASSUME NEW i \in 1..n, g[i - 1] \in Seq(S)
          PROVE  g[i] \in Seq(S)
      <4>1. seqs[i] \in Seq(S) /\ g[i] = g[i - 1] \o seqs[i]
        BY <2>1, <2>5
      <4> QED
        BY <3>4, <4>1
    <3>5. \A i \in 0..n : g[i] \in Seq(S)
      BY <2>1, <3>1, <3>3, <3>4, ValuesStay
    <3> QED
      BY <3>1, <3>5
  <2> HIDE DEF g
  <2>7. IsJoin(g, seqs, S)
    BY <2>4, <2>5, <2>6 DEF IsJoin, n
  <2> QED
    BY <2>3, <2>4, <2>7 DEF n
<1> QED
  BY <1>1, <1>2

-----------------------------------------------------------------------------
(* The content of an INTEGER.                                              *)

LEMMA LeastOf ==
    ASSUME NEW T \in SUBSET Nat, T # {}
    PROVE  \E k \in T : \A j \in T : k <= j
<1> SUFFICES ASSUME \A k \in T : \E j \in T : j < k
             PROVE  FALSE
  OBVIOUS
<1> DEFINE U == {k \in Nat : \A j \in T : j > k}
<1>1. 0 \in U
  <2>1. \A j \in T : j # 0
    OBVIOUS
  <2> QED
    BY <2>1
<1>2. ASSUME NEW k \in U
      PROVE  k + 1 \in U
  <2>1. ASSUME k + 1 \in T
        PROVE  FALSE
    <3>1. PICK j \in T : j < k + 1
      BY <2>1
    <3>2. j > k
      BY <1>2
    <3> QED
      BY <3>1, <3>2
  <2>2. \A j \in T : j \in Nat /\ j > k /\ j # k + 1
    BY <1>2, <2>1
  <2> QED
    BY <2>2
<1> HIDE DEF U
<1>3. U = Nat
  <2>1. U \in SUBSET Nat
    BY DEF U
  <2> QED
    BY <1>1, <1>2, <2>1, NaturalsFromZero
<1>4. PICK k \in T : TRUE
  OBVIOUS
<1>5. k \in U
  BY <1>3
<1> QED
  BY <1>5 DEF U

\* What is left of n without its last octets.
IsLeft(left, n) ==
    /\ left \in [0..n -> Nat]
    /\ left[0] = n
    /\ \A i \in 1..n : left[i] = left[i - 1] \div 256

LeftOf(n) == CHOOSE left : left = [i \in 0..n |-> IF i = 0 THEN n ELSE left[i - 1] \div 256]

LEMMA Shrinks == \A x \in Nat : (x \div 256) \in Nat /\ (x \div 256 <= x - 1 \/ x \div 256 = 0)
OBVIOUS

LEMMA LeftIs ==
    ASSUME NEW n \in Nat
    PROVE  IsLeft(LeftOf(n), n)
<1> DEFINE step == [p \in Nat \X Nat |-> p[2] \div 256]
<1>1. \A i, v \in Nat : step[<<i, v>>] = v \div 256
  OBVIOUS
<1>2. step \in Steps(Nat)
  BY DEF Steps
<1> HIDE DEF step
<1>3. PICK g \in [0..n -> Nat] :
          g[0] = n /\ \A i \in 1..n : g[i] = step[<<i, g[i - 1]>>]
  <2>1. Solvable(Nat, n, step, n)
    BY <1>2, RecursionDefines
  <2> QED
    BY <2>1 DEF Solvable
<1>4. ASSUME NEW i \in 1..n
      PROVE  g[i] = g[i - 1] \div 256
  <2>1. g[i - 1] \in Nat
    OBVIOUS
  <2>2. step[<<i, g[i - 1]>>] = g[i - 1] \div 256
    BY <1>1, <2>1
  <2> QED
    BY <1>3, <2>2
<1>5. g = [i \in 0..n |-> IF i = 0 THEN n ELSE g[i - 1] \div 256]
  BY <1>3, <1>4
<1> DEFINE q == LeftOf(n)
<1>6. q = [i \in 0..n |-> IF i = 0 THEN n ELSE q[i - 1] \div 256]
  BY <1>5, ZenonT(60) DEF LeftOf
<1> HIDE DEF q
<1>7. \A i \in 0..n : q[i] = IF i = 0 THEN n ELSE q[i - 1] \div 256
  BY <1>6
<1>8. \A i \in 0..n : q[i] \in Nat
  <2>1. \A i \in 1..n : q[i - 1] \in Nat => q[i] \in Nat
    BY <1>7
  <2>2. q[0] \in Nat
    BY <1>7
  <2>3. q \in [0..n -> {q[i] : i \in 0..n}]
    BY <1>6
  <2> QED
    BY <2>1, <2>2, <2>3, ValuesStay
<1> QED
  BY <1>6, <1>7, <1>8 DEF q, IsLeft

LEMMA LeftEnds ==
    ASSUME NEW n \in Nat, NEW left, IsLeft(left, n)
    PROVE  left[n] = 0
<1> DEFINE T == {i \in 0..n : left[i] <= n - i}
<1>1. 0 \in T
  BY DEF IsLeft
<1>2. ASSUME NEW i \in T, i < n
      PROVE  i + 1 \in T
  <2>1. i \in 0..n /\ i + 1 \in 1..n /\ (i + 1) - 1 = i /\ i + 1 \in 0..n
    BY <1>2
  <2>2. left[i + 1] = left[i] \div 256 /\ left[i] \in Nat
    BY <2>1 DEF IsLeft
  <2>3. left[i] <= n - i
    BY <1>2
  <2>4. left[i + 1] \in Nat /\ (left[i + 1] <= left[i] - 1 \/ left[i + 1] = 0)
    BY <2>2, Shrinks
  <2> HIDE DEF IsLeft
  <2> QED
    BY <1>2, <2>1, <2>2, <2>3, <2>4
<1> HIDE DEF T
<1>3. T = 0..n
  <2>1. T \in SUBSET (0..n)
    BY DEF T
  <2> QED
    BY <1>1, <1>2, <2>1, UpToLast
<1>4. n \in T /\ n \in 0..n
  BY <1>3
<1>5. left[n] <= 0 /\ left[n] \in Nat
  BY <1>4 DEF T, IsLeft
<1> QED
  BY <1>5

LEMMA OneEntry ==
    ASSUME NEW S, NEW s \in Seq(S), NEW x \in S, Len(s) = 1, s[1] = x
    PROVE  s = <<x>>
OBVIOUS

\* As many octets as the number needs, and no more than any number of them
\* that keep the sign.
LEMMA IntegerContentIs ==
    ASSUME NEW n \in Nat
    PROVE  /\ IntegerContent(n) \in Seq(Octet)
           /\ IntegerContent(n) # <<>>
           /\ \A k \in 0..n : LeftOf(n)[k] < 128 => Len(IntegerContent(n)) <= k + 1
           /\ n < 128 => IntegerContent(n) = <<n>>
<1> DEFINE left == LeftOf(n)
           T == {k \in 0..n : left[k] < 128}
           Least(k) == left[k] < 128 /\ \A j \in 0..(k - 1) : left[j] >= 128
           last == CHOOSE k \in 0..n : Least(k)
<1>1. IsLeft(left, n) /\ left[n] = 0
  BY LeftIs, LeftEnds
<1>2. IntegerContent(n) = [i \in 1..(last + 1) |-> left[last + 1 - i] % 256]
  BY DEF IntegerContent, LeftOf
<1> HIDE DEF left
<1>3. PICK k \in T : \A j \in T : k <= j
  <2>1. n \in T /\ T \in SUBSET Nat
    BY <1>1
  <2> HIDE DEF T
  <2> QED
    BY <2>1, LeastOf
<1>4. k \in 0..n /\ Least(k)
  <2>1. ASSUME NEW j \in 0..(k - 1)
        PROVE  left[j] >= 128
    <3>1. j \in 0..n /\ j < k /\ j \notin T
      BY <1>3
    <3>2. left[j] \in Nat
      BY <1>1, <3>1 DEF IsLeft
    <3> QED
      BY <3>1, <3>2
  <2> QED
    BY <2>1
<1>5. last \in 0..n /\ Least(last)
  BY <1>4
<1>6. ASSUME NEW j \in 0..n, left[j] < 128
      PROVE  last <= j
  <2>1. ASSUME j < last
        PROVE  FALSE
    <3>1. j \in 0..(last - 1) /\ left[j] \in Nat
      BY <1>1, <1>5, <2>1 DEF IsLeft
    <3>2. left[j] >= 128
      BY <1>5, <3>1
    <3> QED
      BY <1>6, <3>1, <3>2
  <2> QED
    BY <1>5, <2>1
<1> HIDE DEF last
<1>7. \A i \in 1..(last + 1) : left[last + 1 - i] % 256 \in Octet
  <2> SUFFICES ASSUME NEW i \in 1..(last + 1)
               PROVE  left[last + 1 - i] % 256 \in Octet
    OBVIOUS
  <2>1. last + 1 - i \in 0..n
    BY <1>5
  <2>2. left[last + 1 - i] \in Nat
    BY <1>1, <2>1 DEF IsLeft
  <2>3. \A x \in Nat : x % 256 \in Octet
    BY DEF Octet
  <2> QED
    BY <2>2, <2>3
<1>8. last + 1 \in Nat /\ last + 1 >= 1
  BY <1>5
<1>9. IntegerContent(n) \in Seq(Octet) /\ Len(IntegerContent(n)) = last + 1
  BY <1>2, <1>7, <1>8
<1>10. n < 128 => IntegerContent(n) = <<n>>
  <2> SUFFICES ASSUME n < 128
               PROVE  IntegerContent(n) = <<n>>
    OBVIOUS
  <2>1. left[0] = n /\ 0 \in 0..n
    BY <1>1 DEF IsLeft
  <2>2. last = 0
    BY <1>5, <1>6, <2>1
  <2>3. IntegerContent(n) = [i \in 1..1 |-> left[1 - i] % 256]
    BY <1>2, <2>2
  <2>4. Len(IntegerContent(n)) = 1 /\ IntegerContent(n)[1] = left[0] % 256
    BY <1>9, <2>2, <2>3
  <2>5. n % 256 = n
    OBVIOUS
  <2>6. IntegerContent(n)[1] = n /\ n \in Octet
    BY <2>1, <2>4, <2>5 DEF Octet
  <2> QED
    BY <1>9, <2>4, <2>6, OneEntry
<1>11. ASSUME NEW j \in 0..n, LeftOf(n)[j] < 128
       PROVE  Len(IntegerContent(n)) <= j + 1
  <2>1. last <= j
    BY <1>6, <1>11 DEF left
  <2> QED
    BY <1>5, <1>9, <2>1
<1>12. IntegerContent(n) # <<>>
  BY <1>8, <1>9
<1> QED
  BY <1>9, <1>10, <1>11, <1>12

-----------------------------------------------------------------------------
(* The names of files.                                                     *)

\* An INTEGER loses one of the octets that were drawn at a time.
LEMMA LeftAreReadings ==
    ASSUME NEW last \in Nat, NEW o \in Octets(last)
    PROVE  \A j \in 0..last : j <= Readings(o, last)[last] =>
               LeftOf(Readings(o, last)[last])[j] = Readings(o, last)[last - j]
<1> DEFINE v == Readings(o, last)
           m == v[last]
           left == LeftOf(m)
           T == {j \in 0..last : j <= m => left[j] = v[last - j]}
<1>1. v \in [0..last -> Nat] /\ \A i \in 1..last : v[i] = 256 * v[i - 1] + o[i]
  BY ReadingsAre DEF IsReading
<1>2. m \in Nat
  BY <1>1
<1> HIDE DEF v
<1>3. left[0] = m /\ \A i \in 1..m : left[i] = left[i - 1] \div 256
  BY <1>2, LeftIs DEF IsLeft
<1> HIDE DEF left
<1>4. 0 \in T
  BY <1>3
<1>5. ASSUME NEW j \in T, j < last
      PROVE  j + 1 \in T
  <2> SUFFICES ASSUME j + 1 <= m
               PROVE  left[j + 1] = v[last - (j + 1)]
    BY <1>5
  <2>1. PICK i \in 1..last : i = last - j
    BY <1>5
  <2>2. PICK w \in Nat : w = v[i - 1]
    BY <1>1
  <2>3. left[j] = 256 * w + o[i] /\ o[i] \in 0..255
    BY <1>1, <1>2, <2>1, <2>2, SMTT(40) DEF Octets
  <2>4. left[j + 1] = left[j] \div 256
    BY <1>2, <1>3
  <2>5. \A y \in 0..255 : (256 * w + y) \div 256 = w
    OBVIOUS
  <2>6. left[j + 1] = w
    BY <2>3, <2>4, <2>5
  <2> QED
    BY <2>1, <2>2, <2>6
<1> HIDE DEF T
<1>6. T = 0..last
  <2>1. T \in SUBSET (0..last)
    BY DEF T
  <2> QED
    BY <1>4, <1>5, <2>1, UpToLast
<1> QED
  BY <1>6 DEF T, v, left

LEMMA SerialFits ==
    ASSUME NEW last \in Nat, last = SerialBytes, NEW buf \in Octets(last)
    PROVE  Len(IntegerContent(SerialNumber(buf))) <= last
<1>1. last >= 1 /\ 1 \in 1..last /\ 1 - 1 = 0
  BY LocalCAAssumption
<1> DEFINE o == [buf EXCEPT ![1] = ClearTopBit(@)]
           r == Readings(o, last)
           m == r[last]
<1>2. o \in Octets(last) /\ o[1] \in 0..127
  <2>1. buf[1] \in 0..255
    BY <1>1 DEF Octets
  <2>2. ClearTopBit(buf[1]) \in 0..127 /\ ClearTopBit(buf[1]) \in 0..255
    BY <2>1, TopBit DEF ClearTopBit
  <2> QED
    BY <1>1, <2>2 DEF Octets
<1>3. m = SerialNumber(buf)
  BY SerialNumberIs
<1> HIDE DEF o
<1>4. IsReading(r, o, last)
  BY <1>2, ReadingsAre
<1>5. m \in Nat
  BY <1>4 DEF IsReading
<1>6. \A j \in 0..last : j <= m => LeftOf(m)[j] = r[last - j]
  BY <1>2, LeftAreReadings
<1> HIDE DEF r, m
<1>7. r[1] \in 0..127
  <2>1. r[1] = 256 * r[1 - 1] + o[1] /\ r[0] = 0
    BY <1>1, <1>4 DEF IsReading
  <2>2. r[1] = o[1]
    BY <1>1, <1>2, <2>1
  <2> QED
    BY <1>2, <2>2
<1>8. Len(IntegerContent(m)) \in Nat
  BY <1>5, IntegerContentIs
<1>9. CASE last - 1 <= m
  <2>1. last - 1 \in 0..last /\ last - (last - 1) = 1 /\ last - 1 \in 0..m
    BY <1>1, <1>5, <1>9
  <2>2. LeftOf(m)[last - 1] = r[1]
    BY <1>6, <1>9, <2>1
  <2>3. \A x \in 0..127 : x < 128
    OBVIOUS
  <2>4. LeftOf(m)[last - 1] < 128
    BY <1>7, <2>2, <2>3, Zenon
  <2>5. Len(IntegerContent(m)) <= (last - 1) + 1
    BY <1>5, <2>1, <2>4, IntegerContentIs
  <2> QED
    BY <1>3, <1>8, <2>5
<1>10. CASE m < last - 1
  <2>1. m \in 0..m /\ LeftOf(m)[m] < 128
    BY <1>5, LeftIs, LeftEnds
  <2>2. Len(IntegerContent(m)) <= m + 1
    BY <1>5, <2>1, IntegerContentIs
  <2> QED
    BY <1>1, <1>3, <1>5, <1>8, <1>10, <2>2
<1> QED
  BY <1>1, <1>5, <1>9, <1>10

\* serial.go 14-17, store/file.go 19-20: whatever octets are drawn, the names
\* of the files of two serial numbers differ when the numbers do and sort as
\* they do, and the DER INTEGER is no longer than what was drawn.
THEOREM FilesSortBySerial == Spec => []SerialNamesSort
<1>1. EvaluationInv => SerialNamesSort
  <2> SUFFICES ASSUME EvaluationInv, Evaluated("serialHex")
               PROVE  LET m == SerialNumber(arg[1])
                          n == SerialNumber(arg[2])
                      IN  /\ Len(out[1]) = Len(out[2])
                          /\ SortsBefore(out[1], out[2]) <=> m < n
                          /\ out[1] = out[2] <=> m = n
                          /\ Len(IntegerContent(m)) <= SerialBytes
    BY DEF SerialNamesSort
  <2>1. arg \in Buffers \X Buffers
    BY DEF EvaluationInv, Evaluated, Inputs
  <2>2. PICK a, b \in [1..SerialBytes -> 0..255] : a = arg[1] /\ b = arg[2]
    BY <2>1, BufferAssumption DEF Octet
  <2>3. /\ out[1] = serialHex(SerialNumber(a))
        /\ out[2] = serialHex(SerialNumber(b))
    BY <2>2 DEF EvaluationInv
  <2>5. /\ serialHex(SerialNumber(a)) \in [1..(2 * SerialBytes) -> 0..15]
        /\ serialHex(SerialNumber(b)) \in [1..(2 * SerialBytes) -> 0..15]
        /\ SerialNumber(a) = SerialNumber(b)
               <=> serialHex(SerialNumber(a)) = serialHex(SerialNumber(b))
        /\ SerialNumber(a) < SerialNumber(b)
               <=> SortsBefore(serialHex(SerialNumber(a)), serialHex(SerialNumber(b)))
    BY SerialNamesSortAsNumbers, ZenonT(60)
  <2>6. Len(out[1]) = Len(out[2])
    <3>1. PICK d \in Nat : d = 2 * SerialBytes
      BY LocalCAAssumption
    <3>2. out[1] \in [1..d -> 0..15] /\ out[2] \in [1..d -> 0..15]
      BY <2>3, <2>5, <3>1, ZenonT(60)
    <3> QED
      BY <3>2
  <2>7. Len(IntegerContent(SerialNumber(a))) <= SerialBytes
    <3>1. PICK last \in Nat : last = SerialBytes
      BY LocalCAAssumption
    <3> QED
      BY <3>1, SerialFits DEF Octets
  <2> QED
    BY <2>2, <2>3, <2>5, <2>6, <2>7
<1> QED
  BY <1>1, EvaluationInvariant, PTL

-----------------------------------------------------------------------------
(* Lists without some of their entries.                                    *)

\* kept[i] is what Without keeps of the first i entries.
IsKept(kept, s, D, S) ==
    /\ kept \in [0..Len(s) -> Seq(S)]
    /\ kept[0] = <<>>
    /\ \A i \in 1..Len(s) :
          kept[i] = IF s[i] \in D THEN kept[i - 1] ELSE Append(kept[i - 1], s[i])

LEMMA WithoutIs ==
    ASSUME NEW S, NEW s \in Seq(S), NEW D
    PROVE  \E kept : IsKept(kept, s, D, S) /\ Without(s, D) = kept[Len(s)]
<1> DEFINE n == Len(s)
           part(i) == IF s[i] \in D THEN <<>> ELSE <<s[i]>>
           seqs == [i \in 1..n |-> part(i)]
<1>1. n \in Nat /\ DOMAIN s = 1..n /\ \A i \in 1..n : s[i] \in S
  OBVIOUS
<1>2. \A i \in 1..n : part(i) \in Seq(S)
  BY <1>1
<1>3. seqs \in Seq(Seq(S)) /\ Len(seqs) = n /\ \A i \in 1..n : seqs[i] = part(i)
  <2> HIDE DEF part, n
  <2> QED
    BY <1>1, <1>2
<1>4. Without(s, D) = FlattenSeq(seqs)
  BY <1>1 DEF Without
<1> HIDE DEF seqs, n
<1>5. PICK g : IsJoin(g, seqs, S) /\ FlattenSeq(seqs) = g[Len(seqs)]
  BY <1>3, FlattenJoins
<1>6. g \in [0..n -> Seq(S)] /\ g[0] = <<>> /\ \A i \in 1..n : g[i] = g[i - 1] \o seqs[i]
  BY <1>3, <1>5 DEF IsJoin
<1>7. ASSUME NEW i \in 1..n
      PROVE  g[i] = IF s[i] \in D THEN g[i - 1] ELSE Append(g[i - 1], s[i])
  <2>1. g[i - 1] \in Seq(S) /\ g[i] = g[i - 1] \o part(i) /\ s[i] \in S
    <3>1. i - 1 \in 0..n
      BY <1>1
    <3> QED
      BY <1>1, <1>3, <1>6, <3>1, Zenon
  <2>2. g[i - 1] \o <<>> = g[i - 1] /\ g[i - 1] \o <<s[i]>> = Append(g[i - 1], s[i])
    <3> DEFINE u == g[i - 1]
    <3> HIDE DEF u
    <3>1. u \in Seq(S)
      BY <2>1 DEF u
    <3>2. u \o <<>> = u /\ u \o <<s[i]>> = Append(u, s[i])
      BY <2>1, <3>1, ConcatEmptySeq, AppendIsConcat
    <3> QED
      BY <3>2 DEF u
  <2> QED
    BY <2>1, <2>2
<1> QED
  BY <1>3, <1>4, <1>5, <1>6, <1>7 DEF IsKept, n

LEMMA DroppedFirst ==
    ASSUME NEW S, NEW s \in Seq(S), NEW D, NEW kept, IsKept(kept, s, D, S),
           NEW n \in 0..Len(s), \A i \in 1..n : s[i] \in D
    PROVE  kept[n] = <<>>
<1> DEFINE T == {i \in 0..n : kept[i] = <<>>}
<1>1. 0 \in T /\ n \in Nat
  BY DEF IsKept
<1>2. ASSUME NEW i \in T, i < n
      PROVE  i + 1 \in T
  <2>1. i + 1 \in 1..n /\ i + 1 \in 1..Len(s) /\ (i + 1) - 1 = i /\ i + 1 \in 0..n
    BY <1>2
  <2>2. kept[i + 1] = kept[i]
    BY <2>1, Zenon DEF IsKept
  <2> QED
    BY <2>1, <2>2
<1> HIDE DEF T
<1>3. T = 0..n
  <2>1. T \in SUBSET (0..n)
    BY DEF T
  <2> QED
    BY <1>1, <1>2, <2>1, UpToLast
<1>4. n \in T
  BY <1>1, <1>3
<1> QED
  BY <1>4 DEF T

LEMMA WithoutAll ==
    ASSUME NEW S, NEW s \in Seq(S), NEW D, \A i \in 1..Len(s) : s[i] \in D
    PROVE  Without(s, D) = <<>>
<1>1. PICK kept : IsKept(kept, s, D, S) /\ Without(s, D) = kept[Len(s)]
  BY WithoutIs
<1>2. Len(s) \in 0..Len(s)
  OBVIOUS
<1> QED
  BY <1>1, <1>2, DroppedFirst

LEMMA WithoutAllButLast ==
    ASSUME NEW S, NEW s \in Seq(S), NEW D, NEW n \in Nat, Len(s) = n + 1,
           \A i \in 1..n : s[i] \in D, s[n + 1] \notin D
    PROVE  Without(s, D) = << s[n + 1] >>
<1>1. PICK kept : IsKept(kept, s, D, S) /\ Without(s, D) = kept[Len(s)]
  BY WithoutIs
<1>2. n \in 0..Len(s) /\ n + 1 \in 1..Len(s) /\ (n + 1) - 1 = n
  OBVIOUS
<1>3. kept[n] = <<>>
  BY <1>1, <1>2, DroppedFirst
<1>4. kept[n + 1] = Append(<<>>, s[n + 1])
  BY <1>1, <1>2, <1>3, Zenon DEF IsKept
<1> QED
  BY <1>1, <1>4

-----------------------------------------------------------------------------
(* The certificate of the local CA and the next enrolment.                 *)

Attributes == AttributeTypes \X Nat

LEMMA ValuesAre ==
    ASSUME NEW rdns \in Seq(Attributes), NEW type
    PROVE  Values(rdns, type) \in Seq(Nat)
<1> DEFINE D == {a \in ToSet(rdns) : a[1] # type}
           found == Without(rdns, D)
<1>1. PICK kept : IsKept(kept, rdns, D, Attributes) /\ found = kept[Len(rdns)]
  BY WithoutIs
<1>2. found \in Seq(Attributes)
  BY <1>1 DEF IsKept
<1>3. Values(rdns, type) = [i \in DOMAIN found |-> found[i][2]]
  BY DEF Values
<1> HIDE DEF found
<1>4. \A i \in 1..Len(found) : found[i][2] \in Nat
  BY <1>2 DEF Attributes
<1> QED
  BY <1>2, <1>3, <1>4

\* ToRDNSequence writes the CommonName that ParseName has found, and parsing
\* what is written finds it again.
LEMMA CommonNameIsKept ==
    ASSUME NEW rdns \in Seq(Attributes)
    PROVE  ParseName(ToRDNSequence(ParseName(rdns))).cn = ParseName(rdns).cn
<1> DEFINE name == ParseName(rdns)
           os == [i \in DOMAIN name.o |-> <<"O", name.o[i]>>]
           cns == Values(rdns, "CN")
<1>1. name.o \in Seq(Nat) /\ cns \in Seq(Nat)
  BY ValuesAre DEF ParseName
<1>2. name.cn \in Nat
  <2>1. name.cn = IF cns = <<>> THEN 0 ELSE cns[Len(cns)]
    BY DEF ParseName, Last
  <2> HIDE DEF cns
  <2> QED
    BY <1>1, <2>1
<1> HIDE DEF name
<1>3. PICK n \in Nat : n = Len(name.o)
  BY <1>1
<1>4. os \in Seq(Attributes) /\ Len(os) = n /\ \A i \in 1..n : os[i][1] = "O"
  <2>1. DOMAIN name.o = 1..n /\ \A i \in 1..n : <<"O", name.o[i]>> \in Attributes
    BY <1>1, <1>3 DEF Attributes, AttributeTypes
  <2> QED
    BY <2>1
<1> HIDE DEF os
<1> DEFINE subject == ToRDNSequence(name)
           D == {a \in ToSet(subject) : a[1] # "CN"}
           found == Without(subject, D)
<1>5. Values(subject, "CN") = [i \in DOMAIN found |-> found[i][2]]
  BY DEF Values
<1>6. CASE name.cn = 0
  <2>1. subject = os
    <3>1. subject = os \o <<>>
      BY <1>6 DEF ToRDNSequence, os
    <3> QED
      BY <1>4, <3>1, ConcatEmptySeq
  <2>2. \A i \in 1..Len(subject) : subject[i] \in D
    BY <1>4, <2>1 DEF ToSet
  <2> HIDE DEF subject, D
  <2>3. found = <<>>
    BY <1>4, <2>1, <2>2, WithoutAll
  <2>4. Values(subject, "CN") = <<>>
    BY <1>5, <2>3
  <2> QED
    BY <1>6, <2>4 DEF ParseName, subject, name
<1>7. CASE name.cn # 0
  <2> DEFINE last == <<"CN", name.cn>>
  <2>1. subject = os \o <<last>>
    BY <1>7 DEF ToRDNSequence, os
  <2>2. last \in Attributes /\ last[1] = "CN" /\ last[2] = name.cn
    BY <1>2 DEF Attributes, AttributeTypes
  <2> HIDE DEF last, subject
  <2>3. /\ subject \in Seq(Attributes) /\ Len(subject) = n + 1 /\ subject[n + 1] = last
        /\ \A i \in 1..n : subject[i] = os[i]
    BY <1>4, <2>1, <2>2
  <2>4. (\A i \in 1..n : subject[i] \in D) /\ subject[n + 1] \notin D
    <3>1. \A i \in 1..n : i \in DOMAIN subject
      BY <2>3
    <3> QED
      BY <1>4, <2>2, <2>3, <3>1 DEF ToSet
  <2> HIDE DEF D
  <2>5. found = <<last>>
    BY <2>3, <2>4, WithoutAllButLast
  <2> HIDE DEF found
  <2>6. Values(subject, "CN") # <<>> /\ Last(Values(subject, "CN")) = name.cn
    <3>1. Len(Values(subject, "CN")) = 1 /\ Values(subject, "CN")[1] = name.cn
      BY <1>5, <2>2, <2>5
    <3> QED
      BY <3>1 DEF Last
  <2> QED
    BY <2>6 DEF ParseName, subject, name
<1> QED
  BY <1>6, <1>7

\* local.go 26-33 and 130-143, identity.go 28-32: whatever names and addresses
\* a CSR asks for, the certificate the local CA makes of it authenticates its
\* client for a re-enrolment with the same CSR while both certificates are
\* valid, to a clock that is behind by the skew at most.
THEOREM CertificateReenrolls == Spec => []EnrolledCanReenroll
<1>1. EvaluationInv => EnrolledCanReenroll
  <2> SUFFICES ASSUME EvaluationInv, Evaluated("IssueCertificate"), out.ok
               PROVE  LET csr == arg[1]
                          l == arg[2]
                          skew == IF l.notBeforeSkew = 0 THEN DefaultSkew ELSE l.notBeforeSkew
                          last == Smaller(Now + l.validity, l.cert.notAfter)
                      IN  /\ identitiesMatch(IdentityOf(out.value), IdentityOf(csr))
                          /\ \A t \in (Now - skew)..last :
                                t >= l.cert.notBefore => VerifiedAsClient(l, out.value, t)
    BY DEF EnrolledCanReenroll
  <2>1. arg \in Requests \X LocalCAs
    BY DEF EvaluationInv, Evaluated, Inputs
  <2>2. PICK csr \in Request : csr = arg[1]
    BY <2>1, RequestAssumption
  <2>3. PICK l \in [cert : CACertificate, validity : Nat,
                    extKeyUsage : {{"clientAuth"}}, notBeforeSkew : Nat] : l = arg[2]
    BY <2>1, RequestAssumption
  <2> DEFINE ca == l.cert
             skew == IF l.notBeforeSkew = 0 THEN DefaultSkew ELSE l.notBeforeSkew
             last == Smaller(Now + l.validity, ca.notAfter)
             cert == IssueCertificate(l, csr, 1, Now).value
  <2>4. l = NewLocalCA(ca, l.validity, l.notBeforeSkew)
    BY DEF NewLocalCA
  <2>5. out = IssueCertificate(l, csr, 1, Now) /\ out.value = cert /\ csr.pop
    <3>1. out = IssueCertificate(l, csr, 1, Now)
      BY <2>2, <2>3 DEF EvaluationInv
    <3>2. csr.pop
      BY <3>1 DEF IssueCertificate, Failure, Request
    <3> QED
      BY <3>1, <3>2
  <2>6. /\ sanSet(IdentityOf(cert)) = sanSet(IdentityOf(csr))
        /\ \A t \in ca.notBefore..ca.notAfter :
              VerifiedAsClient(l, cert, t) <=> t \in (Now - skew)..(Now + l.validity)
    <3>1. l.validity \in Nat /\ l.notBeforeSkew \in Nat /\ Now \in Nat
      BY RequestAssumption
    <3> DEFINE new == NewLocalCA(ca, l.validity, l.notBeforeSkew)
               made == IssueCertificate(new, csr, 1, Now).value
    <3>2. /\ sanSet(IdentityOf(made)) = sanSet(IdentityOf(csr))
          /\ \A t \in ca.notBefore..ca.notAfter :
                VerifiedAsClient(new, made, t) <=> t \in (Now - skew)..(Now + l.validity)
      BY <2>5, <3>1, SANsAreKept
    <3>3. new = l /\ made = cert
      BY <2>4
    <3> HIDE DEF new, made, cert
    <3> QED
      BY <3>2, <3>3
  <2>7. IdentityOf(cert).cn = IdentityOf(csr).cn
    <3>1. cert.subject = ToRDNSequence(ParseName(csr.subject))
      BY <2>5 DEF IssueCertificate, Success
    <3>2. csr.subject \in Seq(Attributes)
      BY DEF Request, Attributes
    <3> HIDE DEF cert
    <3>3. ParseName(cert.subject).cn = ParseName(csr.subject).cn
      BY <3>1, <3>2, CommonNameIsKept
    <3> QED
      BY <3>3 DEF IdentityOf
  <2> HIDE DEF cert
  <2>8. identitiesMatch(IdentityOf(cert), IdentityOf(csr))
    BY <2>6, <2>7 DEF identitiesMatch
  <2>9. ASSUME NEW t \in (Now - skew)..last, t >= ca.notBefore
        PROVE  VerifiedAsClient(l, cert, t)
    <3>1. /\ l.validity \in Nat /\ Now \in Nat /\ ca.notBefore \in Int /\ ca.notAfter \in Int
          /\ skew \in Nat
      BY RequestAssumption, LocalCAAssumption DEF CACertificate
    <3> HIDE DEF skew, ca
    <3>2. t \in ca.notBefore..ca.notAfter /\ t \in (Now - skew)..(Now + l.validity)
      BY <2>9, <3>1 DEF Smaller
    <3> QED
      BY <2>6, <3>2
  <2> QED
    BY <2>2, <2>3, <2>5, <2>8, <2>9
<1> QED
  BY <1>1, EvaluationInvariant, PTL

-----------------------------------------------------------------------------
(* The builder of csrattrs: where a mark of an error comes from.           *)

Stream == Seq(Int)

Marked(b) == \E i \in DOMAIN b : b[i] = ErrorMark

LEMMA EmptyIsUnmarked == <<>> \in Stream /\ ~ Marked(<<>>)
BY DEF Stream, Marked

LEMMA MarkOfConcat ==
    ASSUME NEW a \in Stream, NEW b \in Stream
    PROVE  a \o b \in Stream /\ (Marked(a \o b) <=> Marked(a) \/ Marked(b))
<1>1. /\ a \o b \in Seq(Int) /\ Len(a \o b) = Len(a) + Len(b)
      /\ \A i \in 1..Len(a) : (a \o b)[i] = a[i]
      /\ \A i \in 1..Len(b) : (a \o b)[Len(a) + i] = b[i]
  BY DEF Stream
<1>2. ASSUME Marked(a)
      PROVE  Marked(a \o b)
  <2>1. PICK i \in 1..Len(a) : a[i] = ErrorMark
    BY <1>2 DEF Marked, Stream
  <2>2. (a \o b)[i] = ErrorMark /\ i \in 1..Len(a \o b)
    BY <1>1, <2>1 DEF Stream
  <2> QED
    BY <1>1, <2>2 DEF Marked
<1>3. ASSUME Marked(b)
      PROVE  Marked(a \o b)
  <2>1. PICK i \in 1..Len(b) : b[i] = ErrorMark
    BY <1>3 DEF Marked, Stream
  <2>2. (a \o b)[Len(a) + i] = ErrorMark /\ Len(a) + i \in 1..Len(a \o b)
    BY <1>1, <2>1 DEF Stream
  <2>3. Len(a) + i \in DOMAIN (a \o b)
    BY <1>1, <2>2
  <2> QED
    BY <2>2, <2>3, Zenon DEF Marked
<1>4. ASSUME Marked(a \o b)
      PROVE  Marked(a) \/ Marked(b)
  <2>1. PICK i \in 1..Len(a \o b) : (a \o b)[i] = ErrorMark
    BY <1>1, <1>4 DEF Marked
  <2>2. CASE i \in 1..Len(a)
    BY <1>1, <2>1, <2>2 DEF Marked, Stream
  <2>3. CASE i \notin 1..Len(a)
    <3>1. PICK j \in 1..Len(b) : i = Len(a) + j
      <4>1. i - Len(a) \in 1..Len(b) /\ i = Len(a) + (i - Len(a))
        BY <1>1, <2>1, <2>3 DEF Stream
      <4> QED
        BY <4>1
    <3>2. b[j] = ErrorMark
      BY <1>1, <2>1, <3>1
    <3> QED
      BY <3>2 DEF Marked, Stream
  <2> QED
    BY <2>2, <2>3
<1> QED
  BY <1>1, <1>2, <1>3, <1>4 DEF Stream

LEMMA MarkOfElement ==
    ASSUME NEW tag \in Nat, NEW c \in Stream
    PROVE  Element(tag, c) \in Stream /\ (Marked(Element(tag, c)) <=> Marked(c))
<1>1. Len(c) \in Nat /\ <<tag, Len(c)>> \in Stream
  BY DEF Stream
<1>2. ~ Marked(<<tag, Len(c)>>)
  BY <1>1 DEF Marked, ErrorMark
<1> QED
  BY <1>1, <1>2, MarkOfConcat DEF Element

LEMMA OctetsAreUnmarked ==
    ASSUME NEW c \in Seq(Octet)
    PROVE  c \in Stream /\ ~ Marked(c)
<1>1. \A x \in Octet : x \in Int /\ x # ErrorMark
  BY DEF Octet, ErrorMark
<1>2. \A i \in 1..Len(c) : c[i] \in Octet
  OBVIOUS
<1>3. \A i \in 1..Len(c) : c[i] # ErrorMark
  BY <1>1, <1>2, Zenon
<1>4. Octet \subseteq Int
  BY <1>1
<1>5. c \in Stream
  BY <1>4, SeqMonotonic DEF Stream
<1> QED
  BY <1>3, <1>5 DEF Marked, Stream

LEMMA MarkOfOID ==
    ASSUME NEW oid \in OID
    PROVE  addOID(oid) \in Stream /\ (Marked(addOID(oid)) <=> oid = Malformed)
<1>1. CASE oid = Malformed
  <2>1. <<ErrorMark>> \in Stream /\ Marked(<<ErrorMark>>)
    BY DEF Stream, Marked, ErrorMark
  <2> QED
    BY <1>1, <2>1 DEF addOID, SetError
<1>2. CASE oid # Malformed
  <2>1. oid \in 0..127
    BY <1>2 DEF OID
  <2>2. oid \in Octet /\ <<oid>> \in Seq(Octet)
    BY <2>1 DEF Octet
  <2>3. <<oid>> \in Stream /\ ~ Marked(<<oid>>)
    BY <2>2, OctetsAreUnmarked
  <2>4. OIDTag \in Nat
    BY DEF OIDTag
  <2> QED
    BY <1>2, <2>3, <2>4, MarkOfElement DEF addOID
<1> QED
  BY <1>1, <1>2

\* A mark of several is the mark of one of them.
LEMMA MarkOfFlatten ==
    ASSUME NEW seqs \in Seq(Stream)
    PROVE  /\ FlattenSeq(seqs) \in Stream
           /\ Marked(FlattenSeq(seqs)) <=> \E i \in 1..Len(seqs) : Marked(seqs[i])
<1> DEFINE n == Len(seqs)
           Some(k) == \E i \in 1..k : Marked(seqs[i])
<1>1. PICK g : IsJoin(g, seqs, Int) /\ FlattenSeq(seqs) = g[n]
  BY FlattenJoins DEF Stream
<1> DEFINE T == {k \in 0..n : Marked(g[k]) <=> Some(k)}
<1>2. n \in Nat /\ \A i \in 1..n : seqs[i] \in Stream
  OBVIOUS
<1>3. /\ \A i \in 0..n : g[i] \in Stream
      /\ g[0] = <<>> /\ \A i \in 1..n : g[i] = g[i - 1] \o seqs[i]
  BY <1>1 DEF IsJoin, Stream
<1> HIDE DEF n
<1>4. 0 \in T
  <2>1. ~ Marked(g[0])
    BY <1>3, EmptyIsUnmarked
  <2> QED
    BY <1>2, <2>1
<1>5. ASSUME NEW k \in T, k < n
      PROVE  k + 1 \in T
  <2>1. k \in 0..n /\ k + 1 \in 1..n /\ (k + 1) - 1 = k /\ k + 1 \in 0..n
    BY <1>2, <1>5
  <2>2. g[k + 1] = g[k] \o seqs[k + 1] /\ g[k] \in Stream /\ seqs[k + 1] \in Stream
    BY <1>2, <1>3, <2>1
  <2>3. Marked(g[k + 1]) <=> Some(k) \/ Marked(seqs[k + 1])
    <3> HIDE DEF Some
    <3> QED
      BY <1>5, <2>2, MarkOfConcat
  <2>4. Some(k + 1) <=> Some(k) \/ Marked(seqs[k + 1])
    <3>1. \A i \in 1..(k + 1) : i \in 1..k \/ i = k + 1
      BY <2>1
    <3>2. k + 1 \in 1..(k + 1) /\ \A i \in 1..k : i \in 1..(k + 1)
      BY <2>1
    <3> QED
      BY <3>1, <3>2, Zenon
  <2> HIDE DEF Some
  <2> QED
    BY <2>1, <2>3, <2>4
<1> HIDE DEF T
<1>6. T = 0..n
  <2>1. T \in SUBSET (0..n)
    BY DEF T
  <2> QED
    BY <1>2, <1>4, <1>5, <2>1, UpToLast
<1>7. n \in T /\ n \in 0..n
  BY <1>2, <1>6
<1> QED
  BY <1>1, <1>3, <1>7 DEF T, n

\* AddEach of what marks exactly the malformed entries.
Malforms(x) == Malformed \in {x.oid, x.value}

LEMMA MarkOfExtension ==
    ASSUME NEW e \in ExtensionTemplate
    PROVE  /\ addExtensionTemplate(e) \in Stream
           /\ Marked(addExtensionTemplate(e)) <=> Malforms(e)
<1> DEFINE value == CASE e.value = None      -> <<>>
                      [] e.value = Malformed -> SetError
                      [] OTHER               -> Element(OCTETSTRINGTag, e.value)
<1>1. /\ e.oid \in OID /\ e.critical \in BOOLEAN
      /\ e.value \in Seq(Octet) \/ e.value = Malformed \/ e.value = None
  BY DEF ExtensionTemplate
<1>2. None # Malformed
  BY ConfigurationAssumption DEF OID
<1>3. SEQUENCETag \in Nat /\ OCTETSTRINGTag \in Nat /\ BOOLEANTag \in Nat
  BY DEF SEQUENCETag, OCTETSTRINGTag, BOOLEANTag
<1>4. addOID(e.oid) \in Stream /\ (Marked(addOID(e.oid)) <=> e.oid = Malformed)
  BY <1>1, MarkOfOID
<1>5. addCritical(e.critical) \in Stream /\ ~ Marked(addCritical(e.critical))
  <2>1. <<255>> \in Stream /\ ~ Marked(<<255>>)
    BY DEF Stream, Marked, ErrorMark
  <2> QED
    BY <1>3, <2>1, MarkOfElement, EmptyIsUnmarked DEF addCritical
<1>6. value \in Stream /\ (Marked(value) <=> e.value = Malformed)
  <2>1. CASE e.value = None
    BY <1>2, <2>1, EmptyIsUnmarked
  <2>2. CASE e.value = Malformed
    <3>1. SetError \in Stream /\ Marked(SetError)
      BY DEF SetError, Stream, Marked, ErrorMark
    <3>2. value = SetError
      BY <1>2, <2>2
    <3> HIDE DEF value
    <3> QED
      BY <2>2, <3>1, <3>2
  <2>3. CASE e.value # None /\ e.value # Malformed
    <3>1. value = Element(OCTETSTRINGTag, e.value)
      BY <2>3
    <3>2. e.value \in Stream /\ ~ Marked(e.value)
      BY <1>1, <2>3, OctetsAreUnmarked
    <3> HIDE DEF value
    <3> QED
      BY <1>3, <2>3, <3>1, <3>2, MarkOfElement
  <2> QED
    BY <2>1, <2>2, <2>3
<1>7. addExtensionTemplate(e)
          = Element(SEQUENCETag, addOID(e.oid) \o addCritical(e.critical) \o value)
  BY DEF addExtensionTemplate
<1> HIDE DEF value
<1>8. /\ addOID(e.oid) \o addCritical(e.critical) \in Stream
      /\ Marked(addOID(e.oid) \o addCritical(e.critical)) <=> e.oid = Malformed
  BY <1>4, <1>5, MarkOfConcat
<1>9. /\ addOID(e.oid) \o addCritical(e.critical) \o value \in Stream
      /\ Marked(addOID(e.oid) \o addCritical(e.critical) \o value)
            <=> e.oid = Malformed \/ e.value = Malformed
  BY <1>6, <1>8, MarkOfConcat
<1>10. Malforms(e) <=> e.oid = Malformed \/ e.value = Malformed
  BY DEF Malforms
<1> QED
  BY <1>3, <1>7, <1>9, <1>10, MarkOfElement

LEMMA MarkOfExtensions ==
    ASSUME NEW exts \in Seq(ExtensionTemplate)
    PROVE  LET added == Element(SEQUENCETag, AddEach(addExtensionTemplate, exts))
           IN  added \in Stream /\ (Marked(added) <=> \E i \in DOMAIN exts : Malforms(exts[i]))
<1> DEFINE seqs == [i \in DOMAIN exts |-> addExtensionTemplate(exts[i])]
<1>1. \A i \in DOMAIN exts : exts[i] \in ExtensionTemplate /\ DOMAIN exts = 1..Len(exts)
  OBVIOUS
<1>2. \A i \in DOMAIN exts : /\ addExtensionTemplate(exts[i]) \in Stream
                             /\ Marked(addExtensionTemplate(exts[i])) <=> Malforms(exts[i])
  BY <1>1, MarkOfExtension
<1>3. /\ seqs \in Seq(Stream) /\ DOMAIN exts = 1..Len(seqs)
      /\ \A i \in DOMAIN exts : seqs[i] = addExtensionTemplate(exts[i])
  BY <1>2
<1>4. AddEach(addExtensionTemplate, exts) = FlattenSeq(seqs)
  BY DEF AddEach
<1> HIDE DEF seqs
<1>5. /\ FlattenSeq(seqs) \in Stream
      /\ Marked(FlattenSeq(seqs)) <=> \E i \in 1..Len(seqs) : Marked(seqs[i])
  BY <1>3, MarkOfFlatten
<1>6. Marked(FlattenSeq(seqs)) <=> \E i \in DOMAIN exts : Malforms(exts[i])
  BY <1>2, <1>3, <1>5
<1>7. SEQUENCETag \in Nat
  BY DEF SEQUENCETag
<1> QED
  BY <1>4, <1>5, <1>6, <1>7, MarkOfElement

LEMMA TagsAre ==
    /\ SEQUENCETag \in Nat /\ SETTag \in Nat /\ INTEGERTag \in Nat /\ UTF8StringTag \in Nat
    /\ ContextTag(0) \in Nat /\ ContextTag(1) \in Nat
BY DEF SEQUENCETag, SETTag, INTEGERTag, UTF8StringTag, ContextTag

LEMMA OwnOIDs ==
    /\ {oidChallengePassword, oidExtensionReq, oidCertificationRequestInfoTemplate,
        oidExtensionReqTemplate} \subseteq OID
    /\ Malformed \notin {oidChallengePassword, oidExtensionReq,
                         oidCertificationRequestInfoTemplate, oidExtensionReqTemplate}
<1>1. {oidChallengePassword, oidExtensionReq, oidCertificationRequestInfoTemplate,
       oidExtensionReqTemplate} \subseteq 0..127
  BY DEF oidChallengePassword, oidExtensionReq, oidCertificationRequestInfoTemplate,
         oidExtensionReqTemplate
<1> QED
  BY <1>1, ConfigurationAssumption DEF OID

LEMMA MarkOfAttribute ==
    ASSUME NEW oid \in OID, NEW values \in Stream
    PROVE  /\ addAttribute(oid, values) \in Stream
           /\ Marked(addAttribute(oid, values)) <=> oid = Malformed \/ Marked(values)
<1>1. addOID(oid) \in Stream /\ (Marked(addOID(oid)) <=> oid = Malformed)
  BY MarkOfOID
<1>2. Element(SETTag, values) \in Stream /\ (Marked(Element(SETTag, values)) <=> Marked(values))
  BY TagsAre, MarkOfElement
<1>3. /\ addOID(oid) \o Element(SETTag, values) \in Stream
      /\ Marked(addOID(oid) \o Element(SETTag, values)) <=> oid = Malformed \/ Marked(values)
  BY <1>1, <1>2, MarkOfConcat
<1> QED
  BY <1>3, TagsAre, MarkOfElement DEF addAttribute

LEMMA MarkOfKeyAlgorithm ==
    ASSUME NEW ka \in KeyAlgorithm
    PROVE  /\ addKeyAlgorithmAttribute(ka) \in Stream
           /\ Marked(addKeyAlgorithmAttribute(ka)) <=> Malformed \in {ka.oid, ka.curve}
<1> DEFINE values == IF ka.curve # None THEN addOID(ka.curve)
                     ELSE IF ka.bits # 0 THEN Element(INTEGERTag, IntegerContent(ka.bits))
                     ELSE <<>>
<1>1. ka.oid \in OID /\ (ka.curve \in OID \/ ka.curve = None) /\ ka.bits \in Nat
  BY DEF KeyAlgorithm
<1>2. None # Malformed
  BY ConfigurationAssumption DEF OID
<1>3. values \in Stream /\ (Marked(values) <=> ka.curve = Malformed)
  <2>1. CASE ka.curve # None
    BY <1>1, <2>1, MarkOfOID
  <2>2. CASE ka.curve = None
    <3>1. IntegerContent(ka.bits) \in Stream /\ ~ Marked(IntegerContent(ka.bits))
      BY <1>1, IntegerContentIs, OctetsAreUnmarked
    <3>2. /\ Element(INTEGERTag, IntegerContent(ka.bits)) \in Stream
          /\ ~ Marked(Element(INTEGERTag, IntegerContent(ka.bits)))
      BY <3>1, TagsAre, MarkOfElement
    <3> QED
      BY <1>2, <2>2, <3>2, EmptyIsUnmarked
  <2> QED
    BY <2>1, <2>2
<1>4. addKeyAlgorithmAttribute(ka) = addAttribute(ka.oid, values)
  BY DEF addKeyAlgorithmAttribute
<1> HIDE DEF values
<1> QED
  BY <1>1, <1>3, <1>4, MarkOfAttribute

LEMMA MarkOfExtensionReq ==
    ASSUME NEW exts \in Seq(ExtensionTemplate)
    PROVE  /\ addExtensionReqAttribute(exts) \in Stream
           /\ Marked(addExtensionReqAttribute(exts))
                 <=> \E i \in DOMAIN exts : Malforms(exts[i])
<1>1. CASE \E i \in DOMAIN exts : Malforms(exts[i])
  <2>1. SetError \in Stream /\ Marked(SetError)
    BY DEF SetError, Stream, Marked, ErrorMark
  <2>2. addExtensionReqAttribute(exts) = SetError
    BY <1>1 DEF addExtensionReqAttribute, Malforms
  <2> QED
    BY <1>1, <2>1, <2>2
<1>2. CASE ~ \E i \in DOMAIN exts : Malforms(exts[i])
  <2>1. addExtensionReqAttribute(exts)
            = addAttribute(oidExtensionReq, marshalExtensions(exts))
    BY <1>2 DEF addExtensionReqAttribute, Malforms
  <2>2. marshalExtensions(exts) \in Stream /\ ~ Marked(marshalExtensions(exts))
    BY <1>2, MarkOfExtensions DEF marshalExtensions
  <2> QED
    BY <1>2, <2>1, <2>2, OwnOIDs, MarkOfAttribute
<1> QED
  BY <1>1, <1>2

LEMMA MarkOfTemplateAttributes ==
    ASSUME NEW exts \in Seq(ExtensionTemplate)
    PROVE  /\ addTemplateAttributes(exts) \in Stream
           /\ Marked(addTemplateAttributes(exts)) <=> \E i \in DOMAIN exts : Malforms(exts[i])
<1> DEFINE list == Element(SEQUENCETag, AddEach(addExtensionTemplate, exts))
           content == IF exts = <<>> THEN <<>>
                      ELSE IF \A i \in DOMAIN exts : exts[i].value # None
                           THEN addExtensionReqAttribute(exts)
                           ELSE addExtensionReqTemplateAttribute(exts)
<1>1. list \in Stream /\ (Marked(list) <=> \E i \in DOMAIN exts : Malforms(exts[i]))
  BY MarkOfExtensions
<1>2. addExtensionReqTemplateAttribute(exts) = addAttribute(oidExtensionReqTemplate, list)
  BY DEF addExtensionReqTemplateAttribute
<1> HIDE DEF list
<1>3. /\ addExtensionReqTemplateAttribute(exts) \in Stream
      /\ Marked(addExtensionReqTemplateAttribute(exts))
            <=> \E i \in DOMAIN exts : Malforms(exts[i])
  BY <1>1, <1>2, OwnOIDs, MarkOfAttribute
<1>4. exts = <<>> => ~ \E i \in DOMAIN exts : Malforms(exts[i])
  OBVIOUS
<1>5. content \in Stream /\ (Marked(content) <=> \E i \in DOMAIN exts : Malforms(exts[i]))
  BY <1>3, <1>4, MarkOfExtensionReq, EmptyIsUnmarked, Zenon
<1>6. addTemplateAttributes(exts) = Element(ContextTag(1), content)
  BY DEF addTemplateAttributes
<1> HIDE DEF content
<1> QED
  BY <1>5, <1>6, TagsAre, MarkOfElement

LEMMA MarkOfRDN ==
    ASSUME NEW rdn \in RDN
    PROVE  LET added == Element(SETTag, Element(SEQUENCETag,
                                    addOID(rdn.oid) \o addRDNValue(rdn.value)))
           IN  added \in Stream /\ (Marked(added) <=> Malforms(rdn))
<1>1. rdn.oid \in OID /\ (rdn.value \in Seq(Octet) \/ rdn.value = None)
  BY DEF RDN
<1>2. rdn.value # Malformed
  BY <1>1, ConfigurationAssumption DEF OID
<1>3. addOID(rdn.oid) \in Stream /\ (Marked(addOID(rdn.oid)) <=> rdn.oid = Malformed)
  BY <1>1, MarkOfOID
<1>4. addRDNValue(rdn.value) \in Stream /\ ~ Marked(addRDNValue(rdn.value))
  <2>1. CASE rdn.value = None
    BY <2>1, EmptyIsUnmarked DEF addRDNValue
  <2>2. CASE rdn.value # None
    BY <1>1, <2>2, OctetsAreUnmarked, TagsAre, MarkOfElement DEF addRDNValue
  <2> QED
    BY <2>1, <2>2
<1>5. /\ addOID(rdn.oid) \o addRDNValue(rdn.value) \in Stream
      /\ Marked(addOID(rdn.oid) \o addRDNValue(rdn.value)) <=> rdn.oid = Malformed
  BY <1>3, <1>4, MarkOfConcat
<1>6. Malforms(rdn) <=> rdn.oid = Malformed
  BY <1>2 DEF Malforms
<1> QED
  BY <1>5, <1>6, TagsAre, MarkOfElement

LEMMA MarkOfSubject ==
    ASSUME NEW rdns \in Seq(RDN)
    PROVE  /\ addSubjectTemplate(rdns) \in Stream
           /\ Marked(addSubjectTemplate(rdns)) <=> \E i \in DOMAIN rdns : Malforms(rdns[i])
<1> DEFINE added(rdn) == Element(SETTag, Element(SEQUENCETag,
                                     addOID(rdn.oid) \o addRDNValue(rdn.value)))
           seqs == [i \in DOMAIN rdns |-> added(rdns[i])]
<1>1. \A i \in DOMAIN rdns : rdns[i] \in RDN /\ DOMAIN rdns = 1..Len(rdns)
  OBVIOUS
<1>2. \A rdn \in RDN : added(rdn) \in Stream /\ (Marked(added(rdn)) <=> Malforms(rdn))
  BY MarkOfRDN
<1>3. addSubjectTemplate(rdns) = Element(SEQUENCETag, FlattenSeq(seqs))
  BY DEF addSubjectTemplate, AddEach
<1> HIDE DEF added
<1>4. /\ seqs \in Seq(Stream) /\ DOMAIN rdns = 1..Len(seqs)
      /\ \A i \in DOMAIN rdns : seqs[i] = added(rdns[i])
  BY <1>1, <1>2
<1> HIDE DEF seqs
<1>5. /\ FlattenSeq(seqs) \in Stream
      /\ Marked(FlattenSeq(seqs)) <=> \E i \in 1..Len(seqs) : Marked(seqs[i])
  BY <1>4, MarkOfFlatten
<1>6. Marked(FlattenSeq(seqs)) <=> \E i \in DOMAIN rdns : Malforms(rdns[i])
  BY <1>1, <1>2, <1>4, <1>5
<1> QED
  BY <1>3, <1>5, <1>6, TagsAre, MarkOfElement

LEMMA MarkOfKeyType ==
    ASSUME NEW ka \in KeyAlgorithm
    PROVE  /\ addSubjectPKInfoTemplate(ka) \in Stream
           /\ Marked(addSubjectPKInfoTemplate(ka)) <=> Malformed \in {ka.oid, ka.curve}
<1> DEFINE curve == IF ka.curve # None THEN addOID(ka.curve) ELSE <<>>
<1>1. ka.oid \in OID /\ (ka.curve \in OID \/ ka.curve = None)
  BY DEF KeyAlgorithm
<1>2. None # Malformed
  BY ConfigurationAssumption DEF OID
<1>3. curve \in Stream /\ (Marked(curve) <=> ka.curve = Malformed)
  BY <1>1, <1>2, MarkOfOID, EmptyIsUnmarked
<1>4. addOID(ka.oid) \in Stream /\ (Marked(addOID(ka.oid)) <=> ka.oid = Malformed)
  BY <1>1, MarkOfOID
<1>5. addSubjectPKInfoTemplate(ka)
          = Element(ContextTag(0), Element(SEQUENCETag, addOID(ka.oid) \o curve))
  BY DEF addSubjectPKInfoTemplate
<1> HIDE DEF curve
<1>6. /\ addOID(ka.oid) \o curve \in Stream
      /\ Marked(addOID(ka.oid) \o curve) <=> ka.oid = Malformed \/ ka.curve = Malformed
  BY <1>3, <1>4, MarkOfConcat
<1> QED
  BY <1>5, <1>6, TagsAre, MarkOfElement

\* What HasMalformed finds in a template.
TemplateMalforms(t) ==
    \/ t.keyType # None /\ Malformed \in {t.keyType.oid, t.keyType.curve}
    \/ \E i \in DOMAIN t.subject : Malforms(t.subject[i])
    \/ \E i \in DOMAIN t.extensions : Malforms(t.extensions[i])

LEMMA MarkOfTemplate ==
    ASSUME NEW t \in Template
    PROVE  addTemplate(t) \in Stream /\ (Marked(addTemplate(t)) <=> TemplateMalforms(t))
<1> DEFINE InKey == t.keyType # None /\ Malformed \in {t.keyType.oid, t.keyType.curve}
           InSubject == \E i \in DOMAIN t.subject : Malforms(t.subject[i])
           InExtensions == \E i \in DOMAIN t.extensions : Malforms(t.extensions[i])
           version == Element(INTEGERTag, IntegerContent(0))
           subject == IF t.subject = <<>> THEN <<>> ELSE addSubjectTemplate(t.subject)
           key == IF t.keyType = None THEN <<>> ELSE addSubjectPKInfoTemplate(t.keyType)
           attributes == addTemplateAttributes(t.extensions)
<1>1. /\ t.subject \in Seq(RDN) /\ (t.keyType \in KeyAlgorithm \/ t.keyType = None)
      /\ t.extensions \in Seq(ExtensionTemplate)
  BY DEF Template
<1>2. version \in Stream /\ ~ Marked(version)
  <2>1. IntegerContent(0) \in Stream /\ ~ Marked(IntegerContent(0))
    <3>1. 0 \in Nat
      OBVIOUS
    <3> QED
      BY <3>1, IntegerContentIs, OctetsAreUnmarked
  <2> QED
    BY <2>1, TagsAre, MarkOfElement
<1>3. subject \in Stream /\ (Marked(subject) <=> InSubject)
  <2>1. t.subject = <<>> => ~ InSubject
    OBVIOUS
  <2> HIDE DEF InSubject
  <2>2. /\ addSubjectTemplate(t.subject) \in Stream
        /\ Marked(addSubjectTemplate(t.subject)) <=> InSubject
    BY <1>1, MarkOfSubject DEF InSubject
  <2> QED
    BY <2>1, <2>2, EmptyIsUnmarked
<1>4. key \in Stream /\ (Marked(key) <=> InKey)
  BY <1>1, MarkOfKeyType, EmptyIsUnmarked
<1>5. attributes \in Stream /\ (Marked(attributes) <=> InExtensions)
  BY <1>1, MarkOfTemplateAttributes
<1>6. addTemplate(t) = Element(SEQUENCETag, version \o subject \o key \o attributes)
  BY DEF addTemplate
<1>7. TemplateMalforms(t) <=> InKey \/ InSubject \/ InExtensions
  BY DEF TemplateMalforms
<1> HIDE DEF version, subject, key, attributes, InKey, InSubject, InExtensions
<1>8. version \o subject \in Stream /\ (Marked(version \o subject) <=> InSubject)
  BY <1>2, <1>3, MarkOfConcat
<1>9. /\ version \o subject \o key \in Stream
      /\ Marked(version \o subject \o key) <=> InSubject \/ InKey
  BY <1>4, <1>8, MarkOfConcat
<1>10. /\ version \o subject \o key \o attributes \in Stream
       /\ Marked(version \o subject \o key \o attributes)
             <=> InSubject \/ InKey \/ InExtensions
  BY <1>5, <1>9, MarkOfConcat
<1> QED
  BY <1>6, <1>7, <1>10, TagsAre, MarkOfElement

LEMMA MarkOfExtraOIDs ==
    ASSUME NEW oids \in Seq(OID)
    PROVE  /\ AddEach(addOID, oids) \in Stream
           /\ Marked(AddEach(addOID, oids)) <=> Malformed \in ToSet(oids)
<1> DEFINE seqs == [i \in DOMAIN oids |-> addOID(oids[i])]
<1>1. \A i \in DOMAIN oids : oids[i] \in OID /\ DOMAIN oids = 1..Len(oids)
  OBVIOUS
<1>2. \A i \in DOMAIN oids : /\ addOID(oids[i]) \in Stream
                             /\ Marked(addOID(oids[i])) <=> oids[i] = Malformed
  BY <1>1, MarkOfOID
<1>3. /\ seqs \in Seq(Stream) /\ DOMAIN oids = 1..Len(seqs)
      /\ \A i \in DOMAIN oids : seqs[i] = addOID(oids[i])
  BY <1>2
<1>4. AddEach(addOID, oids) = FlattenSeq(seqs)
  BY DEF AddEach
<1> HIDE DEF seqs
<1>5. /\ FlattenSeq(seqs) \in Stream
      /\ Marked(FlattenSeq(seqs)) <=> \E i \in 1..Len(seqs) : Marked(seqs[i])
  BY <1>3, MarkOfFlatten
<1>6. Marked(FlattenSeq(seqs)) <=> \E i \in DOMAIN oids : oids[i] = Malformed
  BY <1>2, <1>3, <1>5
<1> QED
  BY <1>4, <1>5, <1>6 DEF ToSet

LEMMA MarkOfOptions ==
    ASSUME NEW o \in Configuration
    PROVE  LET b == Element(SEQUENCETag,
                     (IF o.challengePassword THEN addOID(oidChallengePassword) ELSE <<>>)
                     \o (IF o.keyAlgorithm = None THEN <<>>
                         ELSE addKeyAlgorithmAttribute(o.keyAlgorithm))
                     \o (IF o.requiredExtensions = <<>> THEN <<>>
                         ELSE addExtensionReqAttribute(o.requiredExtensions))
                     \o AddEach(addOID, o.extraOIDs)
                     \o (IF o.template = None THEN <<>>
                         ELSE addAttribute(oidCertificationRequestInfoTemplate,
                                           addTemplate(o.template))))
           IN  b \in Stream /\ (Marked(b) <=> HasMalformed(o))
<1> DEFINE InKey == /\ o.keyAlgorithm # None
                    /\ Malformed \in {o.keyAlgorithm.oid, o.keyAlgorithm.curve}
           InList == \E i \in DOMAIN o.requiredExtensions : Malforms(o.requiredExtensions[i])
           InOIDs == Malformed \in ToSet(o.extraOIDs)
           InTemplate == o.template # None /\ TemplateMalforms(o.template)
           password == IF o.challengePassword THEN addOID(oidChallengePassword) ELSE <<>>
           key == IF o.keyAlgorithm = None THEN <<>>
                  ELSE addKeyAlgorithmAttribute(o.keyAlgorithm)
           exts == IF o.requiredExtensions = <<>> THEN <<>>
                   ELSE addExtensionReqAttribute(o.requiredExtensions)
           oids == AddEach(addOID, o.extraOIDs)
           template == IF o.template = None THEN <<>>
                       ELSE addAttribute(oidCertificationRequestInfoTemplate,
                                         addTemplate(o.template))
<1>1. /\ o.keyAlgorithm \in KeyAlgorithm \/ o.keyAlgorithm = None
      /\ o.extraOIDs \in Seq(OID)
      /\ o.template \in Template \/ o.template = None
      /\ o.requiredExtensions \in Seq(Extension)
  BY DEF Configuration
<1>2. o.requiredExtensions \in Seq(ExtensionTemplate)
  <2>1. Extension \subseteq ExtensionTemplate
    BY DEF Extension, ExtensionTemplate
  <2> QED
    BY <1>1, <2>1, SeqMonotonic
<1>3. password \in Stream /\ ~ Marked(password)
  BY OwnOIDs, MarkOfOID, EmptyIsUnmarked
<1>4. key \in Stream /\ (Marked(key) <=> InKey)
  BY <1>1, MarkOfKeyAlgorithm, EmptyIsUnmarked
<1>5. exts \in Stream /\ (Marked(exts) <=> InList)
  <2>1. o.requiredExtensions = <<>> => ~ InList
    OBVIOUS
  <2> HIDE DEF InList
  <2>2. /\ addExtensionReqAttribute(o.requiredExtensions) \in Stream
        /\ Marked(addExtensionReqAttribute(o.requiredExtensions)) <=> InList
    BY <1>2, MarkOfExtensionReq DEF InList
  <2> QED
    BY <2>1, <2>2, EmptyIsUnmarked
<1>6. oids \in Stream /\ (Marked(oids) <=> InOIDs)
  BY <1>1, MarkOfExtraOIDs
<1>7. template \in Stream /\ (Marked(template) <=> InTemplate)
  <2>1. CASE o.template = None
    BY <2>1, EmptyIsUnmarked
  <2>2. CASE o.template # None
    <3>1. /\ addTemplate(o.template) \in Stream
          /\ Marked(addTemplate(o.template)) <=> TemplateMalforms(o.template)
      BY <1>1, <2>2, MarkOfTemplate
    <3> QED
      BY <2>2, <3>1, OwnOIDs, MarkOfAttribute
  <2> QED
    BY <2>1, <2>2
<1>8. HasMalformed(o) <=> InKey \/ InList \/ InOIDs \/ InTemplate
  BY Zenon DEF HasMalformed, TemplateMalforms, Malforms
<1> HIDE DEF password, key, exts, oids, template, InKey, InList, InOIDs, InTemplate
<1>9. password \o key \in Stream /\ (Marked(password \o key) <=> InKey)
  BY <1>3, <1>4, MarkOfConcat
<1>10. /\ password \o key \o exts \in Stream
       /\ Marked(password \o key \o exts) <=> InKey \/ InList
  BY <1>5, <1>9, MarkOfConcat
<1>11. /\ password \o key \o exts \o oids \in Stream
       /\ Marked(password \o key \o exts \o oids) <=> InKey \/ InList \/ InOIDs
  BY <1>6, <1>10, MarkOfConcat
<1>12. /\ password \o key \o exts \o oids \o template \in Stream
       /\ Marked(password \o key \o exts \o oids \o template)
             <=> InKey \/ InList \/ InOIDs \/ InTemplate
  BY <1>7, <1>11, MarkOfConcat
<1>13. /\ Element(SEQUENCETag, password \o key \o exts \o oids \o template) \in Stream
       /\ Marked(Element(SEQUENCETag, password \o key \o exts \o oids \o template))
             <=> HasMalformed(o)
  BY <1>8, <1>12, TagsAre, MarkOfElement
<1> QED
  BY <1>13 DEF password, key, exts, oids, template

LEMMA OptionsAre ==
    ASSUME NEW cfg \in Configuration \cup {None}
    PROVE  csrAttrsOptions(cfg) \in Configuration
<1>1. EmptyOptions \in Configuration
  <2>1. <<>> \in Seq(Extension) /\ <<>> \in Seq(OID)
    OBVIOUS
  <2> QED
    BY <2>1 DEF EmptyOptions, Configuration
<1>2. ASSUME cfg # None
      PROVE  csrAttrsOptions(cfg) = cfg
  BY <1>2 DEF csrAttrsOptions, EmptyOptions, Configuration
<1> QED
  BY <1>1, <1>2 DEF csrAttrsOptions

\* csrattrs.go 122-150 and 199-203: in a configuration of any size, Encode
\* fails for exactly what Validate refuses and what does not parse, however
\* deep in the nested closures it is.
THEOREM EncodeFailsOnMalformed == Spec => []MalformedIsAnError
<1>1. EvaluationInv => MalformedIsAnError
  <2> SUFFICES ASSUME EvaluationInv, Evaluated("csrattrs")
               PROVE  LET o == csrAttrsOptions(arg)
                      IN  out.ok <=> Validate(o) /\ ~ HasMalformed(o)
    BY DEF MalformedIsAnError
  <2>1. arg \in Configurations
    BY DEF EvaluationInv, Evaluated, Inputs
  <2> DEFINE o == csrAttrsOptions(arg)
  <2>2. o \in Configuration
    BY <2>1, ConfigurationAssumption, OptionsAre
  <2>3. out = Encode(o)
    BY DEF EvaluationInv
  <2> HIDE DEF o
  <2>4. CASE ~ Validate(o)
    BY <2>3, <2>4 DEF Encode, Failure, o
  <2>5. CASE Validate(o) /\ isEmpty(o)
    <3>1. out.ok
      BY <2>3, <2>5 DEF Encode, Success
    <3>2. ~ HasMalformed(EmptyOptions)
      BY DEF HasMalformed, EmptyOptions, ToSet
    <3> QED
      BY <2>5, <3>1, <3>2 DEF isEmpty, o
  <2>6. CASE Validate(o) /\ ~ isEmpty(o)
    <3>1. PICK b : out = Bytes(b) /\ b \in Stream /\ (Marked(b) <=> HasMalformed(o))
      BY <2>2, <2>3, <2>6, MarkOfOptions DEF Encode
    <3>2. out.ok <=> ~ Marked(b)
      BY <3>1 DEF Bytes, Marked, Success, Failure
    <3> QED
      BY <2>6, <3>1, <3>2 DEF o
  <2> QED
    BY <2>4, <2>5, <2>6, Zenon DEF o
<1> QED
  BY <1>1, EvaluationInvariant, PTL

-----------------------------------------------------------------------------
(* The texts that base64 decodes to given octets.                          *)

LEMMA SplitSextet ==
    ASSUME NEW b \in Sextet
    PROVE  /\ \E h \in 0..3, l \in 0..15 : b = 16 * h + l /\ h = b \div 16
           /\ \E h \in 0..15, l \in 0..3 : b = 4 * h + l /\ h = b \div 4
<1>1. b \div 16 \in 0..3 /\ b % 16 \in 0..15 /\ b = 16 * (b \div 16) + (b % 16)
  BY SMT DEF Sextet
<1>2. b \div 4 \in 0..15 /\ b % 4 \in 0..3 /\ b = 4 * (b \div 4) + (b % 4)
  BY SMT DEF Sextet
<1>3. \E h \in 0..3, l \in 0..15 : b = 16 * h + l /\ h = b \div 16
  BY <1>1, Zenon
<1>4. \E h \in 0..15, l \in 0..3 : b = 4 * h + l /\ h = b \div 4
  BY <1>2, Zenon
<1> QED
  BY <1>3, <1>4

LEMMA SplitOctet ==
    ASSUME NEW b \in Octet
    PROVE  /\ \E h \in 0..63, l \in 0..3 : b = 4 * h + l
           /\ \E h \in 0..15, l \in 0..15 : b = 16 * h + l
           /\ \E h \in 0..3, l \in 0..63 : b = 64 * h + l
<1>1. b \div 4 \in 0..63 /\ b % 4 \in 0..3 /\ b = 4 * (b \div 4) + (b % 4)
  BY SMT DEF Octet
<1>2. b \div 16 \in 0..15 /\ b % 16 \in 0..15 /\ b = 16 * (b \div 16) + (b % 16)
  BY SMT DEF Octet
<1>3. b \div 64 \in 0..3 /\ b % 64 \in 0..63 /\ b = 64 * (b \div 64) + (b % 64)
  BY SMT DEF Octet
<1>4. \E h \in 0..63, l \in 0..3 : b = 4 * h + l
  BY <1>1, Zenon
<1>5. \E h \in 0..15, l \in 0..15 : b = 16 * h + l
  BY <1>2, Zenon
<1>6. \E h \in 0..3, l \in 0..63 : b = 64 * h + l
  BY <1>3, Zenon
<1> QED
  BY <1>4, <1>5, <1>6

LEMMA LowSextet ==
    ASSUME NEW y \in Nat, NEW w \in Nat, NEW x \in Sextet, y = 64 * w + x
    PROVE  y % 64 = x /\ y \div 64 = w
BY SMT DEF Sextet

\* A group of 24 bits cut both ways: into four digits a, 16 h + l, 4 m + n, d,
\* and into three octets 4 a + h, 16 l + m, 64 n + d.
Fields(a, h, l, m, n, d) ==
    /\ a \in Sextet /\ h \in 0..3 /\ l \in 0..15
    /\ m \in 0..15 /\ n \in 0..3 /\ d \in Sextet

LEMMA OctetsOfDigits ==
    ASSUME NEW a, NEW h, NEW l, NEW m, NEW n, NEW d, Fields(a, h, l, m, n, d),
           NEW b, b = 16 * h + l, NEW c, c = 4 * m + n
    PROVE  LET bits == BitsOfDigits(a, b, c, d)
           IN  /\ OctetOf(bits, 0) = 4 * a + h
               /\ OctetOf(bits, 1) = 16 * l + m
               /\ OctetOf(bits, 2) = 64 * n + d
<1>0. /\ a \in Sextet /\ h \in 0..3 /\ l \in 0..15
      /\ m \in 0..15 /\ n \in 0..3 /\ d \in Sextet
  BY DEF Fields
<1>1. PICK x \in Octet : x = 4 * a + h
  BY <1>0, SMT DEF Sextet, Octet
<1>2. PICK y \in Octet : y = 16 * l + m
  BY <1>0, SMT DEF Octet
<1>3. PICK z \in Octet : z = 64 * n + d
  BY <1>0, SMT DEF Sextet, Octet
<1>4. BitsOfDigits(a, b, c, d) = x * 65536 + y * 256 + z
  BY <1>0, <1>1, <1>2, <1>3, SMT DEF BitsOfDigits, Sextet
<1>5. BitsOfDigits(a, b, c, d) = BitsOfOctets(x, y, z)
  BY <1>4 DEF BitsOfOctets
<1>6. /\ OctetOf(BitsOfOctets(x, y, z), 0) = x
      /\ OctetOf(BitsOfOctets(x, y, z), 1) = y
      /\ OctetOf(BitsOfOctets(x, y, z), 2) = z
  BY OctetsAre
<1> QED
  BY <1>1, <1>2, <1>3, <1>5, <1>6, Zenon

LEMMA DigitsByShift ==
    ASSUME NEW bits \in Nat, NEW w \in Nat
    PROVE  /\ bits \div 262144 = w => DigitOf(bits, 0) = w % 64
           /\ bits \div 4096 = w => DigitOf(bits, 1) = w % 64
           /\ bits \div 64 = w => DigitOf(bits, 2) = w % 64
<1>1. bits \div 262144 = w => DigitOf(bits, 0) = w % 64
  BY SMT DEF DigitOf
<1>2. bits \div 4096 = w => DigitOf(bits, 1) = w % 64
  BY SMT DEF DigitOf
<1>3. bits \div 64 = w => DigitOf(bits, 2) = w % 64
  BY SMT DEF DigitOf
<1> QED
  BY <1>1, <1>2, <1>3, SMT

LEMMA DigitsOfOctets ==
    ASSUME NEW a, NEW h, NEW l, NEW m, NEW n, NEW d, Fields(a, h, l, m, n, d),
           NEW x, x = 4 * a + h, NEW y, y = 16 * l + m, NEW z, z = 64 * n + d
    PROVE  LET bits == BitsOfOctets(x, y, z)
           IN  /\ DigitOf(bits, 0) = a
               /\ DigitOf(bits, 1) = 16 * h + l
               /\ DigitOf(bits, 2) = 4 * m + n
               /\ DigitOf(bits, 3) = d
<1>0. /\ a \in Sextet /\ h \in 0..3 /\ l \in 0..15
      /\ m \in 0..15 /\ n \in 0..3 /\ d \in Sextet
  BY DEF Fields
<1>1. PICK b \in Sextet : b = 16 * h + l
  BY <1>0, SMT DEF Sextet
<1>2. PICK c \in Sextet : c = 4 * m + n
  BY <1>0, SMT DEF Sextet
<1>3. PICK v \in Nat : v = 64 * a + b
  BY <1>0, SMT DEF Sextet
<1>4. PICK w \in Nat : w = 64 * v + c
  BY <1>0, SMT DEF Sextet
<1>5. PICK bits \in Nat : bits = 64 * w + d
  BY <1>0, SMT DEF Sextet
<1>6. BitsOfOctets(x, y, z) = bits
  BY <1>0, <1>1, <1>2, <1>3, <1>4, <1>5, SMT DEF BitsOfOctets, Sextet
<1>7. bits % 64 = d /\ bits \div 64 = w
  <2>1. d \in Sextet
    BY <1>0
  <2> QED
    BY <1>5, <2>1, LowSextet
<1>8. w % 64 = c /\ w \div 64 = v
  BY <1>4, LowSextet, SMT
<1>9. a \in Nat /\ a % 64 = a
  BY <1>0, SMT DEF Sextet
<1>10. v % 64 = b /\ v \div 64 = a
  BY <1>3, <1>9, LowSextet
<1>11. bits \div 4096 = v /\ bits \div 262144 = a
  BY <1>7, <1>8, <1>10, Shifts, SMT
<1>12. DigitOf(bits, 3) = d
  BY <1>7, LastDigit, SMT
<1>13. DigitOf(bits, 2) = c
  BY <1>7, <1>8, DigitsByShift, SMT
<1>14. DigitOf(bits, 1) = b
  BY <1>10, <1>11, DigitsByShift, SMT
<1>15. DigitOf(bits, 0) = a
  BY <1>9, <1>11, DigitsByShift
<1> QED
  BY <1>1, <1>2, <1>6, <1>12, <1>13, <1>14, <1>15, Zenon

\* The digits a, b, c, d decode to the octets x, y, z exactly when they are the
\* digits of these octets; where octets lack, up to the bits that belong to
\* none.
LEMMA FullGroup ==
    ASSUME NEW a \in Sextet, NEW b \in Sextet, NEW c \in Sextet, NEW d \in Sextet,
           NEW x \in Octet, NEW y \in Octet, NEW z \in Octet
    PROVE  LET text == BitsOfDigits(a, b, c, d)
               bits == BitsOfOctets(x, y, z)
           IN  OctetOf(text, 0) = x /\ OctetOf(text, 1) = y /\ OctetOf(text, 2) = z
               <=> /\ a = DigitOf(bits, 0) /\ b = DigitOf(bits, 1)
                   /\ c = DigitOf(bits, 2) /\ d = DigitOf(bits, 3)
<1>1. PICK h \in 0..3, l \in 0..15 : b = 16 * h + l
  BY SplitSextet
<1>2. PICK m \in 0..15, n \in 0..3 : c = 4 * m + n
  BY SplitSextet
<1>3. PICK x1 \in 0..63, x0 \in 0..3 : x = 4 * x1 + x0
  BY SplitOctet
<1>4. PICK y1 \in 0..15, y0 \in 0..15 : y = 16 * y1 + y0
  BY SplitOctet
<1>5. PICK z1 \in 0..3, z0 \in 0..63 : z = 64 * z1 + z0
  BY SplitOctet
<1>6. /\ OctetOf(BitsOfDigits(a, b, c, d), 0) = 4 * a + h
      /\ OctetOf(BitsOfDigits(a, b, c, d), 1) = 16 * l + m
      /\ OctetOf(BitsOfDigits(a, b, c, d), 2) = 64 * n + d
  <2>1. Fields(a, h, l, m, n, d)
    BY DEF Fields
  <2> QED
    BY <1>1, <1>2, <2>1, OctetsOfDigits
<1>7. /\ DigitOf(BitsOfOctets(x, y, z), 0) = x1
      /\ DigitOf(BitsOfOctets(x, y, z), 1) = 16 * x0 + y1
      /\ DigitOf(BitsOfOctets(x, y, z), 2) = 4 * y0 + z1
      /\ DigitOf(BitsOfOctets(x, y, z), 3) = z0
  <2>1. Fields(x1, x0, y1, y0, z1, z0)
    BY DEF Fields, Sextet
  <2> QED
    BY <1>3, <1>4, <1>5, <2>1, DigitsOfOctets
<1>8. 4 * a + h = x <=> a = x1 /\ h = x0
  BY <1>3, SMT DEF Sextet
<1>9. 16 * l + m = y <=> l = y1 /\ m = y0
  BY <1>4, SMT
<1>10. 64 * n + d = z <=> n = z1 /\ d = z0
  BY <1>5, SMT DEF Sextet
<1>11. b = 16 * x0 + y1 <=> h = x0 /\ l = y1
  BY <1>1, SMT
<1>12. c = 4 * y0 + z1 <=> m = y0 /\ n = z1
  BY <1>2, SMT
<1> QED
  BY <1>6, <1>7, <1>8, <1>9, <1>10, <1>11, <1>12

LEMMA TwoOctets ==
    ASSUME NEW a \in Sextet, NEW b \in Sextet, NEW c \in Sextet,
           NEW x \in Octet, NEW y \in Octet
    PROVE  LET text == BitsOfDigits(a, b, c, 0)
               bits == BitsOfOctets(x, y, 0)
           IN  OctetOf(text, 0) = x /\ OctetOf(text, 1) = y
               <=> /\ a = DigitOf(bits, 0) /\ b = DigitOf(bits, 1)
                   /\ c \div 4 = DigitOf(bits, 2) \div 4
<1>1. PICK h \in 0..3, l \in 0..15 : b = 16 * h + l
  BY SplitSextet
<1>2. PICK m \in 0..15, n \in 0..3 : c = 4 * m + n /\ m = c \div 4
  BY SplitSextet
<1>3. PICK x1 \in 0..63, x0 \in 0..3 : x = 4 * x1 + x0
  BY SplitOctet
<1>4. PICK y1 \in 0..15, y0 \in 0..15 : y = 16 * y1 + y0
  BY SplitOctet
<1>5. 0 \in Sextet /\ 0 \in 0..3 /\ 0 = 64 * 0 + 0
  BY DEF Sextet
<1>6. /\ OctetOf(BitsOfDigits(a, b, c, 0), 0) = 4 * a + h
      /\ OctetOf(BitsOfDigits(a, b, c, 0), 1) = 16 * l + m
  <2>1. Fields(a, h, l, m, n, 0)
    BY <1>5 DEF Fields
  <2> QED
    BY <1>1, <1>2, <2>1, OctetsOfDigits
<1>7. /\ DigitOf(BitsOfOctets(x, y, 0), 0) = x1
      /\ DigitOf(BitsOfOctets(x, y, 0), 1) = 16 * x0 + y1
      /\ DigitOf(BitsOfOctets(x, y, 0), 2) = 4 * y0 + 0
  <2>1. Fields(x1, x0, y1, y0, 0, 0)
    BY <1>5 DEF Fields, Sextet
  <2> QED
    BY <1>3, <1>4, <1>5, <2>1, DigitsOfOctets
<1>8. 4 * a + h = x <=> a = x1 /\ h = x0
  BY <1>3, SMT DEF Sextet
<1>9. 16 * l + m = y <=> l = y1 /\ m = y0
  BY <1>4, SMT
<1>10. b = 16 * x0 + y1 <=> h = x0 /\ l = y1
  BY <1>1, SMT
<1>11. (4 * y0 + 0) \div 4 = y0
  BY SMT
<1> QED
  BY <1>2, <1>6, <1>7, <1>8, <1>9, <1>10, <1>11

LEMMA OneOctet ==
    ASSUME NEW a \in Sextet, NEW b \in Sextet, NEW x \in Octet
    PROVE  LET text == BitsOfDigits(a, b, 0, 0)
               bits == BitsOfOctets(x, 0, 0)
           IN  OctetOf(text, 0) = x
               <=> a = DigitOf(bits, 0) /\ b \div 16 = DigitOf(bits, 1) \div 16
<1>1. PICK h \in 0..3, l \in 0..15 : b = 16 * h + l /\ h = b \div 16
  BY SplitSextet
<1>2. PICK x1 \in 0..63, x0 \in 0..3 : x = 4 * x1 + x0
  BY SplitOctet
<1>3. /\ 0 \in Sextet /\ 0 \in 0..3 /\ 0 \in 0..15
      /\ 0 = 64 * 0 + 0 /\ 0 = 16 * 0 + 0 /\ 0 = 4 * 0 + 0
  BY DEF Sextet
<1>4. OctetOf(BitsOfDigits(a, b, 0, 0), 0) = 4 * a + h
  <2>1. Fields(a, h, l, 0, 0, 0)
    BY <1>3 DEF Fields
  <2> QED
    BY <1>1, <1>3, <2>1, OctetsOfDigits
<1>5. /\ DigitOf(BitsOfOctets(x, 0, 0), 0) = x1
      /\ DigitOf(BitsOfOctets(x, 0, 0), 1) = 16 * x0 + 0
  <2>1. Fields(x1, x0, 0, 0, 0, 0)
    BY <1>3 DEF Fields, Sextet
  <2> QED
    BY <1>2, <1>3, <2>1, DigitsOfOctets
<1>6. 4 * a + h = x <=> a = x1 /\ h = x0
  BY <1>2, SMT DEF Sextet
<1>7. (16 * x0 + 0) \div 16 = x0
  BY SMT
<1> QED
  BY <1>1, <1>4, <1>5, <1>6, <1>7

\* The digits of a group of a text, without its padding.
Digit(text, i) == IF text[i] = Padding THEN 0 ELSE text[i]

DecodedGroup(text, g) ==
    BitsOfDigits(Digit(text, 4*g + 1), Digit(text, 4*g + 2), Digit(text, 4*g + 3),
                 Digit(text, 4*g + 4))

\* A text of groups of digits, the last of which lacks p.
Shape(text, groups, p) ==
    /\ Len(text) = 4 * groups
    /\ \A i \in 1..(4 * groups - p) : text[i] \in Sextet
    /\ \A i \in 1..(4 * groups) : i > 4 * groups - p => text[i] = Padding

\* Digits are the same, the last one of a text up to the bits of no octet.
Agree(x, y, last, p) ==
    \/ x = y
    \/ last /\ p = 1 /\ x \div 4 = y \div 4
    \/ last /\ p = 2 /\ x \div 16 = y \div 16

OctetsMatch(text, der, g) ==
    \A k \in 0..2 : 3*g + k + 1 <= Len(der) =>
                        OctetOf(DecodedGroup(text, g), k) = der[3*g + k + 1]

DigitsMatch(text, der, g, groups, p) ==
    \A k \in 0..3 : 4*g + k + 1 <= 4*groups - p =>
        Agree(text[4*g + k + 1], DigitOf(Group(der, g), k), 4*g + k + 1 = 4*groups - p, p)

LEMMA SmallPlaces == 0..2 = {0, 1, 2} /\ 0..3 = {0, 1, 2, 3}
BY SMT

LEMMA DigitsOfShape ==
    ASSUME NEW groups \in Nat, NEW p \in 0..2, NEW text, Shape(text, groups, p),
           NEW i \in 1..(4 * groups)
    PROVE  /\ i <= 4 * groups - p => text[i] \in Sextet /\ Digit(text, i) = text[i]
           /\ i > 4 * groups - p => Digit(text, i) = 0
<1>1. \A x \in Sextet : x # Padding
  BY SMT DEF Sextet, Padding
<1>2. ASSUME i <= 4 * groups - p
      PROVE  text[i] \in Sextet /\ Digit(text, i) = text[i]
  <2>1. i \in 1..(4 * groups - p)
    BY <1>2, SMT
  <2>2. text[i] \in Sextet
    BY <2>1, Zenon DEF Shape
  <2> QED
    BY <1>1, <2>2, Zenon DEF Digit
<1>3. ASSUME i > 4 * groups - p
      PROVE  Digit(text, i) = 0
  BY <1>3, Zenon DEF Shape, Digit
<1> QED
  BY <1>2, <1>3, Zenon

\* The octets of a group, place by place; and its digits.
LEMMA OctetsOneByOne ==
    ASSUME NEW text, NEW der \in Seq(Octet), NEW g \in Nat
    PROVE  OctetsMatch(text, der, g) <=>
               LET bits == DecodedGroup(text, g)
               IN  /\ 3*g + 1 <= Len(der) => OctetOf(bits, 0) = der[3*g + 1]
                   /\ 3*g + 2 <= Len(der) => OctetOf(bits, 1) = der[3*g + 2]
                   /\ 3*g + 3 <= Len(der) => OctetOf(bits, 2) = der[3*g + 3]
<1>1. 3*g + 0 + 1 = 3*g + 1 /\ 3*g + 1 + 1 = 3*g + 2 /\ 3*g + 2 + 1 = 3*g + 3
  BY SMT
<1> DEFINE P(k, i) == i <= Len(der) => OctetOf(DecodedGroup(text, g), k) = der[i]
<1>2. OctetsMatch(text, der, g) <=> \A k \in 0..2 : P(k, 3*g + k + 1)
  BY Zenon DEF OctetsMatch
<1>3. @ <=> P(0, 3*g + 0 + 1) /\ P(1, 3*g + 1 + 1) /\ P(2, 3*g + 2 + 1)
  <2> HIDE DEF P
  <2> QED
    BY SmallPlaces, Zenon
<1>4. @ <=> P(0, 3*g + 1) /\ P(1, 3*g + 2) /\ P(2, 3*g + 3)
  <2> HIDE DEF P
  <2> QED
    BY <1>1, Zenon
<1> QED
  BY <1>2, <1>3, <1>4, Zenon

LEMMA DigitsOneByOne ==
    ASSUME NEW text, NEW der \in Seq(Octet), NEW g \in Nat, NEW groups \in Nat, NEW p \in 0..2
    PROVE  DigitsMatch(text, der, g, groups, p) <=>
               LET bits == Group(der, g)
                   end == 4*groups - p
                   Match(i, k) == i <= end => Agree(text[i], DigitOf(bits, k), i = end, p)
               IN  Match(4*g + 1, 0) /\ Match(4*g + 2, 1) /\ Match(4*g + 3, 2) /\ Match(4*g + 4, 3)
<1>1. 4*g + 0 + 1 = 4*g + 1 /\ 4*g + 1 + 1 = 4*g + 2 /\ 4*g + 2 + 1 = 4*g + 3
      /\ 4*g + 3 + 1 = 4*g + 4
  BY SMT
<1> DEFINE P(i, k) == i <= 4*groups - p => Agree(text[i], DigitOf(Group(der, g), k),
                                                 i = 4*groups - p, p)
<1>2. DigitsMatch(text, der, g, groups, p) <=> \A k \in 0..3 : P(4*g + k + 1, k)
  BY Zenon DEF DigitsMatch
<1>3. @ <=> P(4*g + 0 + 1, 0) /\ P(4*g + 1 + 1, 1) /\ P(4*g + 2 + 1, 2) /\ P(4*g + 3 + 1, 3)
  <2> HIDE DEF P
  <2> QED
    BY SmallPlaces, Zenon
<1>4. @ <=> P(4*g + 1, 0) /\ P(4*g + 2, 1) /\ P(4*g + 3, 2) /\ P(4*g + 4, 3)
  <2> HIDE DEF P
  <2> QED
    BY <1>1, Zenon
<1> QED
  BY <1>2, <1>3, <1>4, Zenon

LEMMA GroupMatches ==
    ASSUME NEW der \in Seq(Octet), NEW groups \in Nat, NEW p \in 0..2,
           Len(der) + p = 3 * groups, NEW text, Shape(text, groups, p),
           NEW g \in Nat, g < groups
    PROVE  OctetsMatch(text, der, g) <=> DigitsMatch(text, der, g, groups, p)
<1> DEFINE n == Len(der)
           end == 4*groups - p
           D(i) == Digit(text, i)
<1>1. n \in Nat /\ end \in Nat
  BY SMT
<1>2. /\ 4*g + 1 \in 1..(4*groups) /\ 4*g + 2 \in 1..(4*groups)
      /\ 4*g + 3 \in 1..(4*groups) /\ 4*g + 4 \in 1..(4*groups)
  BY SMT
<1>3. 4*g + 1 < end /\ 4*g + 2 <= end /\ 3*g + 1 <= n
  BY SMT
<1>4. /\ D(4*g + 1) = text[4*g + 1] /\ D(4*g + 2) = text[4*g + 2]
      /\ text[4*g + 1] \in Sextet /\ text[4*g + 2] \in Sextet
  BY <1>2, <1>3, DigitsOfShape
<1>5. ASSUME NEW j \in Nat \ {0}, j <= n
      PROVE  der[j] \in Octet /\ OctetAt(der, j) = der[j]
  BY <1>5 DEF OctetAt
<1>6. ASSUME NEW j \in Nat, j > n
      PROVE  OctetAt(der, j) = 0
  BY <1>6, SMT DEF OctetAt
<1>7. PICK a \in Sextet : a = text[4*g + 1]
  BY <1>4
<1>8. PICK b \in Sextet : b = text[4*g + 2]
  BY <1>4
<1>9. PICK x \in Octet : x = der[3*g + 1] /\ x = OctetAt(der, 3*g + 1)
  <2>1. 3*g + 1 \in Nat \ {0}
    BY SMT
  <2> QED
    BY <1>3, <1>5, <2>1
<1>10. CASE 3*g + 3 <= n
  <2>1. 4*g + 3 < end /\ 4*g + 4 <= end /\ 3*g + 2 <= n /\ (4*g + 4 = end => p = 0)
    BY <1>10, SMT
  <2>2. /\ D(4*g + 3) = text[4*g + 3] /\ D(4*g + 4) = text[4*g + 4]
        /\ text[4*g + 3] \in Sextet /\ text[4*g + 4] \in Sextet
    BY <1>2, <2>1, DigitsOfShape
  <2>3. PICK c \in Sextet : c = text[4*g + 3]
    BY <2>2
  <2>4. PICK d \in Sextet : d = text[4*g + 4]
    BY <2>2
  <2>5. 3*g + 2 \in Nat \ {0} /\ 3*g + 3 \in Nat \ {0}
    BY SMT
  <2>6. PICK y \in Octet : y = der[3*g + 2] /\ y = OctetAt(der, 3*g + 2)
    BY <1>5, <2>1, <2>5
  <2>7. PICK z \in Octet : z = der[3*g + 3] /\ z = OctetAt(der, 3*g + 3)
    BY <1>5, <1>10, <2>5
  <2>8. DecodedGroup(text, g) = BitsOfDigits(a, b, c, d)
    BY <1>4, <1>7, <1>8, <2>2, <2>3, <2>4, Zenon DEF DecodedGroup
  <2>9. Group(der, g) = BitsOfOctets(x, y, z)
    BY <1>9, <2>6, <2>7, Zenon DEF Group
  <2>10. LET t == BitsOfDigits(a, b, c, d)
             o == BitsOfOctets(x, y, z)
         IN  OctetOf(t, 0) = x /\ OctetOf(t, 1) = y /\ OctetOf(t, 2) = z
             <=> /\ a = DigitOf(o, 0) /\ b = DigitOf(o, 1)
                 /\ c = DigitOf(o, 2) /\ d = DigitOf(o, 3)
    BY FullGroup
  <2>11. OctetsMatch(text, der, g) <=>
            LET t == BitsOfDigits(a, b, c, d)
            IN  OctetOf(t, 0) = x /\ OctetOf(t, 1) = y /\ OctetOf(t, 2) = z
    BY <1>3, <1>9, <1>10, <2>1, <2>6, <2>7, <2>8, OctetsOneByOne, ZenonT(60)
  <2>12. 4*g + 1 # end /\ 4*g + 2 # end /\ 4*g + 3 # end /\ 4*g + 3 <= end
    BY <2>1, SMT
  <2>13. 4*g + 4 = end => p # 1 /\ p # 2
    BY <2>1, SMT
  <2>14. DigitsMatch(text, der, g, groups, p) <=>
            LET o == BitsOfOctets(x, y, z)
            IN  /\ a = DigitOf(o, 0) /\ b = DigitOf(o, 1)
                /\ c = DigitOf(o, 2) /\ d = DigitOf(o, 3)
    <3>1. 4*g + 1 <= end
      BY <1>3, SMT
    <3> DEFINE M(i, k) == Agree(text[i], DigitOf(Group(der, g), k), i = end, p)
    <3>2. DigitsMatch(text, der, g, groups, p)
            <=> M(4*g + 1, 0) /\ M(4*g + 2, 1) /\ M(4*g + 3, 2) /\ M(4*g + 4, 3)
      BY <1>3, <2>1, <2>12, <3>1, DigitsOneByOne, Zenon
    <3>3. /\ M(4*g + 1, 0) <=> a = DigitOf(Group(der, g), 0)
          /\ M(4*g + 2, 1) <=> b = DigitOf(Group(der, g), 1)
          /\ M(4*g + 3, 2) <=> c = DigitOf(Group(der, g), 2)
      BY <1>7, <1>8, <2>3, <2>12, Zenon DEF Agree
    <3>4. M(4*g + 4, 3) <=> d = DigitOf(Group(der, g), 3)
      BY <2>4, <2>13, Zenon DEF Agree
    <3> HIDE DEF M
    <3> QED
      BY <2>9, <3>2, <3>3, <3>4, Zenon
  <2> QED
    BY <2>10, <2>11, <2>14, Zenon
<1>11. CASE 3*g + 3 = n + 1
  <2>1. p = 1 /\ 4*g + 3 = end /\ 4*g + 4 > end /\ 3*g + 2 <= n /\ 3*g + 3 > n
    BY <1>11, SMT
  <2>2. /\ D(4*g + 3) = text[4*g + 3] /\ text[4*g + 3] \in Sextet /\ D(4*g + 4) = 0
    BY <1>2, <2>1, DigitsOfShape, SMT
  <2>3. PICK c \in Sextet : c = text[4*g + 3]
    BY <2>2
  <2>5. 3*g + 2 \in Nat \ {0} /\ 3*g + 3 \in Nat
    BY SMT
  <2>6. PICK y \in Octet : y = der[3*g + 2] /\ y = OctetAt(der, 3*g + 2)
    BY <1>5, <2>1, <2>5
  <2>7. OctetAt(der, 3*g + 3) = 0
    BY <1>6, <2>1, <2>5
  <2>8. DecodedGroup(text, g) = BitsOfDigits(a, b, c, 0)
    BY <1>4, <1>7, <1>8, <2>2, <2>3, Zenon DEF DecodedGroup
  <2>9. Group(der, g) = BitsOfOctets(x, y, 0)
    BY <1>9, <2>6, <2>7, Zenon DEF Group
  <2>10. LET t == BitsOfDigits(a, b, c, 0)
             o == BitsOfOctets(x, y, 0)
         IN  OctetOf(t, 0) = x /\ OctetOf(t, 1) = y
             <=> /\ a = DigitOf(o, 0) /\ b = DigitOf(o, 1)
                 /\ c \div 4 = DigitOf(o, 2) \div 4
    BY TwoOctets
  <2>11. ~ (3*g + 3 <= n) /\ ~ (4*g + 4 <= end)
    BY <2>1, SMT
  <2>12. OctetsMatch(text, der, g) <=>
            LET t == BitsOfDigits(a, b, c, 0)
            IN  OctetOf(t, 0) = x /\ OctetOf(t, 1) = y
    <3>1. 3*g + 1 <= n /\ 3*g + 2 <= n
      BY <1>3, <2>1
    <3>2. OctetsMatch(text, der, g) <=>
             LET t == BitsOfDigits(a, b, c, 0)
             IN  /\ 3*g + 1 <= n => OctetOf(t, 0) = der[3*g + 1]
                 /\ 3*g + 2 <= n => OctetOf(t, 1) = der[3*g + 2]
                 /\ 3*g + 3 <= n => OctetOf(t, 2) = der[3*g + 3]
      BY <2>8, OctetsOneByOne, ZenonT(60)
    <3>3. x = der[3*g + 1] /\ y = der[3*g + 2]
      BY <1>9, <2>6, Zenon
    <3> QED
      BY <2>11, <3>1, <3>2, <3>3, Zenon
  <2>13. 4*g + 1 # end /\ 4*g + 2 # end /\ 4*g + 3 = end /\ 4*g + 3 <= end /\ p # 2
         /\ 4*g + 1 <= end
    BY <1>3, <2>1, SMT
  <2>14. DigitsMatch(text, der, g, groups, p) <=>
            LET o == BitsOfOctets(x, y, 0)
            IN  /\ a = DigitOf(o, 0) /\ b = DigitOf(o, 1)
                /\ c \div 4 = DigitOf(o, 2) \div 4
    <3> DEFINE M(i, k) == Agree(text[i], DigitOf(Group(der, g), k), i = end, p)
    <3>2. DigitsMatch(text, der, g, groups, p)
            <=> M(4*g + 1, 0) /\ M(4*g + 2, 1) /\ M(4*g + 3, 2)
      BY <1>3, <2>11, <2>13, DigitsOneByOne, Zenon
    <3>3. /\ M(4*g + 1, 0) <=> a = DigitOf(Group(der, g), 0)
          /\ M(4*g + 2, 1) <=> b = DigitOf(Group(der, g), 1)
      BY <1>7, <1>8, <2>13, Zenon DEF Agree
    <3>4. M(4*g + 3, 2) <=> c \div 4 = DigitOf(Group(der, g), 2) \div 4
      BY <2>1, <2>3, <2>13, Zenon DEF Agree
    <3> HIDE DEF M
    <3> QED
      BY <2>9, <3>2, <3>3, <3>4, Zenon
  <2> QED
    BY <2>10, <2>12, <2>14, Zenon
<1>12. CASE 3*g + 3 = n + 2
  <2>1. p = 2 /\ 4*g + 2 = end /\ 4*g + 3 > end /\ 4*g + 4 > end /\ 3*g + 2 > n /\ 3*g + 3 > n
    BY <1>12, SMT
  <2>2. D(4*g + 3) = 0 /\ D(4*g + 4) = 0
    BY <1>2, <2>1, DigitsOfShape, SMT
  <2>5. 3*g + 2 \in Nat /\ 3*g + 3 \in Nat
    BY SMT
  <2>7. OctetAt(der, 3*g + 2) = 0 /\ OctetAt(der, 3*g + 3) = 0
    BY <1>6, <2>1, <2>5
  <2>8. DecodedGroup(text, g) = BitsOfDigits(a, b, 0, 0)
    BY <1>4, <1>7, <1>8, <2>2, Zenon DEF DecodedGroup
  <2>9. Group(der, g) = BitsOfOctets(x, 0, 0)
    BY <1>9, <2>7, Zenon DEF Group
  <2>10. LET t == BitsOfDigits(a, b, 0, 0)
             o == BitsOfOctets(x, 0, 0)
         IN  OctetOf(t, 0) = x
             <=> a = DigitOf(o, 0) /\ b \div 16 = DigitOf(o, 1) \div 16
    BY OneOctet
  <2>11. ~ (3*g + 2 <= n) /\ ~ (3*g + 3 <= n) /\ ~ (4*g + 3 <= end) /\ ~ (4*g + 4 <= end)
    BY <2>1, SMT
  <2>12. OctetsMatch(text, der, g) <=> OctetOf(BitsOfDigits(a, b, 0, 0), 0) = x
    BY <1>3, <1>9, <2>8, <2>11, OctetsOneByOne, ZenonT(60)
  <2>13. 4*g + 1 # end /\ 4*g + 2 = end /\ p # 1 /\ 4*g + 1 <= end
    BY <1>3, <2>1, SMT
  <2>14. DigitsMatch(text, der, g, groups, p) <=>
            LET o == BitsOfOctets(x, 0, 0)
            IN  a = DigitOf(o, 0) /\ b \div 16 = DigitOf(o, 1) \div 16
    <3> DEFINE M(i, k) == Agree(text[i], DigitOf(Group(der, g), k), i = end, p)
    <3>2. DigitsMatch(text, der, g, groups, p) <=> M(4*g + 1, 0) /\ M(4*g + 2, 1)
      BY <1>3, <2>11, <2>13, DigitsOneByOne, Zenon
    <3>3. M(4*g + 1, 0) <=> a = DigitOf(Group(der, g), 0)
      BY <1>7, <2>13, Zenon DEF Agree
    <3>4. M(4*g + 2, 1) <=> b \div 16 = DigitOf(Group(der, g), 1) \div 16
      BY <1>8, <2>1, <2>13, Zenon DEF Agree
    <3> HIDE DEF M
    <3> QED
      BY <2>9, <3>2, <3>3, <3>4, Zenon
  <2> QED
    BY <2>10, <2>12, <2>14, Zenon
<1>13. 3*g + 3 <= n \/ 3*g + 3 = n + 1 \/ 3*g + 3 = n + 2
  BY SMT
<1> QED
  BY <1>10, <1>11, <1>12, <1>13, Zenon

LEMMA LastPlace ==
    ASSUME NEW n \in Nat, NEW groups \in Nat, NEW p \in 0..2, n + p = 3 * groups
    PROVE  /\ (4 * n + 2) \div 3 = 4 * groups - p
           /\ n % 3 = 0 <=> p = 0
           /\ n % 3 = 1 <=> p = 2
           /\ n % 3 = 2 <=> p = 1
<1>1. CASE p = 0
  BY <1>1, SMT
<1>2. CASE p = 1
  BY <1>2, SMT
<1>3. CASE p = 2
  BY <1>3, SMT
<1> QED
  BY <1>1, <1>2, <1>3, SMT

\* The text of der, character by character.
CharactersMatch(text, canonical, end, p) ==
    \A i \in 1..end : Agree(text[i], canonical[i], i = end, p)

LEMMA TextIs ==
    ASSUME NEW der \in Seq(Octet), NEW groups \in Nat, NEW p \in 0..2,
           Len(der) + p = 3 * groups, groups # 0, NEW text \in Seq(0..Foreign),
           IsText(EncodeToString(der), der, groups)
    PROVE  IsTextOf(text, der) <=>
               /\ Shape(text, groups, p)
               /\ CharactersMatch(text, EncodeToString(der), 4 * groups - p, p)
<1> DEFINE e == EncodeToString(der)
           end == 4 * groups - p
           spare == CASE Len(der) % 3 = 0 -> 1
                      [] Len(der) % 3 = 1 -> 16
                      [] Len(der) % 3 = 2 -> 4
<1>1. Len(der) \in Nat /\ Len(text) \in Nat
  OBVIOUS
<1>2. /\ (4 * Len(der) + 2) \div 3 = end
      /\ Len(der) % 3 = 0 <=> p = 0
      /\ Len(der) % 3 = 1 <=> p = 2
      /\ Len(der) % 3 = 2 <=> p = 1
  BY <1>1, LastPlace
<1>3. /\ p = 0 => spare = 1
      /\ p = 1 => spare = 4
      /\ p = 2 => spare = 16
  BY <1>2, SMT
<1> HIDE DEF e, spare
<1>4. IsTextOf(text, der) <=>
          /\ Len(text) = Len(e)
          /\ \A i \in DOMAIN text : i # end => text[i] = e[i]
          /\ text[end] \in 0..63
          /\ text[end] \div spare = e[end] \div spare
  BY <1>2, Zenon DEF IsTextOf, e, spare
<1>5. Len(e) = 4 * groups
  BY DEF IsText, e
<1>6. /\ \A i \in 1..end : e[i] \in Sextet
      /\ \A i \in 1..(4 * groups) : i > end => e[i] = Padding
  <2>1. \A i \in 1..end : e[i] \in Sextet
    BY <1>5, DigitsOfText, Zenon DEF e
  <2>2. ASSUME NEW i \in 1..(4 * groups), i > end
        PROVE  e[i] = Padding
    <3>1. PICK g \in Nat, k \in 0..3 : i = 4*g + k + 1
      <4>1. i \in Nat \ {0}
        BY SMT
      <4> QED
        BY <4>1, Places
    <3>2. g < groups /\ 3*g + k > Len(der)
      BY <1>1, <2>2, <3>1, SMT
    <3> QED
      BY <3>1, <3>2, Zenon DEF IsText, e
  <2> QED
    BY <2>1, <2>2, Zenon
<1>7. end \in 1..(4 * groups) /\ end \in 1..end
  BY SMT
<1>8. Len(text) = Len(e) => DOMAIN text = 1..(4 * groups)
  BY <1>5
<1>9. ASSUME NEW x \in Sextet, NEW y \in Sextet
      PROVE  x \div spare = y \div spare <=> Agree(x, y, TRUE, p)
  <2>1. x \div 1 = x /\ y \div 1 = y
    BY SMT DEF Sextet
  <2>2. CASE p = 0
    <3>1. p # 1 /\ p # 2
      BY <2>2
    <3> QED
      BY <1>3, <2>1, <2>2, <3>1, Zenon DEF Agree
  <2>3. CASE p = 1
    <3>1. p # 2
      BY <2>3
    <3> QED
      BY <1>3, <2>3, <3>1, Zenon DEF Agree
  <2>4. CASE p = 2
    <3>1. p # 1
      BY <2>4
    <3> QED
      BY <1>3, <2>4, <3>1, Zenon DEF Agree
  <2>5. p = 0 \/ p = 1 \/ p = 2
    BY SMT
  <2> QED
    BY <2>2, <2>3, <2>4, <2>5, Zenon
<1>10. ASSUME IsTextOf(text, der)
       PROVE  Shape(text, groups, p) /\ CharactersMatch(text, e, end, p)
  <2>1. DOMAIN text = 1..(4 * groups) /\ Len(text) = 4 * groups
    BY <1>4, <1>5, <1>8, <1>10
  <2>2. \A i \in 1..(4 * groups) : i # end => text[i] = e[i]
    BY <1>4, <1>10, <2>1, Zenon
  <2>3. text[end] \in Sextet /\ text[end] \div spare = e[end] \div spare
    BY <1>4, <1>10 DEF Sextet
  <2>4. ASSUME NEW i \in 1..end
        PROVE  text[i] \in Sextet /\ Agree(text[i], e[i], i = end, p)
    <3>1. CASE i = end
      <4>1. Agree(text[end], e[end], TRUE, p)
        BY <1>6, <1>7, <1>9, <2>3
      <4> QED
        BY <2>3, <3>1, <4>1, Zenon
    <3>2. CASE i # end
      <4>1. i \in 1..(4 * groups)
        BY SMT
      <4> QED
        BY <1>6, <2>2, <3>2, <4>1, Zenon DEF Agree
    <3> QED
      BY <3>1, <3>2
  <2>5. ASSUME NEW i \in 1..(4 * groups), i > end
        PROVE  text[i] = Padding
    <3>1. i # end
      BY <2>5, SMT
    <3> QED
      BY <1>6, <2>2, <2>5, <3>1, Zenon
  <2>6. Shape(text, groups, p)
    BY <2>1, <2>4, <2>5 DEF Shape
  <2>7. CharactersMatch(text, e, end, p)
    BY <2>4, Zenon DEF CharactersMatch
  <2> QED
    BY <2>6, <2>7
<1>11. ASSUME Shape(text, groups, p), CharactersMatch(text, e, end, p)
       PROVE  IsTextOf(text, der)
  <2>1. Len(text) = 4 * groups /\ DOMAIN text = 1..(4 * groups)
    BY <1>5, <1>8, <1>11 DEF Shape
  <2>2. text[end] \in Sextet
    BY <1>7, <1>11, Zenon DEF Shape
  <2>3. text[end] \div spare = e[end] \div spare
    <3>1. Agree(text[end], e[end], TRUE, p)
      BY <1>7, <1>11, Zenon DEF CharactersMatch
    <3> QED
      BY <1>6, <1>7, <1>9, <2>2, <3>1
  <2>4. ASSUME NEW i \in 1..(4 * groups), i # end
        PROVE  text[i] = e[i]
    <3>1. CASE i > end
      BY <1>6, <1>11, <3>1, Zenon DEF Shape
    <3>2. CASE ~ (i > end)
      <4>1. i \in 1..end
        BY <3>2, SMT
      <4>2. Agree(text[i], e[i], i = end, p)
        BY <1>11, <4>1, Zenon DEF CharactersMatch
      <4> QED
        BY <2>4, <4>2, Zenon DEF Agree
    <3> QED
      BY <3>1, <3>2
  <2> QED
    BY <1>4, <1>5, <2>1, <2>2, <2>3, <2>4 DEF Sextet
<1> QED
  BY <1>10, <1>11 DEF e

LEMMA PaddingOfShape ==
    ASSUME NEW groups \in Nat, NEW p \in 0..2, groups # 0, NEW text, Shape(text, groups, p)
    PROVE  PaddingOf(text) = p
<1>1. Len(text) = 4 * groups
  BY DEF Shape
<1>2. 4 * groups >= 4 /\ 4 * groups \in 1..(4 * groups) /\ 4 * groups - 1 \in 1..(4 * groups)
  BY SMT
<1>3. \A x \in Sextet : x # Padding
  BY SMT DEF Sextet, Padding
<1>4. CASE p = 0
  <2>1. 4 * groups \in 1..(4 * groups - p)
    BY <1>2, <1>4, SMT
  <2>2. text[4 * groups] # Padding
    BY <1>3, <2>1, Zenon DEF Shape
  <2> QED
    BY <1>1, <1>4, <2>2 DEF PaddingOf
<1>5. CASE p = 1
  <2>1. 4 * groups > 4 * groups - p /\ 4 * groups - 1 \in 1..(4 * groups - p)
    BY <1>2, <1>5, SMT
  <2>2. text[4 * groups] = Padding
    BY <1>2, <2>1, Zenon DEF Shape
  <2>3. text[4 * groups - 1] # Padding
    BY <1>3, <2>1, Zenon DEF Shape
  <2> QED
    BY <1>1, <1>2, <1>5, <2>2, <2>3 DEF PaddingOf
<1>6. CASE p = 2
  <2>1. 4 * groups > 4 * groups - p /\ 4 * groups - 1 > 4 * groups - p
    BY <1>2, <1>6, SMT
  <2>2. text[4 * groups] = Padding /\ text[4 * groups - 1] = Padding
    BY <1>2, <2>1, Zenon DEF Shape
  <2> QED
    BY <1>1, <1>2, <1>6, <2>2 DEF PaddingOf
<1> QED
  BY <1>4, <1>5, <1>6, SMT

\* What DecodeString gives for a text that it takes.
Decoded(text, n) ==
    [j \in 1..n |-> OctetOf(DecodedGroup(text, (j - 1) \div 3), (j - 1) % 3)]

LEMMA DecodeStringIs ==
    ASSUME NEW text
    PROVE  DecodeString(text) =
               IF /\ Len(text) % 4 = 0
                  /\ \A i \in 1..(Len(text) - PaddingOf(text)) : text[i] \in Sextet
               THEN Success(Decoded(text, 3 * (Len(text) \div 4) - PaddingOf(text)))
               ELSE Failure
BY Zenon DEF DecodeString, Decoded, DecodedGroup, Digit, Sextet

LEMMA ShapeOfDecoded ==
    ASSUME NEW der \in Seq(Octet), NEW groups \in Nat, NEW p \in 0..2,
           Len(der) + p = 3 * groups, NEW text \in Seq(0..Foreign),
           DecodeString(text) = Success(der)
    PROVE  Shape(text, groups, p)
<1> DEFINE q == PaddingOf(text)
<1>1. /\ Len(text) % 4 = 0
      /\ \A i \in 1..(Len(text) - q) : text[i] \in Sextet
  <2>1. Success(der) # Failure
    BY DEF Success, Failure
  <2> QED
    BY <2>1, DecodeStringIs, Zenon
<1>2. Decoded(text, 3 * (Len(text) \div 4) - q) = der
  <2>1. Success(Decoded(text, 3 * (Len(text) \div 4) - q)) = Success(der)
    BY <1>1, DecodeStringIs, Zenon
  <2> QED
    BY <2>1 DEF Success
<1>3. Len(text) \in Nat /\ q \in 0..2 /\ (Len(text) < 4 => q = 0)
  BY DEF PaddingOf
<1>4. PICK m \in Nat : m = Len(text) \div 4 /\ Len(text) = 4 * m
  <2>1. Len(text) \div 4 \in Nat /\ Len(text) = 4 * (Len(text) \div 4)
    BY <1>1, <1>3, SMT
  <2> QED
    BY <2>1
<1>5. 3 * m - q \in Nat
  BY <1>3, <1>4, SMT
<1>6. Len(der) = 3 * m - q
  <2>1. DOMAIN der = 1..(3 * m - q)
    BY <1>2, <1>4, Zenon DEF Decoded
  <2> QED
    BY <1>5, <2>1
<1>7. m = groups /\ q = p
  BY <1>3, <1>6, SMT
<1>8. Len(text) = 4 * groups
  BY <1>4, <1>7
<1>9. ASSUME NEW i \in 1..(4 * groups), i > 4 * groups - p
      PROVE  text[i] = Padding
  <2>1. p # 0 /\ (i = Len(text) \/ (i = Len(text) - 1 /\ p = 2))
    BY <1>8, <1>9, SMT
  <2>2. PaddingOf(text) # 0 => text[Len(text)] = Padding
    BY Zenon DEF PaddingOf
  <2>3. PaddingOf(text) = 2 => text[Len(text) - 1] = Padding
    <3>1. 0 # 2 /\ 1 # 2
      BY SMT
    <3> QED
      BY <3>1, Zenon DEF PaddingOf
  <2> QED
    BY <1>7, <2>1, <2>2, <2>3
<1>10. \A i \in 1..(4 * groups - p) : text[i] \in Sextet
  BY <1>1, <1>7, <1>8
<1> QED
  BY <1>8, <1>9, <1>10 DEF Shape

LEMMA OctetsOfShape ==
    ASSUME NEW der \in Seq(Octet), NEW groups \in Nat, NEW p \in 0..2, groups # 0,
           Len(der) + p = 3 * groups, NEW text, Shape(text, groups, p)
    PROVE  DecodeString(text) = Success(der)
               <=> \A g \in 0..(groups - 1) : OctetsMatch(text, der, g)
<1> DEFINE n == Len(der)
           o(j) == OctetOf(DecodedGroup(text, (j - 1) \div 3), (j - 1) % 3)
<1>1. n \in Nat
  OBVIOUS
<1>2. DecodeString(text) = Success(Decoded(text, n))
  <2>1. Len(text) = 4 * groups /\ PaddingOf(text) = p
    BY PaddingOfShape DEF Shape
  <2>2. (4 * groups) % 4 = 0 /\ (4 * groups) \div 4 = groups /\ 3 * groups - p = n
    BY <1>1, SMT
  <2>3. \A i \in 1..(4 * groups - p) : text[i] \in Sextet
    BY DEF Shape
  <2> QED
    BY <2>1, <2>2, <2>3, DecodeStringIs, Zenon
<1>3. DecodeString(text) = Success(der) <=> Decoded(text, n) = der
  <2>1. Success(Decoded(text, n)) = Success(der) => Decoded(text, n) = der
    BY DEF Success
  <2> QED
    BY <1>2, <2>1, Zenon
<1>4. Decoded(text, n) = [j \in 1..n |-> o(j)]
  BY Zenon DEF Decoded
<1> HIDE DEF o
<1>5. Decoded(text, n) = der <=> \A j \in 1..n : o(j) = der[j]
  <2>1. der = [j \in 1..n |-> der[j]]
    OBVIOUS
  <2> QED
    BY <1>4, <2>1
<1>6. ASSUME NEW j \in 1..n, NEW g \in Nat, NEW k \in 0..2, j = 3*g + k + 1
      PROVE  o(j) = OctetOf(DecodedGroup(text, g), k) /\ g \in 0..(groups - 1)
  <2>1. (j - 1) \div 3 = g /\ (j - 1) % 3 = k
    BY <1>6, Positions
  <2>2. g \in 0..(groups - 1)
    BY <1>1, <1>6, SMT
  <2> QED
    BY <2>1, <2>2, Zenon DEF o
<1>7. ASSUME \A j \in 1..n : o(j) = der[j], NEW g \in 0..(groups - 1)
      PROVE  OctetsMatch(text, der, g)
  <2>1. ASSUME NEW k \in 0..2, 3*g + k + 1 <= n
        PROVE  OctetOf(DecodedGroup(text, g), k) = der[3*g + k + 1]
    <3>1. 3*g + k + 1 \in 1..n /\ g \in Nat
      BY <1>1, <2>1, SMT
    <3> QED
      BY <1>6, <1>7, <3>1
  <2> QED
    BY <2>1, Zenon DEF OctetsMatch
<1>8. ASSUME \A g \in 0..(groups - 1) : OctetsMatch(text, der, g), NEW j \in 1..n
      PROVE  o(j) = der[j]
  <2>1. PICK g \in Nat, k \in 0..2 : j = 3*g + k + 1
    <3>1. j \in Nat \ {0}
      BY SMT
    <3> QED
      BY <3>1, Places
  <2>2. o(j) = OctetOf(DecodedGroup(text, g), k) /\ g \in 0..(groups - 1)
    BY <1>6, <2>1
  <2>3. 3*g + k + 1 <= n
    BY <1>1, <2>1, SMT
  <2>4. OctetOf(DecodedGroup(text, g), k) = der[3*g + k + 1]
    BY <1>8, <2>2, <2>3, Zenon DEF OctetsMatch
  <2> QED
    BY <2>1, <2>2, <2>4
<1> QED
  BY <1>3, <1>5, <1>7, <1>8

LEMMA GroupsAreCharacters ==
    ASSUME NEW der \in Seq(Octet), NEW groups \in Nat, NEW p \in 0..2, groups # 0,
           Len(der) + p = 3 * groups, NEW text, NEW canonical, IsText(canonical, der, groups)
    PROVE  (\A g \in 0..(groups - 1) : DigitsMatch(text, der, g, groups, p))
               <=> CharactersMatch(text, canonical, 4 * groups - p, p)
<1> DEFINE end == 4 * groups - p
<1>1. ASSUME NEW g \in Nat, NEW k \in 0..3, g < groups, 4*g + k + 1 <= end
      PROVE  canonical[4*g + k + 1] = DigitOf(Group(der, g), k)
  <2>1. ~ (3*g + k > Len(der))
    BY <1>1, SMT
  <2> QED
    BY <1>1, <2>1, Zenon DEF IsText
<1>2. ASSUME \A g \in 0..(groups - 1) : DigitsMatch(text, der, g, groups, p),
             NEW i \in 1..end
      PROVE  Agree(text[i], canonical[i], i = end, p)
  <2>1. PICK g \in Nat, k \in 0..3 : i = 4*g + k + 1
    <3>1. i \in Nat \ {0}
      BY SMT
    <3> QED
      BY <3>1, Places
  <2>2. g < groups /\ g \in 0..(groups - 1) /\ 4*g + k + 1 <= end
    BY <2>1, SMT
  <2>3. Agree(text[4*g + k + 1], DigitOf(Group(der, g), k), 4*g + k + 1 = end, p)
    BY <1>2, <2>2, Zenon DEF DigitsMatch
  <2>4. canonical[4*g + k + 1] = DigitOf(Group(der, g), k)
    BY <1>1, <2>2, Zenon
  <2> QED
    BY <2>1, <2>3, <2>4, Zenon
<1>3. ASSUME CharactersMatch(text, canonical, end, p), NEW g \in 0..(groups - 1)
      PROVE  DigitsMatch(text, der, g, groups, p)
  <2>1. ASSUME NEW k \in 0..3, 4*g + k + 1 <= end
        PROVE  Agree(text[4*g + k + 1], DigitOf(Group(der, g), k), 4*g + k + 1 = end, p)
    <3>1. 4*g + k + 1 \in 1..end /\ g \in Nat /\ g < groups
      BY <2>1, SMT
    <3>2. canonical[4*g + k + 1] = DigitOf(Group(der, g), k)
      BY <1>1, <2>1, <3>1, Zenon
    <3>3. Agree(text[4*g + k + 1], canonical[4*g + k + 1], 4*g + k + 1 = end, p)
      BY <1>3, <3>1, Zenon DEF CharactersMatch
    <3> QED
      BY <3>2, <3>3, Zenon
  <2> QED
    BY <2>1, Zenon DEF DigitsMatch
<1> QED
  BY <1>2, <1>3 DEF CharactersMatch

\* A text decodes to octets exactly when it is a text of them.
LEMMA TextDecodes ==
    ASSUME NEW der \in Seq(Octet), der # <<>>, NEW text \in Seq(0..Foreign)
    PROVE  IsTextOf(text, der) <=> DecodeString(text) = Success(der)
<1>1. Len(der) \in Nat /\ Len(der) # 0
  OBVIOUS
<1>2. PICK groups \in Nat, p \in 0..2 :
          groups = (Len(der) + 2) \div 3 /\ Len(der) + p = 3 * groups
  BY <1>1, Groups
<1>3. groups # 0
  BY <1>1, <1>2, SMT
<1>4. IsText(EncodeToString(der), der, groups)
  BY <1>1, <1>2, EncodedCharacters, SMTT(40) DEF IsText
<1>5. IsTextOf(text, der) <=>
          /\ Shape(text, groups, p)
          /\ CharactersMatch(text, EncodeToString(der), 4 * groups - p, p)
  BY <1>2, <1>3, <1>4, TextIs
<1>6. DecodeString(text) = Success(der) => Shape(text, groups, p)
  BY <1>2, ShapeOfDecoded
<1>7. ASSUME Shape(text, groups, p)
      PROVE  CharactersMatch(text, EncodeToString(der), 4 * groups - p, p)
                 <=> DecodeString(text) = Success(der)
  <2>1. CharactersMatch(text, EncodeToString(der), 4 * groups - p, p)
            <=> \A g \in 0..(groups - 1) : DigitsMatch(text, der, g, groups, p)
    BY <1>2, <1>3, <1>4, GroupsAreCharacters
  <2>2. ASSUME NEW g \in 0..(groups - 1)
        PROVE  OctetsMatch(text, der, g) <=> DigitsMatch(text, der, g, groups, p)
    <3>1. g \in Nat /\ g < groups
      BY SMT
    <3> QED
      BY <1>2, <1>7, <3>1, GroupMatches
  <2>3. DecodeString(text) = Success(der)
            <=> \A g \in 0..(groups - 1) : OctetsMatch(text, der, g)
    BY <1>2, <1>3, <1>7, OctetsOfShape
  <2> QED
    BY <2>1, <2>2, <2>3, Zenon
<1> QED
  BY <1>5, <1>6, <1>7, Zenon

LEMMA StrippedIsText ==
    ASSUME NEW body \in Seq(0..Foreign)
    PROVE  stripWhitespace(body) \in Seq(0..Foreign)
<1>1. PICK kept : IsKept(kept, body, Whitespace, 0..Foreign)
                  /\ Without(body, Whitespace) = kept[Len(body)]
  BY WithoutIs
<1>2. Len(body) \in 0..Len(body)
  OBVIOUS
<1> QED
  BY <1>1, <1>2, Zenon DEF IsKept, stripWhitespace

\* encoding.go 18-20 and 31-36: a request has a CSR exactly when its whole
\* body, within the limit, is base64 of one; bits of the last character that
\* belong to no octet are all that two texts of a CSR differ in.
THEOREM BodyIsOneCSR == Spec => []CSRBodyIsWhole
<1>1. EvaluationInv => CSRBodyIsWhole
  <2> SUFFICES ASSUME EvaluationInv, Evaluated("decodeCSRBody")
               PROVE  LET meant == {csr \in CSRs : IsTextOf(stripWhitespace(arg), csr)}
                      IN  IF Len(arg) <= MaxBody /\ meant # {}
                          THEN out.ok /\ out.value \in meant
                          ELSE ~ out.ok
    BY Zenon DEF CSRBodyIsWhole
  <2> DEFINE text == stripWhitespace(arg)
             der == DecodeString(text)
             meant == {csr \in CSRs : IsTextOf(text, csr)}
  <2>1. arg \in Bodies
    BY DEF EvaluationInv, Evaluated, Inputs
  <2>2. arg \in Seq(0..Foreign)
    BY <2>1, BodyAssumption
  <2>3. text \in Seq(0..Foreign)
    BY <2>2, StrippedIsText
  <2>4. out = IF Len(arg) <= MaxBody /\ der.ok /\ der.value \in CSRs
              THEN Success(der.value) ELSE Failure
    <3>1. out = decodeCSRBody(arg)
      BY DEF EvaluationInv
    <3> QED
      BY <2>2, <3>1, BodyIsReadWhole, Zenon
  <2> HIDE DEF text
  <2>5. \A csr \in CSRs : IsTextOf(text, csr) <=> der = Success(csr)
    <3>1. \A csr \in CSRs : csr \in Seq(Octet) /\ csr # <<>>
      BY BodyAssumption
    <3> QED
      BY <2>3, <3>1, TextDecodes, Zenon
  <2>6. der = Failure \/ \E v : der = Success(v)
    BY Zenon DEF DecodeString
  <2>7. /\ ~ Failure.ok
        /\ \A v : Success(v).ok /\ Success(v).value = v
    BY DEF Success, Failure
  <2> HIDE DEF der
  <2>8. CASE der = Failure
    <3>1. \A csr \in CSRs : ~ IsTextOf(text, csr)
      BY <2>5, <2>7, <2>8, Zenon
    <3>2. ~ out.ok
      BY <2>4, <2>7, <2>8, Zenon
    <3> QED
      BY <3>1, <3>2, Zenon DEF text
  <2>9. CASE \E v : der = Success(v)
    <3>1. PICK v : der = Success(v)
      BY <2>9
    <3>2. der.ok /\ der.value = v
      BY <2>7, <3>1, Zenon
    <3>3. \A csr \in CSRs : IsTextOf(text, csr) <=> csr = v
      BY <2>5, <2>7, <3>1, Zenon
    <3>4. CASE v \in CSRs
      <4>1. v \in meant
        BY <3>3, <3>4, Zenon
      <4>2. Len(arg) <= MaxBody => out.ok /\ out.value = v
        BY <2>4, <2>7, <3>2, <3>4, Zenon
      <4>3. ~ (Len(arg) <= MaxBody) => ~ out.ok
        BY <2>4, <2>7, Zenon
      <4> QED
        BY <4>1, <4>2, <4>3, Zenon DEF text
    <3>5. CASE v \notin CSRs
      <4>1. meant = {}
        BY <3>3, <3>5, Zenon
      <4>2. ~ out.ok
        BY <2>4, <2>7, <3>2, <3>5, Zenon
      <4> QED
        BY <4>1, <4>2, Zenon DEF text
    <3> QED
      BY <3>4, <3>5
  <2> QED
    BY <2>6, <2>8, <2>9
<1> QED
  BY <1>1, EvaluationInvariant, PTL

-----------------------------------------------------------------------------
(* How often something occurs in a list.                                   *)

PlacesOf(list, x) == {i \in 1..Len(list) : list[i] = x}

LEMMA PlacesAreFinite ==
    ASSUME NEW S, NEW list \in Seq(S), NEW x
    PROVE  /\ IsFiniteSet(PlacesOf(list, x))
           /\ Occurrences(list, x) = Cardinality(PlacesOf(list, x))
           /\ Occurrences(list, x) \in Nat
           /\ Occurrences(list, x) = 0 <=> \A i \in 1..Len(list) : list[i] # x
<1>1. Len(list) \in Nat /\ DOMAIN list = 1..Len(list)
  OBVIOUS
<1>2. IsFiniteSet(1..Len(list))
  BY <1>1, FS_Interval
<1>3. PlacesOf(list, x) \in SUBSET (1..Len(list))
  BY DEF PlacesOf
<1>4. IsFiniteSet(PlacesOf(list, x))
  BY <1>2, <1>3, FS_Subset
<1>5. Occurrences(list, x) = Cardinality(PlacesOf(list, x))
  BY <1>1, Zenon DEF Occurrences, PlacesOf
<1>6. Cardinality(PlacesOf(list, x)) \in Nat
  BY <1>4, FS_CardinalityType
<1>7. Cardinality(PlacesOf(list, x)) = 0 <=> PlacesOf(list, x) = {}
  BY <1>4, FS_EmptySet
<1>8. PlacesOf(list, x) = {} <=> \A i \in 1..Len(list) : list[i] # x
  BY DEF PlacesOf
<1> QED
  BY <1>4, <1>5, <1>6, <1>7, <1>8

LEMMA OccurrencesOfConcat ==
    ASSUME NEW S, NEW s \in Seq(S), NEW t \in Seq(S), NEW x
    PROVE  Occurrences(s \o t, x) = Occurrences(s, x) + Occurrences(t, x)
<1> DEFINE m == Len(s)
           n == Len(t)
           A == PlacesOf(s, x)
           B == PlacesOf(t, x)
           C == {i \in (m + 1)..(m + n) : t[i - m] = x}
           f == [i \in B |-> i + m]
<1>1. m \in Nat /\ n \in Nat
  OBVIOUS
<1>2. /\ s \o t \in Seq(S) /\ Len(s \o t) = m + n
      /\ \A i \in 1..(m + n) : (s \o t)[i] = IF i <= m THEN s[i] ELSE t[i - m]
  BY ConcatProperties
<1>3. PlacesOf(s \o t, x) = A \cup C
  <2> HIDE DEF m, n
  <2>1. PlacesOf(s \o t, x) = {i \in 1..(m + n) : (s \o t)[i] = x}
    BY <1>2 DEF PlacesOf
  <2>2. A = {i \in 1..m : s[i] = x}
    BY DEF PlacesOf, m
  <2> HIDE DEF A
  <2>3. \A i \in 1..m : i \in 1..(m + n) /\ i <= m
    BY <1>1
  <2>4. \A i \in (m + 1)..(m + n) : i \in 1..(m + n) /\ ~ (i <= m)
    BY <1>1
  <2>5. \A i \in 1..(m + n) : IF i <= m THEN i \in 1..m ELSE i \in (m + 1)..(m + n)
    BY <1>1
  <2> QED
    BY <1>2, <2>1, <2>2, <2>3, <2>4, <2>5
<1>4. A \cap C = {}
  BY <1>1 DEF PlacesOf
<1>5. f \in Bijection(B, C)
  <2>1. \A i \in B : i \in 1..n /\ t[i] = x
    BY DEF PlacesOf
  <2>2. \A i \in 1..n : i + m \in (m + 1)..(m + n) /\ (i + m) - m = i
    BY <1>1
  <2>3. \A i \in (m + 1)..(m + n) : i - m \in 1..n /\ (i - m) + m = i
    BY <1>1
  <2>4. \A i \in B : i + m \in C
    BY <2>1, <2>2
  <2>5. \A i \in C : i - m \in B /\ (i - m) + m = i
    BY <2>3 DEF PlacesOf
  <2>6. \A i, j \in B : i + m = j + m => i = j
    BY <1>1, <2>1
  <2> HIDE DEF B, C, m
  <2>7. f \in [B -> C]
    BY <2>4
  <2>8. \A i, j \in B : f[i] = f[j] => i = j
    BY <2>6
  <2>9. \A c \in C : \E i \in B : f[i] = c
    BY <2>5
  <2> HIDE DEF f
  <2> QED
    BY <2>7, <2>8, <2>9 DEF Bijection, Injection, Surjection, IsInjective
<1>6. IsFiniteSet(A) /\ IsFiniteSet(B)
  BY PlacesAreFinite
<1>7. IsFiniteSet(C) /\ Cardinality(C) = Cardinality(B)
  <2>1. ExistsBijection(B, C)
    BY <1>5 DEF ExistsBijection
  <2> QED
    BY <1>6, <2>1, FS_Bijection
<1>8. Cardinality(A \cup C) = Cardinality(A) + Cardinality(C) - Cardinality({})
  <2> HIDE DEF A, C
  <2>1. Cardinality(A \cup C) = Cardinality(A) + Cardinality(C) - Cardinality(A \cap C)
    BY <1>6, <1>7, FS_Union
  <2> QED
    BY <1>4, <2>1
<1>9. /\ Occurrences(s, x) = Cardinality(A) /\ Occurrences(t, x) = Cardinality(B)
      /\ Cardinality(A) \in Nat /\ Cardinality(B) \in Nat
  BY PlacesAreFinite
<1>10. Occurrences(s \o t, x) = Cardinality(A \cup C)
  BY <1>2, <1>3, PlacesAreFinite
<1> HIDE DEF A, B, C
<1> QED
  BY <1>7, <1>8, <1>9, <1>10, FS_EmptySet

LEMMA OccurrencesOfOne ==
    ASSUME NEW S, NEW y \in S, NEW x
    PROVE  Occurrences(<<y>>, x) = IF x = y THEN 1 ELSE 0
<1>1. <<y>> \in Seq(S) /\ Len(<<y>>) = 1 /\ <<y>>[1] = y /\ 1..1 = {1}
  OBVIOUS
<1>2. PlacesOf(<<y>>, x) = IF x = y THEN {1} ELSE {}
  BY <1>1 DEF PlacesOf
<1>3. Occurrences(<<y>>, x) = Cardinality(PlacesOf(<<y>>, x))
  BY <1>1, PlacesAreFinite
<1> QED
  BY <1>2, <1>3, FS_Singleton, FS_EmptySet

-----------------------------------------------------------------------------
(* The order of the items of a SAN set, and their sorting.                 *)

\* A prefixed string.
Item == (1..4) \X Nat

LEMMA BeforeIsOrder ==
    /\ \A x \in Item : ~ Before(x, x)
    /\ \A x, y \in Item : ~ Before(x, y) /\ ~ Before(y, x) => x = y
    /\ \A x, y \in Item : Before(x, y) => ~ Before(y, x)
    /\ \A x, y, z \in Item : ~ Before(y, x) /\ ~ Before(z, y) => ~ Before(z, x)
BY DEF Item, Before

\* No entry is below an earlier one.
Ordered(list) == \A i, j \in 1..Len(list) : i < j => ~ Before(list[j], list[i])

\* One step of the sorting: x goes before the first entry above it.
Inserted(s, x) ==
    LET k == Cardinality({i \in DOMAIN s : ~ Before(x, s[i])})
    IN  SubSeq(s, 1, k) \o <<x>> \o SubSeq(s, k + 1, Len(s))

SortedTo(list) ==
    CHOOSE q : q = [n \in 0..Len(list) |-> IF n = 0 THEN <<>> ELSE Inserted(q[n - 1], list[n])]

LEMMA sanSetIs ==
    ASSUME NEW id
    PROVE  sanSet(id) = Rendered(SortedTo(Items(id))[Len(Items(id))])
BY DEF sanSet, Sorted, SortedTo, Inserted

\* What is not above x is at the front of a list in order.
LEMMA FrontOf ==
    ASSUME NEW s \in Seq(Item), Ordered(s), NEW x \in Item
    PROVE  LET k == Cardinality({i \in DOMAIN s : ~ Before(x, s[i])})
           IN  /\ k \in 0..Len(s)
               /\ \A i \in 1..Len(s) : ~ Before(x, s[i]) <=> i <= k
<1> DEFINE n == Len(s)
           F == {i \in DOMAIN s : ~ Before(x, s[i])}
           T == {m \in 0..n : \A i \in 1..m : ~ Before(x, s[i])}
<1>1. n \in Nat /\ DOMAIN s = 1..n /\ \A i \in 1..n : s[i] \in Item
  OBVIOUS
<1>2. ASSUME NEW i \in 1..n, NEW j \in 1..n, i < j, ~ Before(x, s[j])
      PROVE  ~ Before(x, s[i])
  <2>1. ~ Before(s[j], s[i])
    BY <1>2 DEF Ordered
  <2> QED
    BY <1>1, <1>2, <2>1, BeforeIsOrder, Zenon
<1>3. PICK m \in 0..n : /\ \A i \in 1..m : ~ Before(x, s[i])
                        /\ m < n => Before(x, s[m + 1])
  <2>1. CASE \A j \in T : j < n => j + 1 \in T
    <3>1. 0 \in T
      BY <1>1
    <3>2. T \in SUBSET (0..n)
      OBVIOUS
    <3>3. T = 0..n
      <4> HIDE DEF T, n
      <4> QED
        BY <1>1, <2>1, <3>1, <3>2, UpToLast
    <3>4. n \in T
      BY <1>1, <3>3
    <3> QED
      BY <1>1, <3>4
  <2>2. CASE ~ \A j \in T : j < n => j + 1 \in T
    <3>1. PICK j \in T : j < n /\ j + 1 \notin T
      BY <2>2
    <3>2. j + 1 \in 0..n /\ j \in 0..n
      BY <1>1, <3>1
    <3>3. PICK i \in 1..(j + 1) : Before(x, s[i])
      BY <3>1, <3>2
    <3>4. i \notin 1..j
      BY <3>1, <3>3
    <3>5. i = j + 1
      BY <3>2, <3>3, <3>4
    <3> QED
      BY <3>1, <3>2, <3>3, <3>5
  <2> QED
    BY <2>1, <2>2
<1>4. ASSUME NEW i \in 1..n
      PROVE  ~ Before(x, s[i]) <=> i <= m
  <2>1. CASE i <= m
    <3>1. i \in 1..m
      BY <1>1, <2>1
    <3> QED
      BY <1>3, <2>1, <3>1
  <2>2. CASE i > m
    <3>1. m < n /\ m + 1 \in 1..n /\ (i = m + 1 \/ m + 1 < i) /\ ~ (i <= m)
      BY <1>1, <2>2
    <3> QED
      BY <1>2, <1>3, <3>1
  <2> QED
    BY <1>1, <2>1, <2>2
<1>5. F = 1..m
  <2>1. \A i \in 1..m : i \in 1..n /\ i <= m
    BY <1>1
  <2>2. \A i \in 1..n : i <= m => i \in 1..m
    BY <1>1
  <2> QED
    BY <1>1, <1>4, <2>1, <2>2
<1>6. Cardinality(F) = m
  <2>1. m \in Nat
    BY <1>1
  <2>2. Cardinality(1..m) = m
    BY <2>1, FS_Interval
  <2> QED
    BY <1>5, <2>2
<1> HIDE DEF F
<1> QED
  BY <1>4, <1>6 DEF F

LEMMA InsertedIs ==
    ASSUME NEW s \in Seq(Item), Ordered(s), NEW x \in Item
    PROVE  /\ Inserted(s, x) \in Seq(Item)
           /\ Ordered(Inserted(s, x))
           /\ \A y : Occurrences(Inserted(s, x), y)
                         = Occurrences(s, y) + (IF y = x THEN 1 ELSE 0)
<1> DEFINE n == Len(s)
<1>1. PICK k \in 0..n : /\ k = Cardinality({i \in DOMAIN s : ~ Before(x, s[i])})
                        /\ \A i \in 1..n : ~ Before(x, s[i]) <=> i <= k
  BY FrontOf, Zenon
<1> DEFINE a == SubSeq(s, 1, k)
           b == SubSeq(s, k + 1, n)
           t == (a \o <<x>>) \o b
<1>2. n \in Nat /\ k \in Nat /\ k <= n /\ \A i \in 1..n : s[i] \in Item
  OBVIOUS
<1>3. Inserted(s, x) = t
  BY <1>1, Zenon DEF Inserted
<1>4. /\ a \in Seq(Item) /\ Len(a) = k
      /\ \A i \in 1..k : a[i] = s[i]
  BY <1>2
<1>5. /\ b \in Seq(Item) /\ Len(b) = n - k
      /\ \A i \in 1..(n - k) : b[i] = s[k + i]
  BY <1>2
<1>6. a \o b = s
  <2>1. 1 \in 1..(n + 1) /\ k \in (1 - 1)..n /\ n \in k..n
    BY <1>2
  <2> QED
    BY <2>1, ConcatAdjacentSubSeq, SubSeqFull
<1> HIDE DEF a, b
<1>7. /\ a \o <<x>> \in Seq(Item) /\ Len(a \o <<x>>) = k + 1
      /\ \A i \in 1..(k + 1) : (a \o <<x>>)[i] = IF i <= k THEN a[i] ELSE x
  BY <1>2, <1>4
<1>8. /\ t \in Seq(Item) /\ Len(t) = n + 1
      /\ \A i \in 1..(n + 1) : t[i] = IF i <= k + 1 THEN (a \o <<x>>)[i] ELSE b[i - (k + 1)]
  <2> DEFINE c == a \o <<x>>
  <2> HIDE DEF c
  <2>1. c \in Seq(Item) /\ Len(c) = k + 1
    BY <1>7 DEF c
  <2>2. /\ c \o b \in Seq(Item) /\ Len(c \o b) = Len(c) + Len(b)
        /\ \A i \in 1..(Len(c) + Len(b)) :
              (c \o b)[i] = IF i <= Len(c) THEN c[i] ELSE b[i - Len(c)]
    BY <1>5, <2>1, ConcatProperties
  <2>3. Len(c) + Len(b) = n + 1
    BY <1>2, <1>5, <2>1
  <2> QED
    BY <2>1, <2>2, <2>3 DEF c
<1>9. \A i \in 1..(n + 1) : t[i] = IF i <= k THEN s[i] ELSE IF i = k + 1 THEN x ELSE s[i - 1]
  <2>1. ASSUME NEW i \in 1..(n + 1)
        PROVE  t[i] = IF i <= k THEN s[i] ELSE IF i = k + 1 THEN x ELSE s[i - 1]
    <3>1. CASE i <= k
      <4>1. i \in 1..k /\ i \in 1..(k + 1) /\ i <= k + 1
        BY <1>2, <3>1
      <4> QED
        BY <1>4, <1>7, <1>8, <3>1, <4>1, Zenon
    <3>2. CASE i = k + 1
      <4>1. i \in 1..(k + 1) /\ i <= k + 1 /\ ~ (i <= k)
        BY <1>2, <3>2
      <4> QED
        BY <1>7, <1>8, <3>2, <4>1, Zenon
    <3>3. CASE i > k + 1
      <4>1. /\ ~ (i <= k + 1) /\ ~ (i <= k) /\ i # k + 1
            /\ i - (k + 1) \in 1..(n - k) /\ k + (i - (k + 1)) = i - 1
        BY <1>2, <3>3
      <4> QED
        BY <1>5, <1>8, <4>1, Zenon
    <3>4. i <= k \/ i = k + 1 \/ i > k + 1
      BY <1>2
    <3> QED
      BY <3>1, <3>2, <3>3, <3>4, Zenon
  <2> QED
    BY <2>1, Zenon
<1> HIDE DEF t
<1>10. ASSUME NEW i \in 1..(n + 1), NEW j \in 1..(n + 1), i < j
       PROVE  ~ Before(t[j], t[i])
  <2>1. \A u \in 1..n : \A v \in 1..n : u < v => ~ Before(s[v], s[u])
    BY DEF Ordered
  <2>2. CASE j <= k
    <3>1. i \in 1..n /\ j \in 1..n /\ i <= k
      BY <1>2, <1>10, <2>2
    <3> QED
      BY <1>9, <1>10, <2>1, <2>2, <3>1, Zenon
  <2>3. CASE j = k + 1
    <3>1. i \in 1..n /\ i <= k /\ ~ (j <= k)
      BY <1>2, <1>10, <2>3
    <3> QED
      BY <1>1, <1>9, <2>3, <3>1, Zenon
  <2>4. CASE j > k + 1
    <3>1. j - 1 \in 1..n /\ ~ (j - 1 <= k) /\ ~ (j <= k) /\ j # k + 1
      BY <1>2, <2>4
    <3>2. t[j] = s[j - 1] /\ s[j - 1] \in Item /\ Before(x, s[j - 1])
      BY <1>1, <1>2, <1>9, <3>1, Zenon
    <3>3. CASE i <= k
      <4>1. i \in 1..n /\ i < j - 1
        BY <1>2, <2>4, <3>3
      <4> QED
        BY <1>9, <2>1, <3>1, <3>2, <3>3, <4>1, Zenon
    <3>4. CASE i = k + 1
      <4>1. t[i] = x
        <5>1. ~ (i <= k)
          BY <1>2, <3>4
        <5> QED
          BY <1>9, <3>4, <5>1, Zenon
      <4> QED
        BY <3>2, <4>1, BeforeIsOrder, Zenon
    <3>5. CASE i > k + 1
      <4>1. i - 1 \in 1..n /\ i - 1 < j - 1 /\ ~ (i <= k) /\ i # k + 1
        BY <1>2, <1>10, <3>5
      <4> QED
        BY <1>9, <2>1, <3>1, <3>2, <4>1, Zenon
    <3> QED
      BY <1>2, <3>3, <3>4, <3>5
  <2> QED
    BY <1>2, <2>2, <2>3, <2>4
<1>11. Ordered(t)
  <2>1. 1..Len(t) = 1..(n + 1)
    BY <1>8
  <2> QED
    BY <1>10, <2>1, Zenon DEF Ordered
<1>12. ASSUME NEW y
       PROVE  Occurrences(t, y) = Occurrences(s, y) + (IF y = x THEN 1 ELSE 0)
  <2>1. Occurrences(t, y) = Occurrences(a \o <<x>>, y) + Occurrences(b, y)
    <3> DEFINE c == a \o <<x>>
    <3>1. c \in Seq(Item) /\ t = c \o b
      BY <1>7 DEF t
    <3> HIDE DEF c
    <3>2. Occurrences(c \o b, y) = Occurrences(c, y) + Occurrences(b, y)
      BY <1>5, <3>1, OccurrencesOfConcat
    <3> QED
      BY <3>1, <3>2 DEF c
  <2>2. Occurrences(a \o <<x>>, y) = Occurrences(a, y) + Occurrences(<<x>>, y)
    <3>1. <<x>> \in Seq(Item)
      OBVIOUS
    <3> QED
      BY <1>4, <3>1, OccurrencesOfConcat
  <2>3. Occurrences(s, y) = Occurrences(a, y) + Occurrences(b, y)
    BY <1>4, <1>5, <1>6, OccurrencesOfConcat
  <2>4. Occurrences(<<x>>, y) = IF y = x THEN 1 ELSE 0
    BY OccurrencesOfOne
  <2>5. Occurrences(a, y) \in Nat /\ Occurrences(b, y) \in Nat
    BY <1>4, <1>5, PlacesAreFinite
  <2> QED
    BY <2>1, <2>2, <2>3, <2>4, <2>5
<1> QED
  BY <1>3, <1>8, <1>11, <1>12, Zenon

LEMMA OccurrencesOfLonger ==
    ASSUME NEW a \in Seq(Item), NEW x \in Item, NEW y
    PROVE  Occurrences(a \o <<x>>, y) = Occurrences(a, y) + (IF y = x THEN 1 ELSE 0)
<1>1. <<x>> \in Seq(Item)
  OBVIOUS
<1>2. Occurrences(a \o <<x>>, y) = Occurrences(a, y) + Occurrences(<<x>>, y)
  BY <1>1, OccurrencesOfConcat
<1>3. Occurrences(<<x>>, y) = IF y = x THEN 1 ELSE 0
  BY OccurrencesOfOne
<1> QED
  BY <1>2, <1>3, Zenon

OrderedList == {s \in Seq(Item) : Ordered(s)}

LEMMA EmptyIsOrdered == <<>> \in OrderedList /\ \A y : Occurrences(<<>>, y) = 0
<1>1. <<>> \in Seq(Item) /\ Len(<<>>) = 0 /\ 1..0 = {}
  OBVIOUS
<1>2. Ordered(<<>>)
  BY <1>1 DEF Ordered
<1>3. \A y : Occurrences(<<>>, y) = 0
  BY <1>1, PlacesAreFinite
<1> QED
  BY <1>1, <1>2, <1>3 DEF OrderedList

LEMMA SortedToIs ==
    ASSUME NEW list \in Seq(Item)
    PROVE  /\ SortedTo(list)[0] = <<>>
           /\ \A i \in 1..Len(list) : SortedTo(list)[i] = Inserted(SortedTo(list)[i - 1], list[i])
<1> DEFINE n == Len(list)
           next(i, s) == IF i \in 1..n THEN Inserted(s, list[i]) ELSE s
           step == [p \in Nat \X OrderedList |-> next(p[1], p[2])]
<1>1. n \in Nat /\ \A i \in 1..n : list[i] \in Item
  OBVIOUS
<1>2. \A i \in Nat : \A s \in OrderedList : next(i, s) \in OrderedList
  BY <1>1, InsertedIs DEF OrderedList
<1> HIDE DEF n, next
<1>3. step \in Steps(OrderedList)
  <2>1. \A p \in Nat \X OrderedList : p[1] \in Nat /\ p[2] \in OrderedList
    BY Zenon
  <2> QED
    BY <1>2, <2>1, Zenon DEF Steps
<1>4. \A i \in Nat : \A s \in OrderedList : step[<<i, s>>] = next(i, s)
  BY Zenon
<1> HIDE DEF step
<1>5. Solvable(OrderedList, <<>>, step, n)
  BY <1>1, <1>3, EmptyIsOrdered, RecursionDefines
<1>6. PICK g \in [0..n -> OrderedList] :
          g[0] = <<>> /\ \A i \in 1..n : g[i] = step[<<i, g[i - 1]>>]
  BY <1>5 DEF Solvable
<1>7. ASSUME NEW i \in 1..n
      PROVE  g[i] = Inserted(g[i - 1], list[i])
  <2>1. i \in Nat /\ i - 1 \in 0..n
    BY <1>1
  <2>2. g[i - 1] \in OrderedList
    BY <2>1
  <2>3. g[i] = next(i, g[i - 1])
    BY <1>4, <1>6, <2>1, <2>2, Zenon
  <2> QED
    BY <2>3, Zenon DEF next
<1>8. \A i \in 0..n : g[i] = IF i = 0 THEN <<>> ELSE Inserted(g[i - 1], list[i])
  <2>1. \A i \in 0..n : i = 0 \/ i \in 1..n
    BY <1>1
  <2> QED
    BY <1>6, <1>7, <2>1, Zenon
<1>9. g = [i \in 0..n |-> IF i = 0 THEN <<>> ELSE Inserted(g[i - 1], list[i])]
  <2>1. g = [i \in 0..n |-> g[i]]
    BY Zenon
  <2> QED
    BY <1>8, <2>1, Zenon
<1> DEFINE q == SortedTo(list)
<1>10. q = [i \in 0..n |-> IF i = 0 THEN <<>> ELSE Inserted(q[i - 1], list[i])]
  BY <1>9, Zenon DEF SortedTo, n
<1> HIDE DEF q
<1>11. \A i \in 0..n : q[i] = IF i = 0 THEN <<>> ELSE Inserted(q[i - 1], list[i])
  BY <1>10, Zenon
<1>12. 0 \in 0..n /\ \A i \in 1..n : i \in 0..n /\ i # 0
  BY <1>1
<1> QED
  BY <1>11, <1>12, Zenon DEF q, n

LEMMA SortingKeeps ==
    ASSUME NEW list \in Seq(Item)
    PROVE  LET sorted == SortedTo(list)[Len(list)]
           IN  /\ sorted \in OrderedList
               /\ \A y : Occurrences(sorted, y) = Occurrences(list, y)
<1> DEFINE n == Len(list)
           q == SortedTo(list)
           Keeps(m) == /\ q[m] \in OrderedList
                       /\ \A y : Occurrences(q[m], y) = Occurrences(SubSeq(list, 1, m), y)
           T == {m \in 0..n : Keeps(m)}
<1>1. n \in Nat /\ \A i \in 1..n : list[i] \in Item
  OBVIOUS
<1>2. q[0] = <<>> /\ \A i \in 1..n : q[i] = Inserted(q[i - 1], list[i])
  BY SortedToIs
<1> HIDE DEF q
<1>3. 0 \in T
  <2>1. SubSeq(list, 1, 0) = <<>>
    BY SubSeqEmpty
  <2>2. Keeps(0)
    BY <1>2, <2>1, EmptyIsOrdered, Zenon
  <2> HIDE DEF Keeps
  <2> QED
    BY <1>1, <2>2
<1>4. ASSUME NEW m \in T, m < n
      PROVE  m + 1 \in T
  <2> DEFINE x == list[m + 1]
             a == SubSeq(list, 1, m)
             s == q[m]
  <2>1. m + 1 \in 1..n /\ (m + 1) - 1 = m /\ m + 1 \in 0..n /\ m \in Nat
    BY <1>1, <1>4
  <2>2. x \in Item /\ q[m + 1] = Inserted(s, x)
    BY <1>1, <1>2, <2>1
  <2>3. /\ s \in Seq(Item) /\ Ordered(s)
        /\ \A y : Occurrences(s, y) = Occurrences(a, y)
    BY <1>4 DEF OrderedList
  <2>4. a \in Seq(Item)
    BY <1>1, <1>4
  <2>5. SubSeq(list, 1, m + 1) = a \o <<x>>
    <3>1. 1 \in 1..n /\ m + 1 \in 1..n
      BY <2>1, <1>1
    <3> QED
      BY <2>1, <3>1, SubSeqRecursiveSecond
  <2> HIDE DEF x, a, s
  <2>6. /\ Inserted(s, x) \in Seq(Item) /\ Ordered(Inserted(s, x))
        /\ \A y : Occurrences(Inserted(s, x), y)
                      = Occurrences(s, y) + (IF y = x THEN 1 ELSE 0)
    BY <2>2, <2>3, InsertedIs
  <2>7. \A y : Occurrences(a \o <<x>>, y) = Occurrences(a, y) + (IF y = x THEN 1 ELSE 0)
    BY <2>2, <2>4, OccurrencesOfLonger, Zenon
  <2>8. Keeps(m + 1)
    <3>1. q[m + 1] \in OrderedList
      BY <2>2, <2>6 DEF OrderedList
    <3>2. \A y : Occurrences(q[m + 1], y) = Occurrences(SubSeq(list, 1, m + 1), y)
      BY <2>2, <2>3, <2>5, <2>6, <2>7, Zenon
    <3> QED
      BY <3>1, <3>2
  <2> HIDE DEF Keeps
  <2> QED
    BY <2>1, <2>8
<1>5. T = 0..n
  <2> HIDE DEF T, n
  <2>1. T \in SUBSET (0..n)
    BY DEF T
  <2> QED
    BY <1>1, <1>3, <1>4, <2>1, UpToLast
<1>6. Keeps(n)
  <2>1. n \in T
    BY <1>1, <1>5
  <2> HIDE DEF Keeps
  <2> QED
    BY <2>1
<1>7. SubSeq(list, 1, n) = list
  BY SubSeqFull
<1> QED
  BY <1>6, <1>7 DEF q

\* Lists in order that hold the same entries, each as often, are equal.
Agreeing(n) ==
    \A a, b \in OrderedList :
        Len(a) = n /\ (\A y \in Item : Occurrences(a, y) = Occurrences(b, y)) => a = b

LEMMA LastOfOrdered ==
    ASSUME NEW a \in OrderedList, NEW n \in Nat, Len(a) = n + 1
    PROVE  LET front == SubSeq(a, 1, n)
               last == a[n + 1]
           IN  /\ last \in Item /\ front \in OrderedList /\ Len(front) = n
               /\ a = front \o <<last>>
               /\ \A y : Occurrences(a, y) = Occurrences(front, y) + (IF y = last THEN 1 ELSE 0)
               /\ \A i \in 1..(n + 1) : ~ Before(last, a[i])
<1> DEFINE front == SubSeq(a, 1, n)
           last == a[n + 1]
<1>1. a \in Seq(Item) /\ Ordered(a) /\ n + 1 \in 1..Len(a) /\ \A i \in 1..Len(a) : a[i] \in Item
  BY DEF OrderedList
<1>2. last \in Item
  BY <1>1
<1>3. /\ front \in Seq(Item) /\ Len(front) = n
      /\ \A i \in 1..n : front[i] = a[i]
  BY <1>1
<1>4. Ordered(front)
  <2>1. \A i \in 1..n : i \in 1..Len(a)
    OBVIOUS
  <2> HIDE DEF front
  <2> QED
    BY <1>1, <1>3, <2>1 DEF Ordered
<1>5. a = front \o <<last>>
  <2>1. SubSeq(a, 1, n + 1) = a
    BY <1>1, SubSeqFull
  <2>2. SubSeq(a, 1, n + 1) = SubSeq(a, 1, (n + 1) - 1) \o <<a[n + 1]>>
    <3>1. 1 \in 1..Len(a) /\ n + 1 \in 1..Len(a)
      OBVIOUS
    <3> QED
      BY <1>1, <3>1, SubSeqRecursiveSecond
  <2>3. (n + 1) - 1 = n
    OBVIOUS
  <2> QED
    BY <2>1, <2>2, <2>3
<1> HIDE DEF front, last
<1>6. \A y : Occurrences(a, y) = Occurrences(front, y) + (IF y = last THEN 1 ELSE 0)
  BY <1>2, <1>3, <1>5, OccurrencesOfLonger, Zenon
<1>7. ASSUME NEW i \in 1..(n + 1)
      PROVE  ~ Before(last, a[i])
  <2>1. CASE i = n + 1
    BY <1>2, <2>1, BeforeIsOrder DEF last
  <2>2. CASE i < n + 1
    BY <1>1, <2>2 DEF Ordered, last
  <2> QED
    BY <2>1, <2>2
<1> QED
  BY <1>2, <1>3, <1>4, <1>5, <1>6, <1>7 DEF OrderedList, front, last

LEMMA OrderedAreEqual ==
    ASSUME NEW a \in OrderedList, NEW b \in OrderedList,
           \A y \in Item : Occurrences(a, y) = Occurrences(b, y)
    PROVE  a = b
<1> DEFINE T == {n \in Nat : Agreeing(n)}
<1>1. \A c \in OrderedList : /\ c \in Seq(Item) /\ Len(c) \in Nat
                             /\ \A i \in 1..Len(c) : c[i] \in Item
  BY DEF OrderedList
<1>2. \A c \in OrderedList : \A x \in Item :
          /\ Occurrences(c, x) \in Nat
          /\ Occurrences(c, x) = 0 <=> \A i \in 1..Len(c) : c[i] # x
  BY <1>1, PlacesAreFinite
<1>3. 0 \in T
  <2> SUFFICES ASSUME NEW c \in OrderedList, NEW d \in OrderedList, Len(c) = 0,
                      \A y \in Item : Occurrences(c, y) = Occurrences(d, y)
               PROVE  c = d
    BY DEF Agreeing
  <2>1. \A y \in Item : Occurrences(d, y) = 0
    BY <1>2
  <2>2. Len(d) = 0
    <3> SUFFICES ASSUME Len(d) # 0
                 PROVE  FALSE
      OBVIOUS
    <3>1. 1 \in 1..Len(d) /\ d[1] \in Item
      BY <1>1
    <3> QED
      BY <1>2, <2>1, <3>1
  <2> QED
    BY <1>1, <2>2
<1>4. ASSUME NEW n \in T
      PROVE  n + 1 \in T
  <2> SUFFICES ASSUME NEW c \in OrderedList, NEW d \in OrderedList, Len(c) = n + 1,
                      \A y \in Item : Occurrences(c, y) = Occurrences(d, y)
               PROVE  c = d
    BY DEF Agreeing
  <2>1. n \in Nat /\ Agreeing(n)
    OBVIOUS
  <2>2. Len(d) # 0
    <3> SUFFICES ASSUME Len(d) = 0
                 PROVE  FALSE
      OBVIOUS
    <3>1. 1 \in 1..Len(c) /\ c[1] \in Item
      BY <1>1, <2>1
    <3>2. Occurrences(d, c[1]) = 0
      BY <1>2, <3>1
    <3> QED
      BY <1>2, <3>1, <3>2
  <2>3. PICK m \in Nat : Len(d) = m + 1
    <3>1. Len(d) - 1 \in Nat /\ Len(d) = (Len(d) - 1) + 1
      BY <1>1, <2>2
    <3> QED
      BY <3>1
  <2> DEFINE u == SubSeq(c, 1, n)
             x == c[n + 1]
             v == SubSeq(d, 1, m)
             z == d[m + 1]
  <2>4. /\ x \in Item /\ u \in OrderedList /\ Len(u) = n
        /\ c = u \o <<x>>
        /\ \A y : Occurrences(c, y) = Occurrences(u, y) + (IF y = x THEN 1 ELSE 0)
        /\ \A i \in 1..(n + 1) : ~ Before(x, c[i])
    BY <2>1, LastOfOrdered
  <2>5. /\ z \in Item /\ v \in OrderedList /\ Len(v) = m
        /\ d = v \o <<z>>
        /\ \A y : Occurrences(d, y) = Occurrences(v, y) + (IF y = z THEN 1 ELSE 0)
        /\ \A i \in 1..(m + 1) : ~ Before(z, d[i])
    BY <2>3, LastOfOrdered
  <2>6. \E i \in 1..(m + 1) : d[i] = x
    <3>1. Occurrences(c, x) # 0
      <4>1. n + 1 \in 1..Len(c) /\ c[n + 1] = x
        BY <2>1
      <4> QED
        BY <1>2, <2>4, <4>1
    <3>2. Occurrences(d, x) # 0
      BY <2>4, <3>1
    <3> QED
      BY <1>2, <2>3, <2>4, <3>2
  <2>7. \E i \in 1..(n + 1) : c[i] = z
    <3>1. Occurrences(d, z) # 0
      <4>1. m + 1 \in 1..Len(d) /\ d[m + 1] = z
        BY <2>3
      <4> QED
        BY <1>2, <2>5, <4>1
    <3>2. Occurrences(c, z) # 0
      BY <2>5, <3>1
    <3> QED
      BY <1>2, <2>5, <3>2
  <2> HIDE DEF u, v, x, z
  <2>8. x = z
    <3>1. ~ Before(z, x) /\ ~ Before(x, z)
      BY <2>4, <2>5, <2>6, <2>7, Zenon
    <3> QED
      BY <2>4, <2>5, <3>1, BeforeIsOrder, Zenon
  <2>9. ASSUME NEW y \in Item
        PROVE  Occurrences(u, y) = Occurrences(v, y)
    <3>1. Occurrences(u, y) \in Nat /\ Occurrences(v, y) \in Nat
      BY <1>2, <2>4, <2>5
    <3>2. Occurrences(u, y) + (IF y = x THEN 1 ELSE 0)
              = Occurrences(v, y) + (IF y = x THEN 1 ELSE 0)
      BY <2>4, <2>5, <2>8, Zenon
    <3> QED
      BY <3>1, <3>2
  <2>10. u = v
    BY <2>1, <2>4, <2>5, <2>9 DEF Agreeing
  <2> QED
    BY <2>4, <2>5, <2>8, <2>10, Zenon
<1>5. T = Nat
  <2> HIDE DEF T
  <2>1. T \in SUBSET Nat
    BY DEF T
  <2> QED
    BY <1>3, <1>4, <2>1, NaturalsFromZero
<1>6. Agreeing(Len(a))
  BY <1>1, <1>5
<1> QED
  BY <1>6 DEF Agreeing

-----------------------------------------------------------------------------
(* The items of an identity.                                               *)

Tagged(r, list) == [i \in DOMAIN list |-> <<r, list[i]>>]

LEMMA OccurrencesOfTagged ==
    ASSUME NEW r \in 1..4, NEW list \in Seq(Nat)
    PROVE  /\ Tagged(r, list) \in Seq(Item)
           /\ \A k, v : Occurrences(Tagged(r, list), <<k, v>>)
                            = IF k = r THEN Occurrences(list, v) ELSE 0
<1> DEFINE t == Tagged(r, list)
<1>1. DOMAIN list = 1..Len(list) /\ Len(list) \in Nat /\ \A i \in 1..Len(list) : list[i] \in Nat
  OBVIOUS
<1>2. t = [i \in 1..Len(list) |-> <<r, list[i]>>]
  BY <1>1 DEF Tagged
<1>3. t \in Seq(Item) /\ Len(t) = Len(list) /\ \A i \in 1..Len(list) : t[i] = <<r, list[i]>>
  <2>1. \A i \in 1..Len(list) : <<r, list[i]>> \in Item
    BY <1>1 DEF Item
  <2> HIDE DEF t
  <2> QED
    BY <1>1, <1>2, <2>1
<1> HIDE DEF t
<1>4. ASSUME NEW k, NEW v
      PROVE  Occurrences(t, <<k, v>>) = IF k = r THEN Occurrences(list, v) ELSE 0
  <2>1. CASE k = r
    <3>1. \A x : <<r, x>> = <<k, v>> <=> x = v
      BY <2>1
    <3>2. PlacesOf(t, <<k, v>>) = PlacesOf(list, v)
      BY <1>3, <3>1, Zenon DEF PlacesOf
    <3>3. Occurrences(t, <<k, v>>) = Cardinality(PlacesOf(t, <<k, v>>))
      BY <1>3, PlacesAreFinite
    <3>4. Occurrences(list, v) = Cardinality(PlacesOf(list, v))
      BY PlacesAreFinite
    <3> QED
      BY <2>1, <3>2, <3>3, <3>4, Zenon
  <2>2. CASE k # r
    <3>1. \A x : <<r, x>> # <<k, v>>
      BY <2>2
    <3>2. \A i \in 1..Len(t) : t[i] # <<k, v>>
      BY <1>3, <3>1, Zenon
    <3>3. Occurrences(t, <<k, v>>) = 0
      BY <1>3, <3>2, PlacesAreFinite
    <3> QED
      BY <2>2, <3>3, Zenon
  <2> QED
    BY <2>1, <2>2
<1> QED
  BY <1>3, <1>4 DEF t

\* The list of an identity that has the prefix of a rank.
ListOf(id, r) ==
    CASE r = 1 -> id.dns
      [] r = 2 -> id.email
      [] r = 3 -> AddressList(id.ip)
      [] r = 4 -> id.uri

LEMMA OccurrencesOfItems ==
    ASSUME NEW id \in Identities
    PROVE  /\ Items(id) \in Seq(Item)
           /\ \A r \in 1..4 : \A v : Occurrences(Items(id), <<r, v>>)
                                         = Occurrences(ListOf(id, r), v)
           /\ \A r \in 1..4 : ListOf(id, r) \in Seq(Nat)
<1> DEFINE ips == AddressList(id.ip)
           a == Tagged(1, id.dns)
           b == Tagged(3, ips)
           c == Tagged(2, id.email)
           d == Tagged(4, id.uri)
<1>1. /\ id.dns \in Seq(Nat) /\ id.ip \in Seq(Addresses)
      /\ id.email \in Seq(Nat) /\ id.uri \in Seq(Nat)
  BY DEF Identities
<1>2. ips \in Seq(Nat)
  <2>1. DOMAIN id.ip = 1..Len(id.ip) /\ Len(id.ip) \in Nat
        /\ \A i \in 1..Len(id.ip) : id.ip[i] \in Addresses
    BY <1>1
  <2>2. \A i \in 1..Len(id.ip) : id.ip[i][1] \in Nat
    BY <2>1 DEF Addresses
  <2>3. ips = [i \in 1..Len(id.ip) |-> id.ip[i][1]]
    BY <2>1 DEF AddressList
  <2> QED
    BY <2>1, <2>2, <2>3
<1>3. Items(id) = ((a \o b) \o c) \o d
  BY Zenon DEF Items, Prefix, IPString, AddressList, Tagged
<1>4. 1 \in 1..4 /\ 2 \in 1..4 /\ 3 \in 1..4 /\ 4 \in 1..4
  OBVIOUS
<1> HIDE DEF ips
<1>5. /\ a \in Seq(Item)
      /\ \A k, v : Occurrences(a, <<k, v>>) = IF k = 1 THEN Occurrences(id.dns, v) ELSE 0
  BY <1>1, <1>4, OccurrencesOfTagged
<1>6. /\ b \in Seq(Item)
      /\ \A k, v : Occurrences(b, <<k, v>>) = IF k = 3 THEN Occurrences(ips, v) ELSE 0
  BY <1>2, <1>4, OccurrencesOfTagged
<1>7. /\ c \in Seq(Item)
      /\ \A k, v : Occurrences(c, <<k, v>>) = IF k = 2 THEN Occurrences(id.email, v) ELSE 0
  BY <1>1, <1>4, OccurrencesOfTagged
<1>8. /\ d \in Seq(Item)
      /\ \A k, v : Occurrences(d, <<k, v>>) = IF k = 4 THEN Occurrences(id.uri, v) ELSE 0
  BY <1>1, <1>4, OccurrencesOfTagged
<1> HIDE DEF a, b, c, d
<1>9. a \o b \in Seq(Item)
  BY <1>5, <1>6
<1>10. (a \o b) \o c \in Seq(Item)
  BY <1>7, <1>9
<1>11. ((a \o b) \o c) \o d \in Seq(Item)
  BY <1>8, <1>10
<1>12. ASSUME NEW y
       PROVE  Occurrences(((a \o b) \o c) \o d, y)
                = Occurrences(a, y) + Occurrences(b, y) + Occurrences(c, y) + Occurrences(d, y)
  <2>1. Occurrences(((a \o b) \o c) \o d, y) = Occurrences((a \o b) \o c, y) + Occurrences(d, y)
    <3> DEFINE e == (a \o b) \o c
    <3>1. e \in Seq(Item)
      BY <1>10
    <3> HIDE DEF e
    <3>2. Occurrences(e \o d, y) = Occurrences(e, y) + Occurrences(d, y)
      BY <1>8, <3>1, OccurrencesOfConcat
    <3> QED
      BY <3>2 DEF e
  <2>2. Occurrences((a \o b) \o c, y) = Occurrences(a \o b, y) + Occurrences(c, y)
    <3> DEFINE e == a \o b
    <3>1. e \in Seq(Item)
      BY <1>9
    <3> HIDE DEF e
    <3>2. Occurrences(e \o c, y) = Occurrences(e, y) + Occurrences(c, y)
      BY <1>7, <3>1, OccurrencesOfConcat
    <3> QED
      BY <3>2 DEF e
  <2>3. Occurrences(a \o b, y) = Occurrences(a, y) + Occurrences(b, y)
    BY <1>5, <1>6, OccurrencesOfConcat
  <2> QED
    BY <2>1, <2>2, <2>3, Zenon
<1>13. /\ ListOf(id, 1) = id.dns /\ ListOf(id, 2) = id.email
       /\ ListOf(id, 3) = ips /\ ListOf(id, 4) = id.uri
  BY DEF ListOf, ips
<1>14. \A r \in 1..4 : r = 1 \/ r = 2 \/ r = 3 \/ r = 4
  OBVIOUS
<1>15. \A r \in 1..4 : ListOf(id, r) \in Seq(Nat)
  BY <1>1, <1>2, <1>13, <1>14, Zenon
<1>16. ASSUME NEW r \in 1..4, NEW v
       PROVE  Occurrences(Items(id), <<r, v>>) = Occurrences(ListOf(id, r), v)
  <2>1. Occurrences(ListOf(id, r), v) \in Nat
    BY <1>15, PlacesAreFinite
  <2>2. Occurrences(Items(id), <<r, v>>)
          = Occurrences(a, <<r, v>>) + Occurrences(b, <<r, v>>) + Occurrences(c, <<r, v>>)
              + Occurrences(d, <<r, v>>)
    BY <1>3, <1>12, Zenon
  <2>3. Occurrences(Items(id), <<r, v>>)
          = (IF r = 1 THEN Occurrences(id.dns, v) ELSE 0)
              + (IF r = 3 THEN Occurrences(ips, v) ELSE 0)
              + (IF r = 2 THEN Occurrences(id.email, v) ELSE 0)
              + (IF r = 4 THEN Occurrences(id.uri, v) ELSE 0)
    BY <1>5, <1>6, <1>7, <1>8, <2>2, Zenon
  <2> DEFINE o == Occurrences(ListOf(id, r), v)
  <2>4. Occurrences(Items(id), <<r, v>>)
          = (IF r = 1 THEN o ELSE 0) + (IF r = 3 THEN o ELSE 0)
              + (IF r = 2 THEN o ELSE 0) + (IF r = 4 THEN o ELSE 0)
    BY <1>13, <2>3, Zenon
  <2> HIDE DEF o
  <2>5. o \in Nat
    BY <2>1 DEF o
  <2>6. (IF r = 1 THEN o ELSE 0) + (IF r = 3 THEN o ELSE 0)
              + (IF r = 2 THEN o ELSE 0) + (IF r = 4 THEN o ELSE 0) = o
    <3>1. r = 1 \/ r = 2 \/ r = 3 \/ r = 4
      BY <1>14
    <3> QED
      BY <2>5, <3>1, SMT
  <2>7. Occurrences(Items(id), <<r, v>>) = o
    BY <2>4, <2>6, SMT
  <2> QED
    BY <2>7 DEF o
<1> QED
  BY <1>3, <1>11, <1>15, <1>16, Zenon

LEMMA SameOccurrencesAre ==
    ASSUME NEW a \in Seq(Nat), NEW b \in Seq(Nat)
    PROVE  SameOccurrences(a, b) <=> \A v \in Nat : Occurrences(a, v) = Occurrences(b, v)
<1>1. /\ ToSet(a) = {a[i] : i \in 1..Len(a)} /\ ToSet(b) = {b[i] : i \in 1..Len(b)}
  BY DEF ToSet
<1>2. ToSet(a) \cup ToSet(b) \subseteq Nat
  BY <1>1
<1>3. ASSUME NEW v \in Nat, v \notin ToSet(a) \cup ToSet(b)
      PROVE  Occurrences(a, v) = Occurrences(b, v)
  <2>1. (\A i \in 1..Len(a) : a[i] # v) /\ (\A i \in 1..Len(b) : b[i] # v)
    BY <1>1, <1>3
  <2>2. Occurrences(a, v) = 0
    BY <2>1, PlacesAreFinite
  <2>3. Occurrences(b, v) = 0
    BY <2>1, PlacesAreFinite
  <2> QED
    BY <2>2, <2>3
<1> QED
  BY <1>2, <1>3 DEF SameOccurrences

\* The sorted items of an identity.
SortedItems(id) == SortedTo(Items(id))[Len(Items(id))]

LEMMA SameItems ==
    ASSUME NEW p \in Identities, NEW c \in Identities
    PROVE  SortedItems(p) = SortedItems(c) <=>
               \A r \in 1..4 : SameOccurrences(ListOf(p, r), ListOf(c, r))
<1>1. /\ Items(p) \in Seq(Item)
      /\ \A r \in 1..4 : \A v : Occurrences(Items(p), <<r, v>>) = Occurrences(ListOf(p, r), v)
      /\ \A r \in 1..4 : ListOf(p, r) \in Seq(Nat)
  BY OccurrencesOfItems
<1>2. /\ Items(c) \in Seq(Item)
      /\ \A r \in 1..4 : \A v : Occurrences(Items(c), <<r, v>>) = Occurrences(ListOf(c, r), v)
      /\ \A r \in 1..4 : ListOf(c, r) \in Seq(Nat)
  BY OccurrencesOfItems
<1>3. /\ SortedItems(p) \in OrderedList
      /\ \A y : Occurrences(SortedItems(p), y) = Occurrences(Items(p), y)
  BY <1>1, SortingKeeps, Zenon DEF SortedItems
<1>4. /\ SortedItems(c) \in OrderedList
      /\ \A y : Occurrences(SortedItems(c), y) = Occurrences(Items(c), y)
  BY <1>2, SortingKeeps, Zenon DEF SortedItems
<1>5. SortedItems(p) = SortedItems(c) <=>
          \A y \in Item : Occurrences(Items(p), y) = Occurrences(Items(c), y)
  <2>1. ASSUME \A y \in Item : Occurrences(Items(p), y) = Occurrences(Items(c), y)
        PROVE  SortedItems(p) = SortedItems(c)
    <3>1. \A y \in Item : Occurrences(SortedItems(p), y) = Occurrences(SortedItems(c), y)
      BY <1>3, <1>4, <2>1, Zenon
    <3> QED
      BY <1>3, <1>4, <3>1, OrderedAreEqual
  <2>2. ASSUME SortedItems(p) = SortedItems(c)
        PROVE  \A y \in Item : Occurrences(Items(p), y) = Occurrences(Items(c), y)
    BY <1>3, <1>4, <2>2, Zenon
  <2> QED
    BY <2>1, <2>2, Zenon
<1>6. (\A y \in Item : Occurrences(Items(p), y) = Occurrences(Items(c), y)) <=>
          \A r \in 1..4 : \A v \in Nat :
              Occurrences(ListOf(p, r), v) = Occurrences(ListOf(c, r), v)
  <2>1. \A y \in Item : y[1] \in 1..4 /\ y[2] \in Nat /\ y = <<y[1], y[2]>>
    BY DEF Item
  <2>2. \A r \in 1..4 : \A v \in Nat : <<r, v>> \in Item
    BY Zenon DEF Item
  <2>3. ASSUME NEW r \in 1..4, NEW v
        PROVE  Occurrences(Items(p), <<r, v>>) = Occurrences(Items(c), <<r, v>>) <=>
                   Occurrences(ListOf(p, r), v) = Occurrences(ListOf(c, r), v)
    BY <1>1, <1>2, Zenon
  <2>4. ASSUME \A r \in 1..4 : \A v \in Nat :
                  Occurrences(ListOf(p, r), v) = Occurrences(ListOf(c, r), v),
               NEW y \in Item
        PROVE  Occurrences(Items(p), y) = Occurrences(Items(c), y)
    <3>1. Occurrences(Items(p), <<y[1], y[2]>>) = Occurrences(Items(c), <<y[1], y[2]>>)
      BY <2>1, <2>3, <2>4
    <3> QED
      BY <2>1, <3>1
  <2>5. ASSUME \A y \in Item : Occurrences(Items(p), y) = Occurrences(Items(c), y),
               NEW r \in 1..4, NEW v \in Nat
        PROVE  Occurrences(ListOf(p, r), v) = Occurrences(ListOf(c, r), v)
    BY <2>2, <2>3, <2>5
  <2> QED
    BY <2>4, <2>5, Zenon
<1>7. \A r \in 1..4 : SameOccurrences(ListOf(p, r), ListOf(c, r)) <=>
          \A v \in Nat : Occurrences(ListOf(p, r), v) = Occurrences(ListOf(c, r), v)
  BY <1>1, <1>2, SameOccurrencesAre, Zenon
<1> QED
  BY <1>5, <1>6, <1>7, Zenon

\* A list whose items have one line each is rendered as it is.
LEMMA OneLineEach ==
    ASSUME NEW list \in Seq(Item), \A i \in 1..Len(list) : LinesOf(list[i]) = <<list[i]>>
    PROVE  Rendered(list) = list
<1> DEFINE n == Len(list)
           seqs == [i \in 1..n |-> <<list[i]>>]
<1>1. n \in Nat /\ DOMAIN list = 1..n /\ \A i \in 1..n : list[i] \in Item
  OBVIOUS
<1>2. [i \in DOMAIN list |-> LinesOf(list[i])] = seqs
  BY <1>1, Zenon
<1>3. Rendered(list) = FlattenSeq(seqs)
  BY <1>2, Zenon DEF Rendered
<1>4. /\ seqs \in Seq(Seq(Item)) /\ Len(seqs) = n
      /\ \A i \in 1..n : seqs[i] = <<list[i]>>
  BY <1>1
<1> HIDE DEF seqs, n
<1>5. PICK g : IsJoin(g, seqs, Item) /\ FlattenSeq(seqs) = g[n]
  BY <1>4, FlattenJoins
<1>6. g[0] = <<>> /\ \A i \in 1..n : g[i] = g[i - 1] \o <<list[i]>>
  BY <1>4, <1>5, Zenon DEF IsJoin
<1> DEFINE T == {m \in 0..n : g[m] = SubSeq(list, 1, m)}
<1>7. 0 \in T
  <2>1. SubSeq(list, 1, 0) = <<>>
    BY SubSeqEmpty
  <2>2. 0 \in 0..n
    BY <1>1
  <2> QED
    BY <1>6, <2>1, <2>2, Zenon
<1>8. ASSUME NEW m \in T, m < n
      PROVE  m + 1 \in T
  <2>1. m + 1 \in 1..n /\ (m + 1) - 1 = m /\ m + 1 \in 0..n /\ m \in Nat /\ m <= Len(list)
    BY <1>1, <1>8 DEF n
  <2>2. g[m + 1] = SubSeq(list, 1, m) \o <<list[m + 1]>>
    BY <1>6, <1>8, <2>1
  <2>3. SubSeq(list, 1, m) \o <<list[m + 1]>> = SubSeq(list, 1, m + 1)
    BY <1>1, <2>1 DEF n
  <2> QED
    BY <2>1, <2>2, <2>3
<1> HIDE DEF T
<1>9. T = 0..n
  <2>1. T \in SUBSET (0..n)
    BY DEF T
  <2> QED
    BY <1>1, <1>7, <1>8, <2>1, UpToLast
<1>10. g[n] = SubSeq(list, 1, n)
  BY <1>1, <1>9 DEF T
<1>11. SubSeq(list, 1, n) = list
  BY <1>1 DEF n
<1> QED
  BY <1>3, <1>5, <1>10, <1>11

LEMMA OneLineItems ==
    ASSUME NEW id \in Identities, OneLineNames(id)
    PROVE  Rendered(SortedItems(id)) = SortedItems(id)
<1> DEFINE list == SortedItems(id)
<1>1. /\ Items(id) \in Seq(Item)
      /\ \A r \in 1..4 : \A v : Occurrences(Items(id), <<r, v>>) = Occurrences(ListOf(id, r), v)
      /\ \A r \in 1..4 : ListOf(id, r) \in Seq(Nat)
  BY OccurrencesOfItems
<1>2. /\ list \in OrderedList
      /\ \A y : Occurrences(list, y) = Occurrences(Items(id), y)
  BY <1>1, SortingKeeps, Zenon DEF SortedItems
<1>3. list \in Seq(Item)
  BY <1>2 DEF OrderedList
<1> HIDE DEF list
<1>4. /\ ListOf(id, 1) = id.dns /\ ListOf(id, 2) = id.email
  BY DEF ListOf
<1>5. \A r \in {1, 2} : \A v \in DOMAIN LineBreaks : \A i \in 1..Len(ListOf(id, r)) :
          ListOf(id, r)[i] # v
  <2>1. id.dns \in Seq(Nat) /\ id.email \in Seq(Nat)
    BY DEF Identities
  <2>2. /\ \A i \in 1..Len(id.dns) : id.dns[i] \notin DOMAIN LineBreaks
        /\ \A i \in 1..Len(id.email) : id.email[i] \notin DOMAIN LineBreaks
    BY <2>1 DEF OneLineNames, ToSet
  <2> QED
    BY <1>4, <2>2, Zenon
<1>6. \A r \in {1, 2} : \A v \in DOMAIN LineBreaks : Occurrences(list, <<r, v>>) = 0
  <2> SUFFICES ASSUME NEW r \in {1, 2}, NEW v \in DOMAIN LineBreaks
               PROVE  Occurrences(list, <<r, v>>) = 0
    OBVIOUS
  <2>1. r \in 1..4
    OBVIOUS
  <2>2. ListOf(id, r) \in Seq(Nat)
    BY <1>1, <2>1, Zenon
  <2>3. Occurrences(ListOf(id, r), v) = 0
    BY <1>5, <2>2, PlacesAreFinite
  <2> QED
    BY <1>1, <1>2, <2>1, <2>3, Zenon
<1>7. ASSUME NEW i \in 1..Len(list)
      PROVE  LinesOf(list[i]) = <<list[i]>>
  <2> DEFINE x == list[i]
  <2>1. x \in Item
    BY <1>3
  <2>2. x = <<x[1], x[2]>>
    BY <2>1 DEF Item
  <2>3. Occurrences(list, x) # 0
    BY <1>3, PlacesAreFinite
  <2> HIDE DEF x
  <2>4. ~ (x[1] \in {1, 2} /\ x[2] \in DOMAIN LineBreaks)
    BY <1>6, <2>2, <2>3, Zenon
  <2>5. Prefix["dns"] = 1 /\ Prefix["email"] = 2
    BY DEF Prefix
  <2> QED
    BY <2>4, <2>5, Zenon DEF LinesOf, x
<1>8. Rendered(list) = list
  BY <1>3, <1>7, OneLineEach
<1> QED
  BY <1>8 DEF list

\* What the code of identity.go 33-63 compares: a CSR with the CommonName of
\* the certificate and the same names in each of its four lists, each as
\* often, is let through, whatever their number, their order and the line
\* feeds in them; and unless a name contains a line feed, no other CSR is.
THEOREM MatchComparesIdentities == Spec => []MatchIsIdentity
<1>1. EvaluationInv => MatchIsIdentity
  <2> SUFFICES ASSUME EvaluationInv, Evaluated("identitiesMatch")
               PROVE  LET peer == arg[1]
                          csr == arg[2]
                          same == peer.cn = csr.cn /\ SameNames(peer, csr)
                      IN  /\ same => out
                          /\ out /\ OneLineNames(peer) /\ OneLineNames(csr) => same
    BY Zenon DEF MatchIsIdentity
  <2>1. arg \in IdentityPairs
    BY DEF EvaluationInv, Evaluated, Inputs
  <2>2. PICK peer \in Identities, csr \in Identities : arg[1] = peer /\ arg[2] = csr
    BY <2>1, IdentityAssumption
  <2>3. out <=> peer.cn = csr.cn /\ sanSet(peer) = sanSet(csr)
    BY <2>2, Zenon DEF EvaluationInv, identitiesMatch
  <2>4. SortedItems(peer) = SortedItems(csr) <=>
            \A r \in 1..4 : SameOccurrences(ListOf(peer, r), ListOf(csr, r))
    BY SameItems
  <2>5. 1..4 = {1, 2, 3, 4}
    OBVIOUS
  <2>6. SortedItems(peer) = SortedItems(csr) <=>
            /\ SameOccurrences(ListOf(peer, 1), ListOf(csr, 1))
            /\ SameOccurrences(ListOf(peer, 2), ListOf(csr, 2))
            /\ SameOccurrences(ListOf(peer, 3), ListOf(csr, 3))
            /\ SameOccurrences(ListOf(peer, 4), ListOf(csr, 4))
    BY <2>4, <2>5, Zenon
  <2>7. \A id : /\ ListOf(id, 1) = id.dns /\ ListOf(id, 2) = id.email
                /\ ListOf(id, 3) = AddressList(id.ip) /\ ListOf(id, 4) = id.uri
    BY DEF ListOf
  <2>8. SortedItems(peer) = SortedItems(csr) <=> SameNames(peer, csr)
    BY <2>6, <2>7, Zenon DEF SameNames
  <2>9. \A id : sanSet(id) = Rendered(SortedItems(id))
    BY sanSetIs, Zenon DEF SortedItems
  <2>10. ASSUME SameNames(peer, csr)
         PROVE  sanSet(peer) = sanSet(csr)
    BY <2>8, <2>9, <2>10, Zenon
  <2>11. ASSUME sanSet(peer) = sanSet(csr), OneLineNames(peer), OneLineNames(csr)
         PROVE  SameNames(peer, csr)
    <3>1. /\ Rendered(SortedItems(peer)) = SortedItems(peer)
          /\ Rendered(SortedItems(csr)) = SortedItems(csr)
      BY <2>11, OneLineItems, Zenon
    <3> QED
      BY <2>8, <2>9, <2>11, <3>1, Zenon
  <2> QED
    BY <2>2, <2>3, <2>10, <2>11, Zenon
<1> QED
  BY <1>1, EvaluationInvariant, PTL

-----------------------------------------------------------------------------
(* The certificates field, read one certificate after the other.           *)

\* after[i] is what follows the first i lists, put one after the other.
IsRemainder(after, seqs, S) ==
    /\ after \in [0..Len(seqs) -> Seq(S)]
    /\ after[Len(seqs)] = <<>>
    /\ \A i \in 1..Len(seqs) : after[i - 1] = seqs[i] \o after[i]

LEMMA RemainderExists ==
    ASSUME NEW S, NEW seqs \in Seq(Seq(S))
    PROVE  \E after : IsRemainder(after, seqs, S)
<1> DEFINE n == Len(seqs)
           list(i) == IF (n + 1) - i \in 1..n THEN seqs[(n + 1) - i] ELSE <<>>
           step == [p \in Nat \X Seq(S) |-> list(p[1]) \o p[2]]
<1>1. n \in Nat /\ \A i \in 1..n : seqs[i] \in Seq(S)
  OBVIOUS
<1>2. <<>> \in Seq(S)
  OBVIOUS
<1>3. \A i \in Nat : list(i) \in Seq(S)
  BY <1>1, <1>2
<1>4. \A u, v \in Seq(S) : u \o v \in Seq(S)
  OBVIOUS
<1> HIDE DEF n, list
<1>5. step \in Steps(Seq(S))
  <2>1. ASSUME NEW p \in Nat \X Seq(S)
        PROVE  list(p[1]) \o p[2] \in Seq(S)
    <3>1. p[1] \in Nat /\ p[2] \in Seq(S)
      BY Zenon
    <3> QED
      BY <1>3, <1>4, <3>1
  <2> QED
    BY <2>1, Zenon DEF Steps
<1>6. \A i \in Nat : \A v \in Seq(S) : step[<<i, v>>] = list(i) \o v
  BY Zenon
<1> HIDE DEF step
<1>7. Solvable(Seq(S), <<>>, step, n)
  BY <1>1, <1>2, <1>5, RecursionDefines
<1>8. PICK g \in [0..n -> Seq(S)] :
          g[0] = <<>> /\ \A i \in 1..n : g[i] = step[<<i, g[i - 1]>>]
  BY <1>7 DEF Solvable
<1> DEFINE h == [i \in 0..n |-> g[n - i]]
<1>9. ASSUME NEW i \in 1..n
      PROVE  g[i] = list(i) \o g[i - 1]
  <2>1. i \in Nat /\ i - 1 \in 0..n
    BY <1>1
  <2>2. g[i - 1] \in Seq(S)
    BY <2>1
  <2> QED
    BY <1>6, <1>8, <2>1, <2>2, Zenon
<1>10. h \in [0..n -> Seq(S)]
  <2>1. \A i \in 0..n : n - i \in 0..n
    BY <1>1
  <2>2. \A i \in 0..n : g[n - i] \in Seq(S)
    BY <2>1, Zenon
  <2> QED
    BY <2>2, Zenon
<1>11. \A i \in 0..n : h[i] = g[n - i]
  BY Zenon
<1> HIDE DEF h
<1>12. h[n] = <<>>
  <2>1. n \in 0..n /\ n - n = 0
    BY <1>1
  <2> QED
    BY <1>8, <1>11, <2>1
<1>13. ASSUME NEW i \in 1..n
       PROVE  h[i - 1] = seqs[i] \o h[i]
  <2>1. /\ i \in 0..n /\ i - 1 \in 0..n /\ n - (i - 1) \in 1..n
        /\ (n - (i - 1)) - 1 = n - i /\ (n + 1) - (n - (i - 1)) = i
    BY <1>1
  <2>2. g[n - (i - 1)] = list(n - (i - 1)) \o g[n - i]
    BY <1>9, <2>1
  <2>3. list(n - (i - 1)) = seqs[i]
    BY <2>1, Zenon DEF list
  <2> QED
    BY <1>11, <2>1, <2>2, <2>3
<1> QED
  BY <1>10, <1>12, <1>13 DEF IsRemainder, n

LEMMA RemainderIsFlatten ==
    ASSUME NEW S, NEW seqs \in Seq(Seq(S)), NEW after, IsRemainder(after, seqs, S)
    PROVE  after[0] = FlattenSeq(seqs)
<1> DEFINE n == Len(seqs)
<1>1. n \in Nat /\ \A i \in 1..n : seqs[i] \in Seq(S)
  OBVIOUS
<1>2. PICK g : IsJoin(g, seqs, S) /\ FlattenSeq(seqs) = g[n]
  BY FlattenJoins
<1>3. /\ g \in [0..n -> Seq(S)] /\ g[0] = <<>>
      /\ \A i \in 1..n : g[i] = g[i - 1] \o seqs[i]
  BY <1>2 DEF IsJoin
<1>4. /\ after \in [0..n -> Seq(S)] /\ after[n] = <<>>
      /\ \A i \in 1..n : after[i - 1] = seqs[i] \o after[i]
  BY DEF IsRemainder
<1> HIDE DEF n
<1> DEFINE T == {i \in 0..n : g[i] \o after[i] = after[0]}
<1>5. 0 \in T
  <2>1. 0 \in 0..n /\ after[0] \in Seq(S)
    BY <1>1, <1>4
  <2>2. <<>> \o after[0] = after[0]
    BY <2>1, ConcatEmptySeq
  <2> QED
    BY <1>3, <2>1, <2>2
<1>6. ASSUME NEW i \in T, i < n
      PROVE  i + 1 \in T
  <2>1. i \in 0..n /\ i + 1 \in 1..n /\ i + 1 \in 0..n /\ (i + 1) - 1 = i
    BY <1>1, <1>6
  <2>2. g[i + 1] = g[i] \o seqs[i + 1] /\ after[i] = seqs[i + 1] \o after[i + 1]
    BY <1>3, <1>4, <2>1
  <2>3. g[i] \in Seq(S) /\ seqs[i + 1] \in Seq(S) /\ after[i + 1] \in Seq(S)
    BY <1>1, <1>3, <1>4, <2>1
  <2>4. (g[i] \o seqs[i + 1]) \o after[i + 1] = g[i] \o (seqs[i + 1] \o after[i + 1])
    <3>1. \A u, v, w \in Seq(S) : (u \o v) \o w = u \o (v \o w)
      BY ConcatAssociative, SMTT(40)
    <3> QED
      BY <2>3, <3>1, Zenon
  <2>5. g[i] \o after[i] = after[0]
    BY <1>6
  <2> QED
    BY <2>1, <2>2, <2>4, <2>5
<1>7. n \in T
  <2> HIDE DEF T
  <2>1. T \in SUBSET (0..n)
    BY DEF T
  <2>2. T = 0..n
    BY <1>1, <1>5, <1>6, <2>1, UpToLast
  <2> QED
    BY <1>1, <2>2
<1>8. g[n] \in Seq(S)
  BY <1>1, <1>3
<1>9. g[n] \o <<>> = g[n]
  BY <1>8, ConcatEmptySeq
<1> QED
  BY <1>2, <1>4, <1>7, <1>9

\* The states of the reading.
Reads == [ok : BOOLEAN, rest : Seq(Octet), certs : Seq(Seq(Octet))]

Unread(s) == [ok |-> TRUE, rest |-> s, certs |-> <<>>]

LEMMA ReadCertificateStays ==
    ASSUME NEW read \in Reads
    PROVE  ReadCertificate(read) \in Reads
<1> DEFINE element == Read(read.rest, SEQUENCETag)
<1>1. read.rest \in Seq(Octet) /\ read.certs \in Seq(Seq(Octet)) /\ read.ok \in BOOLEAN
  BY DEF Reads
<1>2. element.whole \in Seq(Octet) /\ element.rest \in Seq(Octet)
  BY <1>1, PartsOfRead DEF ReadParts
<1> HIDE DEF element
<1>3. [ok |-> TRUE, rest |-> element.rest, certs |-> Append(read.certs, element.whole)] \in Reads
  BY <1>1, <1>2 DEF Reads
<1>4. [read EXCEPT !.ok = FALSE] \in Reads
  BY DEF Reads
<1> QED
  BY <1>3, <1>4, Zenon DEF ReadCertificate, element

\* The states of the reading of s, one after the other.
ReadTo(s) ==
    CHOOSE q : q = [n \in 0..Len(s) |-> IF n = 0 THEN Unread(s) ELSE ReadCertificate(q[n - 1])]

LEMMA ReadCertificatesIs ==
    ASSUME NEW s
    PROVE  ReadCertificates(s) = IF ReadTo(s)[Len(s)].ok
                                 THEN Success(ReadTo(s)[Len(s)].certs) ELSE Failure
BY DEF ReadCertificates, ReadTo, Unread

LEMMA ReadToIs ==
    ASSUME NEW s \in Seq(Octet)
    PROVE  /\ ReadTo(s)[0] = Unread(s)
           /\ \A i \in 1..Len(s) : ReadTo(s)[i] = ReadCertificate(ReadTo(s)[i - 1])
<1> DEFINE n == Len(s)
           step == [p \in Nat \X Reads |-> ReadCertificate(p[2])]
<1>1. n \in Nat
  OBVIOUS
<1>2. Unread(s) \in Reads
  BY DEF Unread, Reads
<1> HIDE DEF n
<1>3. step \in Steps(Reads)
  <2>1. \A p \in Nat \X Reads : p[2] \in Reads
    BY Zenon
  <2>2. \A p \in Nat \X Reads : ReadCertificate(p[2]) \in Reads
    BY <2>1, ReadCertificateStays, Zenon
  <2> QED
    BY <2>2, Zenon DEF Steps
<1>4. \A i \in Nat : \A v \in Reads : step[<<i, v>>] = ReadCertificate(v)
  BY Zenon
<1> HIDE DEF step
<1>5. Solvable(Reads, Unread(s), step, n)
  BY <1>1, <1>2, <1>3, RecursionDefines
<1>6. PICK g \in [0..n -> Reads] :
          g[0] = Unread(s) /\ \A i \in 1..n : g[i] = step[<<i, g[i - 1]>>]
  BY <1>5 DEF Solvable
<1>7. ASSUME NEW i \in 1..n
      PROVE  g[i] = ReadCertificate(g[i - 1])
  <2>1. i \in Nat /\ i - 1 \in 0..n
    BY <1>1
  <2>2. g[i - 1] \in Reads
    BY <2>1
  <2> QED
    BY <1>4, <1>6, <2>1, <2>2, Zenon
<1>8. \A i \in 0..n : g[i] = IF i = 0 THEN Unread(s) ELSE ReadCertificate(g[i - 1])
  <2>1. \A i \in 0..n : i = 0 \/ i \in 1..n
    BY <1>1
  <2> QED
    BY <1>6, <1>7, <2>1, Zenon
<1>9. g = [i \in 0..n |-> IF i = 0 THEN Unread(s) ELSE ReadCertificate(g[i - 1])]
  <2>1. g = [i \in 0..n |-> g[i]]
    BY Zenon
  <2> QED
    BY <1>8, <2>1, Zenon
<1> DEFINE q == ReadTo(s)
<1>10. q = [i \in 0..n |-> IF i = 0 THEN Unread(s) ELSE ReadCertificate(q[i - 1])]
  BY <1>9, Zenon DEF ReadTo, n
<1> HIDE DEF q
<1>11. \A i \in 0..n : q[i] = IF i = 0 THEN Unread(s) ELSE ReadCertificate(q[i - 1])
  BY <1>10, Zenon
<1>12. 0 \in 0..n /\ \A i \in 1..n : i \in 0..n /\ i # 0
  BY <1>1
<1> QED
  BY <1>11, <1>12, Zenon DEF q, n

LEMMA CertificatesAre ==
    ASSUME NEW cert \in Certificates
    PROVE  /\ cert \in Seq(Octet) /\ cert # <<>> /\ Len(cert) >= 2
           /\ \E content \in Seq(Octet) : cert = Element(SEQUENCETag, content)
<1>1. cert \in Seq(Octet) /\ Len(cert) >= 2 /\ cert[1] = SEQUENCETag /\ cert[2] = Len(cert) - 2
  BY SourceAssumption
<1>2. PICK n \in Nat : n = Len(cert) - 2
  BY <1>1
<1>3. PICK content \in Seq(Octet) : content = SubSeq(cert, 3, Len(cert))
  <2>1. SubSeq(cert, 3, Len(cert)) \in Seq(Octet)
    BY <1>1
  <2> QED
    BY <2>1
<1>4. Len(content) = n /\ \A i \in 1..n : content[i] = cert[i + 2]
  BY <1>1, <1>2, <1>3
<1>5. /\ <<SEQUENCETag, n>> \in Seq(Nat) /\ Len(<<SEQUENCETag, n>>) = 2
      /\ <<SEQUENCETag, n>>[1] = SEQUENCETag /\ <<SEQUENCETag, n>>[2] = n
  BY DEF SEQUENCETag
<1>6. content \in Seq(Nat) /\ cert \in Seq(Nat)
  <2>1. Octet \subseteq Nat
    BY DEF Octet
  <2> QED
    BY <1>1, <2>1, SeqMonotonic
<1> DEFINE h == <<SEQUENCETag, n>>
<1> HIDE DEF h
<1>7. /\ h \o content \in Seq(Nat) /\ Len(h \o content) = n + 2
      /\ \A i \in 1..(n + 2) : (h \o content)[i] = IF i <= 2 THEN h[i] ELSE content[i - 2]
  <2>1. h \in Seq(Nat) /\ Len(h) = 2
    BY <1>5 DEF h
  <2>2. /\ h \o content \in Seq(Nat) /\ Len(h \o content) = Len(h) + Len(content)
        /\ \A i \in 1..(Len(h) + Len(content)) :
              (h \o content)[i] = IF i <= Len(h) THEN h[i] ELSE content[i - Len(h)]
    BY <1>6, <2>1, ConcatProperties
  <2>3. Len(h) + Len(content) = n + 2
    BY <1>4, <2>1
  <2> QED
    BY <2>1, <2>2, <2>3
<1>8. ASSUME NEW i \in 1..(n + 2)
      PROVE  (h \o content)[i] = cert[i]
  <2>1. CASE i = 1
    BY <1>1, <1>5, <1>7, <2>1 DEF h
  <2>2. CASE i = 2
    BY <1>1, <1>2, <1>5, <1>7, <2>2 DEF h
  <2>3. CASE i > 2
    <3>1. i - 2 \in 1..n /\ (i - 2) + 2 = i /\ ~ (i <= 2)
      BY <2>3
    <3> QED
      BY <1>4, <1>7, <3>1
  <2>4. i = 1 \/ i = 2 \/ i > 2
    OBVIOUS
  <2> QED
    BY <2>1, <2>2, <2>3, <2>4, Zenon
<1>9. Len(cert) = n + 2
  BY <1>1, <1>2
<1>10. h \o content = cert
  BY <1>6, <1>7, <1>8, <1>9, SeqEqual
<1>11. cert = Element(SEQUENCETag, content)
  BY <1>4, <1>10 DEF Element, h
<1>12. cert # <<>>
  BY <1>1
<1> QED
  BY <1>1, <1>11, <1>12

\* The certificates of a chain are read back, one by one and to the last.
LEMMA ChainIsRead ==
    ASSUME NEW certs \in Seq(Certificates)
    PROVE  ReadCertificates(FlattenSeq(certs)) = Success(certs)
<1> DEFINE n == Len(certs)
           s == FlattenSeq(certs)
           q == ReadTo(s)
           read(k, after) == [ok |-> TRUE, rest |-> after[k], certs |-> SubSeq(certs, 1, k)]
<1>1. n \in Nat /\ \A i \in 1..n : certs[i] \in Certificates
  OBVIOUS
<1>2. /\ Certificates \subseteq Seq(Octet)
      /\ \A c \in Certificates : Len(c) >= 2 /\ \E content \in Seq(Octet) :
                                                   c = Element(SEQUENCETag, content)
  BY CertificatesAre
<1>3. certs \in Seq(Seq(Octet))
  BY <1>2, SeqMonotonic
<1>4. PICK after : IsRemainder(after, certs, Octet)
  BY <1>3, RemainderExists
<1>5. /\ after \in [0..n -> Seq(Octet)] /\ after[n] = <<>>
      /\ \A i \in 1..n : after[i - 1] = certs[i] \o after[i]
  BY <1>4 DEF IsRemainder
<1>6. after[0] = s
  BY <1>3, <1>4, RemainderIsFlatten
<1> HIDE DEF n, s
<1>7. s \in Seq(Octet) /\ Len(s) \in Nat
  <2>1. after[0] \in Seq(Octet)
    BY <1>1, <1>5
  <2> QED
    BY <1>6, <2>1
<1>8. ASSUME NEW k \in 0..n, k < n
      PROVE  /\ k + 1 \in 1..n /\ k + 1 \in 0..n
             /\ after[k] = certs[k + 1] \o after[k + 1]
             /\ certs[k + 1] \in Certificates /\ certs[k + 1] \in Seq(Octet)
             /\ after[k + 1] \in Seq(Octet)
             /\ Len(after[k]) = Len(certs[k + 1]) + Len(after[k + 1])
  <2>1. k + 1 \in 1..n /\ k + 1 \in 0..n /\ (k + 1) - 1 = k
    BY <1>1, <1>8
  <2>2. after[k] = certs[k + 1] \o after[k + 1]
    BY <1>5, <2>1
  <2>3. certs[k + 1] \in Certificates /\ certs[k + 1] \in Seq(Octet) /\ after[k + 1] \in Seq(Octet)
    BY <1>1, <1>2, <1>5, <2>1
  <2> QED
    BY <2>1, <2>2, <2>3
<1>9. n <= Len(s)
  <2> DEFINE T == {j \in 0..n : Len(after[n - j]) >= j}
  <2>1. 0 \in T
    <3>1. n - 0 = n /\ 0 \in 0..n
      BY <1>1
    <3> QED
      BY <1>5, <3>1
  <2>2. ASSUME NEW j \in T, j < n
        PROVE  j + 1 \in T
    <3>1. /\ n - (j + 1) \in 0..n /\ n - (j + 1) < n /\ (n - (j + 1)) + 1 = n - j
          /\ j + 1 \in 0..n /\ n - j \in 0..n
      BY <1>1, <2>2
    <3>2. PICK k \in 0..n : k = n - (j + 1)
      BY <3>1
    <3>3. k < n /\ k + 1 = n - j
      BY <3>1, <3>2
    <3>4. Len(after[k]) = Len(certs[k + 1]) + Len(after[k + 1]) /\ certs[k + 1] \in Certificates
      BY <1>8, <3>3
    <3>5. Len(after[k + 1]) >= j
      BY <2>2, <3>3
    <3>6. Len(certs[k + 1]) \in Nat /\ Len(certs[k + 1]) >= 2 /\ Len(after[k + 1]) \in Nat
      BY <1>2, <1>8, <3>3, <3>4
    <3>7. Len(after[k]) >= j + 1
      <4>1. j \in Nat
        BY <1>1
      <4>2. \A a, b \in Nat : a >= 2 /\ b >= j => a + b >= j + 1
        BY <4>1
      <4> QED
        BY <3>4, <3>5, <3>6, <4>2, Zenon
    <3> QED
      BY <3>1, <3>2, <3>7
  <2>3. T = 0..n
    <3> HIDE DEF T
    <3>1. T \in SUBSET (0..n)
      BY DEF T
    <3> QED
      BY <1>1, <2>1, <2>2, <3>1, UpToLast
  <2>4. n \in T
    BY <1>1, <2>3
  <2>5. n - n = 0
    BY <1>1
  <2> QED
    BY <1>6, <2>4, <2>5
<1>10. q[0] = Unread(s) /\ \A i \in 1..Len(s) : q[i] = ReadCertificate(q[i - 1])
  BY <1>7, ReadToIs
<1> HIDE DEF q
<1>11. SubSeq(certs, 1, 0) = <<>>
  BY SubSeqEmpty
<1>12. q[0] = read(0, after)
  BY <1>6, <1>10, <1>11, Zenon DEF Unread
<1>13. ASSUME NEW k \in 0..n, k < n
       PROVE  ReadCertificate(read(k, after)) = read(k + 1, after)
  <2> DEFINE c == certs[k + 1]
             t == after[k + 1]
             f == SubSeq(certs, 1, k)
  <2>1. after[k] = c \o t /\ c \in Certificates /\ c \in Seq(Octet) /\ t \in Seq(Octet)
    BY <1>8, <1>13
  <2>2. PICK content \in Seq(Octet) : c = Element(SEQUENCETag, content)
    BY <1>2, <2>1
  <2> HIDE DEF c, t
  <2>3. Read(c \o t, SEQUENCETag)
            = [ok |-> TRUE, whole |-> c, content |-> content, rest |-> t]
    <3>1. SEQUENCETag \in Octet
      BY DEF SEQUENCETag, Octet
    <3> QED
      BY <2>1, <2>2, <3>1, ElementIsRead
  <2>4. c \o t # <<>>
    BY <1>2, <2>1
  <2>5. SubSeq(certs, 1, k + 1) = Append(f, c)
    <3>1. /\ k \in Nat /\ n = Len(certs) /\ k + 1 \in 1..Len(certs) /\ 1 \in 1..Len(certs)
          /\ 1 \in 1..(k + 1) /\ (k + 1) - 1 = k
      BY <1>1, <1>13 DEF n
    <3>2. k + 1 \in 1..Len(certs)
      BY <3>1
    <3>3. SubSeq(certs, 1, k + 1) = f \o << certs[k + 1] >>
      BY <3>1, <3>2, SubSeqRecursiveSecond
    <3>4. f \in Seq(Certificates)
      BY <1>1, <3>1
    <3>5. f \o <<c>> = Append(f, c)
      <4> HIDE DEF f
      <4> QED
        BY <2>1, <3>4, AppendIsConcat
    <3> QED
      BY <3>3, <3>5 DEF c
  <2> HIDE DEF f
  <2> DEFINE r == [ok |-> TRUE, rest |-> c \o t, certs |-> f]
             e == [ok |-> TRUE, whole |-> c, content |-> content, rest |-> t]
  <2>6. r.ok = TRUE /\ r.rest = c \o t /\ r.certs = f
    OBVIOUS
  <2>7. e.ok = TRUE /\ e.whole = c /\ e.rest = t
    OBVIOUS
  <2>8. read(k, after) = r
    BY <2>1, Zenon DEF f
  <2> HIDE DEF r, e
  <2>9. Read(r.rest, SEQUENCETag) = e
    BY <2>3, <2>6, Zenon DEF e
  <2>10. ReadCertificate(r) = [ok |-> TRUE, rest |-> t, certs |-> Append(f, c)]
    BY <2>1, <2>4, <2>6, <2>7, <2>9, Zenon DEF ReadCertificate
  <2> QED
    BY <2>5, <2>8, <2>10, Zenon DEF t
<1>14. ReadCertificate(read(n, after)) = read(n, after)
  <2>1. read(n, after).rest = <<>>
    BY <1>5
  <2> HIDE DEF read
  <2> QED
    BY <2>1, Zenon DEF ReadCertificate
<1> HIDE DEF read
<1> DEFINE U == {k \in 0..Len(s) : q[k] = read(IF k <= n THEN k ELSE n, after)}
<1>15. 0 \in U
  BY <1>1, <1>7, <1>12
<1>16. ASSUME NEW k \in U, k < Len(s)
       PROVE  k + 1 \in U
  <2>1. k + 1 \in 1..Len(s) /\ k + 1 \in 0..Len(s) /\ (k + 1) - 1 = k
    BY <1>7, <1>16
  <2>2. q[k + 1] = ReadCertificate(q[k])
    BY <1>10, <2>1
  <2>3. CASE k < n
    <3>1. k \in 0..n /\ k <= n /\ k + 1 <= n
      BY <1>1, <1>7, <1>16, <2>3
    <3>2. q[k] = read(k, after)
      BY <1>16, <3>1
    <3>3. ReadCertificate(read(k, after)) = read(k + 1, after)
      BY <1>13, <2>3, <3>1
    <3>4. q[k + 1] = read(k + 1, after)
      BY <2>2, <3>2, <3>3
    <3> QED
      BY <2>1, <3>1, <3>4
  <2>4. CASE ~ (k < n)
    <3>1. (IF k <= n THEN k ELSE n) = n /\ ~ (k + 1 <= n)
      BY <1>1, <1>7, <1>16, <2>4
    <3>2. q[k] = read(n, after)
      BY <1>16, <3>1
    <3>3. q[k + 1] = read(n, after)
      BY <1>14, <2>2, <3>2
    <3> QED
      BY <2>1, <3>1, <3>3
  <2> QED
    BY <2>3, <2>4
<1>17. U = 0..Len(s)
  <2> HIDE DEF U
  <2>1. U \in SUBSET (0..Len(s))
    BY DEF U
  <2> QED
    BY <1>7, <1>15, <1>16, <2>1, UpToLast
<1>18. q[Len(s)] = read(n, after)
  <2>1. Len(s) \in U
    BY <1>7, <1>17
  <2>2. (IF Len(s) <= n THEN Len(s) ELSE n) = n
    BY <1>1, <1>7, <1>9
  <2> QED
    BY <2>1, <2>2
<1>19. read(n, after).ok = TRUE /\ read(n, after).certs = SubSeq(certs, 1, n)
  BY DEF read
<1>20. SubSeq(certs, 1, n) = certs
  BY SubSeqFull DEF n
<1> QED
  BY <1>18, <1>19, <1>20, ReadCertificatesIs, Zenon DEF s, q

-----------------------------------------------------------------------------
(* The SignedData that is written is the one that is read.                 *)

LEMMA ElementIsOctets ==
    ASSUME NEW tag \in Octet, NEW content \in Seq(Octet), Len(content) <= 255
    PROVE  /\ Element(tag, content) \in Seq(Octet)
           /\ Len(Element(tag, content)) = 2 + Len(content)
           /\ Element(tag, content)[1] = tag
           /\ Element(tag, content)[2] = Len(content)
<1> DEFINE n == Len(content)
           head == <<tag, n>>
<1>0. n \in Nat /\ n <= 255
  OBVIOUS
<1> HIDE DEF n
<1>1. n \in Octet
  BY <1>0 DEF Octet
<1>2. head \in Seq(Octet) /\ Len(head) = 2 /\ head[1] = tag /\ head[2] = n
  BY <1>1
<1> HIDE DEF head
<1>3. Element(tag, content) = head \o content
  BY DEF Element, head, n
<1>4. /\ head \o content \in Seq(Octet) /\ Len(head \o content) = 2 + Len(content)
      /\ (head \o content)[1] = head[1] /\ (head \o content)[2] = head[2]
  <2>1. 1 \in 1..(2 + Len(content)) /\ 2 \in 1..(2 + Len(content)) /\ Len(content) \in Nat
    OBVIOUS
  <2>2. /\ head \o content \in Seq(Octet) /\ Len(head \o content) = Len(head) + Len(content)
        /\ \A i \in 1..(Len(head) + Len(content)) :
              (head \o content)[i] = IF i <= Len(head) THEN head[i] ELSE content[i - Len(head)]
    BY <1>2, ConcatProperties, ZenonT(60)
  <2>3. \A i \in 1..(2 + Len(content)) :
              (head \o content)[i] = IF i <= 2 THEN head[i] ELSE content[i - 2]
    BY <1>2, <2>2
  <2> QED
    BY <1>2, <2>1, <2>2, <2>3
<1> QED
  BY <1>2, <1>3, <1>4 DEF n

\* One element by itself.
LEMMA ElementAlone ==
    ASSUME NEW tag \in Octet, NEW content \in Seq(Octet), Len(content) <= 255
    PROVE  Read(Element(tag, content), tag)
               = [ok |-> TRUE, whole |-> Element(tag, content),
                  content |-> content, rest |-> <<>>]
<1>1. Element(tag, content) \o <<>> = Element(tag, content)
  BY ElementIsOctets, ConcatEmptySeq
<1>2. <<>> \in Seq(Octet)
  OBVIOUS
<1> QED
  BY <1>1, <1>2, ElementIsRead, Zenon

\* The fields of a SignedData, given the results of the readers.
LEMMA FieldsAreRead ==
    ASSUME NEW der, NEW r1, NEW r2, NEW r3, NEW r4, NEW r5, NEW r6, NEW r7, NEW r8,
           Read(der, SEQUENCETag) = r1,
           Read(r1.content, OIDTag) = r2,
           Read(r2.rest, ContextTag(0)) = r3,
           Read(r3.content, SEQUENCETag) = r4,
           Read(r4.content, INTEGERTag) = r5,
           Read(r5.rest, SETTag) = r6,
           Read(r6.rest, SEQUENCETag) = r7,
           Read(r7.rest, ContextTag(0)) = r8,
           r1.ok, r2.ok, r3.ok, r4.ok, r5.ok, r6.ok, r7.ok, r8.ok,
           r1.rest = <<>>, r2.content = oidSignedData, r5.content # <<>>
    PROVE  DecodeCertsOnly(der) = ReadCertificates(r8.content)
BY Zenon DEF DecodeCertsOnly

LEMMA FlattenIsSeq ==
    ASSUME NEW S, NEW seqs \in Seq(Seq(S))
    PROVE  FlattenSeq(seqs) \in Seq(S)
<1>1. PICK join : IsJoin(join, seqs, S) /\ FlattenSeq(seqs) = join[Len(seqs)]
  BY FlattenJoins
<1>2. Len(seqs) \in 0..Len(seqs)
  OBVIOUS
<1> QED
  BY <1>1, <1>2 DEF IsJoin

LEMMA TagsAreOctets ==
    /\ SEQUENCETag \in Octet /\ SETTag \in Octet /\ INTEGERTag \in Octet /\ OIDTag \in Octet
    /\ ContextTag(0) \in Octet
BY DEF SEQUENCETag, SETTag, INTEGERTag, OIDTag, ContextTag, Octet

\* The octets around the certificates field.
LEMMA SmallFields ==
    /\ oidData \in Seq(Octet) /\ Len(oidData) = 1
    /\ oidSignedData \in Seq(Octet) /\ Len(oidSignedData) = 1
    /\ IntegerContent(1) \in Seq(Octet) /\ Len(IntegerContent(1)) = 1
    /\ IntegerContent(1) # <<>>
<1>1. 1 \in Octet /\ 2 \in Octet /\ 1 \in Nat /\ 1 < 128
  BY DEF Octet
<1>2. IntegerContent(1) = <<1>>
  <2>1. \A n \in Nat : n < 128 => IntegerContent(n) = <<n>>
    BY IntegerContentIs
  <2> QED
    BY <1>1, <2>1
<1>3. \A x \in Octet : <<x>> \in Seq(Octet) /\ Len(<<x>>) = 1 /\ <<x>> # <<>>
  OBVIOUS
<1> QED
  BY <1>1, <1>2, <1>3, Zenon DEF oidData, oidSignedData

LEMMA Sizes ==
    /\ \A tag \in Octet : \A content \in Seq(Octet) : \A n \in Octet :
          Len(content) = n => /\ Element(tag, content) \in Seq(Octet)
                              /\ Len(Element(tag, content)) = 2 + n
    /\ \A u, v \in Seq(Octet) : \A m, n \in Nat :
          Len(u) = m /\ Len(v) = n => u \o v \in Seq(Octet) /\ Len(u \o v) = m + n
<1>1. ASSUME NEW tag \in Octet, NEW content \in Seq(Octet), NEW n \in Octet, Len(content) = n
      PROVE  Element(tag, content) \in Seq(Octet) /\ Len(Element(tag, content)) = 2 + n
  <2>1. Len(content) <= 255
    BY <1>1 DEF Octet
  <2> QED
    BY <1>1, <2>1, ElementIsOctets
<1>2. ASSUME NEW u \in Seq(Octet), NEW v \in Seq(Octet), NEW m \in Nat, NEW n \in Nat,
             Len(u) = m, Len(v) = n
      PROVE  u \o v \in Seq(Octet) /\ Len(u \o v) = m + n
  BY <1>2, ConcatProperties
<1> QED
  BY <1>1, <1>2

LEMMA SignedDataIsRead ==
    ASSUME NEW certs \in Seq(Certificates), Len(FlattenSeq(certs)) <= MaxChain
    PROVE  LET encoded == EncodeCertsOnly(certs)
               der == encoded.value
           IN  /\ encoded.ok /\ der \in Seq(Octet) /\ Len(der) >= 2 /\ der[2] = Len(der) - 2
               /\ DecodeCertsOnly(der) = Success(certs)
<1> DEFINE chain == FlattenSeq(certs)
           size == Len(chain)
           version == Element(INTEGERTag, IntegerContent(1))
           none == Element(SETTag, <<>>)
           data == Element(OIDTag, oidData)
           info == Element(SEQUENCETag, data)
           field == Element(ContextTag(0), chain)
           left == ((version \o none) \o info) \o field
           fields == left \o none
           signed == Element(SEQUENCETag, fields)
           explicit == Element(ContextTag(0), signed)
           type == Element(OIDTag, oidSignedData)
           both == type \o explicit
           der == Element(SEQUENCETag, both)
<1>1. chain \in Seq(Octet) /\ size \in Nat /\ size <= 234
  <2>1. Certificates \subseteq Seq(Octet)
    BY CertificatesAre
  <2>2. certs \in Seq(Seq(Octet))
    BY <2>1, SeqMonotonic
  <2>3. chain \in Seq(Octet)
    BY <2>2, FlattenIsSeq
  <2> QED
    BY <2>3 DEF MaxChain, Overhead
<1>2. EncodeCertsOnly(certs) = Success(der)
  <2>1. \A i \in DOMAIN certs : certs[i] # <<>>
    BY CertificatesAre
  <2> QED
    BY <2>1, Zenon DEF EncodeCertsOnly, CertificatesField
<1> HIDE DEF chain, size
<1>3. <<>> \in Seq(Octet) /\ Len(<<>>) = 0
  OBVIOUS
<1>0. 0 \in Octet /\ 1 \in Octet /\ 3 \in Octet /\ size \in Octet /\ Len(chain) = size
  <2>1. Len(chain) = size
    BY DEF size
  <2> QED
    BY <1>1, <2>1 DEF Octet
<1>00. \A tag \in Octet : \A content \in Seq(Octet) : Len(content) = 1 =>
           Element(tag, content) \in Seq(Octet) /\ Len(Element(tag, content)) = 2 + 1
  <2>1. \A tag \in Octet : \A content \in Seq(Octet) : \A n \in Octet :
          Len(content) = n => /\ Element(tag, content) \in Seq(Octet)
                              /\ Len(Element(tag, content)) = 2 + n
    BY Sizes, Zenon
  <2>2. 1 \in Octet
    BY <1>0
  <2> QED
    BY <2>1, <2>2
<1>4. version \in Seq(Octet) /\ Len(version) = 2 + 1
  BY <1>00, TagsAreOctets, SmallFields, ZenonT(60)
<1>5. none \in Seq(Octet) /\ Len(none) = 2 + 0
  <2>1. \A tag \in Octet : \A content \in Seq(Octet) : \A n \in Octet :
          Len(content) = n => /\ Element(tag, content) \in Seq(Octet)
                              /\ Len(Element(tag, content)) = 2 + n
    BY Sizes, ZenonT(60)
  <2>2. 0 \in Octet
    BY <1>0
  <2>3. SETTag \in Octet
    BY TagsAreOctets
  <2>4. Len(<<>>) = 0 => none \in Seq(Octet) /\ Len(none) = 2 + 0
    BY <1>3, <2>1, <2>2, <2>3, ZenonT(60)
  <2> QED
    BY <1>3, <2>4
<1>6. data \in Seq(Octet) /\ Len(data) = 2 + 1
  BY <1>00, TagsAreOctets, SmallFields, ZenonT(60)
<1> HIDE DEF version, none, data
<1>7. info \in Seq(Octet) /\ Len(info) = 2 + 3
  <2>1. Len(data) = 3
    BY <1>6
  <2> QED
    BY <1>0, <1>6, <2>1, TagsAreOctets, Sizes, ZenonT(60)
<1>8. field \in Seq(Octet) /\ Len(field) = 2 + size
  BY <1>0, <1>1, TagsAreOctets, Sizes, ZenonT(60)
<1>9. type \in Seq(Octet) /\ Len(type) = 2 + 1
  BY <1>00, TagsAreOctets, SmallFields, ZenonT(60)
<1> HIDE DEF info, field, type
<1>10. left \in Seq(Octet) /\ Len(left) = 12 + size
  <2> DEFINE two == version \o none
             three == two \o info
  <2>0. \A u, v \in Seq(Octet) : \A m, k \in Nat :
          Len(u) = m /\ Len(v) = k => u \o v \in Seq(Octet) /\ Len(u \o v) = m + k
    BY Sizes, ZenonT(60)
  <2>1. 2 + 0 \in Nat /\ 2 + 1 \in Nat /\ 2 + 3 \in Nat /\ 2 + size \in Nat
    BY <1>1
  <2>2. two \in Seq(Octet) /\ Len(two) = (2 + 1) + (2 + 0)
    BY <1>4, <1>5, <2>0, <2>1, ZenonT(60)
  <2> HIDE DEF two
  <2>3. three \in Seq(Octet) /\ Len(three) = ((2 + 1) + (2 + 0)) + (2 + 3)
    <3>1. (2 + 1) + (2 + 0) \in Nat
      OBVIOUS
    <3> QED
      BY <1>7, <2>0, <2>1, <2>2, <3>1, ZenonT(60)
  <2> HIDE DEF three
  <2>4. three \o field \in Seq(Octet)
        /\ Len(three \o field) = (((2 + 1) + (2 + 0)) + (2 + 3)) + (2 + size)
    <3>1. ((2 + 1) + (2 + 0)) + (2 + 3) \in Nat
      OBVIOUS
    <3>2. ASSUME NEW m \in Nat, NEW k \in Nat, three \in Seq(Octet), Len(three) = m,
                 field \in Seq(Octet), Len(field) = k
          PROVE  three \o field \in Seq(Octet) /\ Len(three \o field) = m + k
      BY <2>0, <3>2, ZenonT(60)
    <3> QED
      BY <1>8, <2>1, <2>3, <3>1, <3>2, ZenonT(60)
  <2>5. left = three \o field
    BY DEF two, three
  <2> QED
    BY <1>1, <2>4, <2>5
<1>11. fields = version \o (none \o (info \o (field \o none)))
  <2>1. \A u, v, w \in Seq(Octet) : (u \o v) \o w = u \o (v \o w)
    BY ConcatAssociative, SMTT(40)
  <2>2. \A u, v \in Seq(Octet) : u \o v \in Seq(Octet)
    OBVIOUS
  <2> DEFINE two == version \o none
             three == two \o info
             end == field \o none
  <2>3. two \in Seq(Octet) /\ end \in Seq(Octet) /\ info \o end \in Seq(Octet)
        /\ three \in Seq(Octet)
    BY <1>4, <1>5, <1>7, <1>8, <2>2, ZenonT(60)
  <2>4. (three \o field) \o none = three \o end
    BY <1>5, <1>8, <2>1, <2>3, ZenonT(60)
  <2>5. three \o end = two \o (info \o end)
    BY <1>7, <2>1, <2>3, ZenonT(60)
  <2>6. two \o (info \o end) = version \o (none \o (info \o end))
    BY <1>4, <1>5, <2>1, <2>3, ZenonT(60)
  <2>7. fields = (three \o field) \o none
    BY ZenonT(60)
  <2> HIDE DEF three, two, fields
  <2> QED
    BY <2>4, <2>5, <2>6, <2>7, Zenon
<1> HIDE DEF left
<1>12. fields \in Seq(Octet) /\ Len(fields) = 14 + size /\ Len(fields) <= 255
  <2>1. left \o none \in Seq(Octet) /\ Len(left \o none) = Len(left) + Len(none)
    BY <1>5, <1>10, ConcatProperties
  <2> QED
    BY <1>1, <1>5, <1>10, <2>1
<1> HIDE DEF fields
<1>13. signed \in Seq(Octet) /\ Len(signed) = 16 + size /\ Len(signed) <= 255
  <2>1. signed \in Seq(Octet) /\ Len(signed) = 2 + Len(fields)
    BY <1>12, TagsAreOctets, ElementIsOctets
  <2> HIDE DEF signed
  <2> QED
    BY <1>1, <1>12, <2>1
<1> HIDE DEF signed
<1>14. explicit \in Seq(Octet) /\ Len(explicit) = 18 + size /\ Len(explicit) <= 255
  <2>1. explicit \in Seq(Octet) /\ Len(explicit) = 2 + Len(signed)
    BY <1>13, TagsAreOctets, ElementIsOctets
  <2> HIDE DEF explicit
  <2> QED
    BY <1>1, <1>13, <2>1
<1> HIDE DEF explicit
<1>15. both \in Seq(Octet) /\ Len(both) = 21 + size /\ Len(both) <= 255
  <2>1. both \in Seq(Octet) /\ Len(both) = Len(type) + Len(explicit)
    BY <1>9, <1>14, ConcatProperties, ZenonT(60)
  <2> HIDE DEF both
  <2> QED
    BY <1>1, <1>9, <1>14, <2>1
<1> HIDE DEF both
<1>16. /\ der \in Seq(Octet) /\ Len(der) = 2 + Len(both) /\ der[2] = Len(both)
       /\ Read(der, SEQUENCETag)
              = [ok |-> TRUE, whole |-> der, content |-> both, rest |-> <<>>]
  BY <1>15, TagsAreOctets, ElementIsOctets, ElementAlone
<1> HIDE DEF der
<1>17. Len(der) >= 2 /\ der[2] = Len(der) - 2
  BY <1>15, <1>16
<1>18. Read(both, OIDTag)
           = [ok |-> TRUE, whole |-> type, content |-> oidSignedData, rest |-> explicit]
  BY <1>14, SmallFields, TagsAreOctets, ElementIsRead DEF both, type
<1>19. Read(explicit, ContextTag(0))
           = [ok |-> TRUE, whole |-> explicit, content |-> signed, rest |-> <<>>]
  BY <1>13, TagsAreOctets, ElementAlone DEF explicit
<1>20. Read(signed, SEQUENCETag)
           = [ok |-> TRUE, whole |-> signed, content |-> fields, rest |-> <<>>]
  BY <1>12, TagsAreOctets, ElementAlone DEF signed
<1> DEFINE rest3 == field \o none
           rest2 == info \o rest3
           rest1 == none \o rest2
<1>21. rest3 \in Seq(Octet) /\ rest2 \in Seq(Octet) /\ rest1 \in Seq(Octet)
  <2>1. \A u, v \in Seq(Octet) : u \o v \in Seq(Octet)
    OBVIOUS
  <2> QED
    BY <1>5, <1>7, <1>8, <2>1, Zenon
<1>22. fields = version \o rest1
  BY <1>11
<1>23. Read(rest3, ContextTag(0))
           = [ok |-> TRUE, whole |-> field, content |-> chain, rest |-> none]
  BY <1>1, <1>5, TagsAreOctets, ElementIsRead DEF field
<1> HIDE DEF rest3
<1>24. Read(rest2, SEQUENCETag)
           = [ok |-> TRUE, whole |-> info, content |-> data, rest |-> rest3]
  BY <1>6, <1>21, TagsAreOctets, ElementIsRead DEF info
<1> HIDE DEF rest2
<1>25. Read(rest1, SETTag)
           = [ok |-> TRUE, whole |-> none, content |-> <<>>, rest |-> rest2]
  BY <1>3, <1>21, TagsAreOctets, ElementIsRead DEF none
<1> HIDE DEF rest1
<1>26. Read(fields, INTEGERTag)
           = [ok |-> TRUE, whole |-> version, content |-> IntegerContent(1), rest |-> rest1]
  BY <1>21, <1>22, SmallFields, TagsAreOctets, ElementIsRead DEF version
<1> DEFINE r1 == Read(der, SEQUENCETag)
           r2 == Read(both, OIDTag)
           r3 == Read(explicit, ContextTag(0))
           r4 == Read(signed, SEQUENCETag)
           r5 == Read(fields, INTEGERTag)
           r6 == Read(rest1, SETTag)
           r7 == Read(rest2, SEQUENCETag)
           r8 == Read(rest3, ContextTag(0))
<1>27. r1.ok /\ r1.content = both /\ r1.rest = <<>>
  BY <1>16
<1>28. r2.ok /\ r2.content = oidSignedData /\ r2.rest = explicit
  BY <1>18
<1>29. r3.ok /\ r3.content = signed
  BY <1>19
<1>30. r4.ok /\ r4.content = fields
  BY <1>20
<1>31. r5.ok /\ r5.content = IntegerContent(1) /\ r5.rest = rest1
  BY <1>26
<1>32. r6.ok /\ r6.rest = rest2
  BY <1>25
<1>33. r7.ok /\ r7.rest = rest3
  BY <1>24
<1>34. r8.ok /\ r8.content = chain
  BY <1>23
<1>35. DecodeCertsOnly(der) = ReadCertificates(r8.content)
  <2>1. IntegerContent(1) # <<>>
    BY SmallFields
  <2>2. /\ Read(der, SEQUENCETag) = r1 /\ Read(r1.content, OIDTag) = r2
        /\ Read(r2.rest, ContextTag(0)) = r3 /\ Read(r3.content, SEQUENCETag) = r4
        /\ Read(r4.content, INTEGERTag) = r5 /\ Read(r5.rest, SETTag) = r6
        /\ Read(r6.rest, SEQUENCETag) = r7 /\ Read(r7.rest, ContextTag(0)) = r8
    BY <1>27, <1>28, <1>29, <1>30, <1>31, <1>32, <1>33, Zenon
  <2>3. r1.rest = <<>> /\ r2.content = oidSignedData /\ r5.content # <<>>
    BY <1>27, <1>28, <1>31, <2>1, Zenon
  <2> HIDE DEF r1, r2, r3, r4, r5, r6, r7, r8
  <2> QED
    BY <1>27, <1>28, <1>29, <1>30, <1>31, <1>32, <1>33, <1>34, <2>2, <2>3, FieldsAreRead
<1>36. DecodeCertsOnly(der) = Success(certs)
  BY <1>34, <1>35, ChainIsRead, Zenon DEF chain
<1>37. EncodeCertsOnly(certs).ok /\ EncodeCertsOnly(certs).value = der
  BY <1>2 DEF Success
<1> QED
  BY <1>16, <1>17, <1>36, <1>37, Zenon

-----------------------------------------------------------------------------
(* An answer without its line ends is the text it was written from.        *)

Character == 0..Foreign

LEMMA AppendOfConcat ==
    \A u, v \in Seq(Character) : \A x \in Character : Append(u \o v, x) = u \o Append(v, x)
<1>1. \A u, v, w \in Seq(Character) : (u \o v) \o w = u \o (v \o w)
  BY ConcatAssociative, SMTT(40)
<1>2. \A w \in Seq(Character) : \A x \in Character : Append(w, x) = w \o <<x>>
  BY AppendIsConcat
<1>3. /\ \A x \in Character : <<x>> \in Seq(Character)
      /\ \A u, v \in Seq(Character) : u \o v \in Seq(Character)
  OBVIOUS
<1> SUFFICES ASSUME NEW u \in Seq(Character), NEW v \in Seq(Character), NEW x \in Character
             PROVE  Append(u \o v, x) = u \o Append(v, x)
  BY Zenon
<1>4. Append(u \o v, x) = (u \o v) \o <<x>>
  BY <1>2, <1>3, Zenon
<1>5. (u \o v) \o <<x>> = u \o (v \o <<x>>)
  BY <1>1, <1>3, Zenon
<1>6. Append(v, x) = v \o <<x>>
  BY <1>2, Zenon
<1> QED
  BY <1>4, <1>5, <1>6, Zenon

LEMMA WithoutConcat ==
    ASSUME NEW s \in Seq(Character), NEW t \in Seq(Character), NEW D
    PROVE  /\ Without(s, D) \in Seq(Character) /\ Without(t, D) \in Seq(Character)
           /\ Without(s \o t, D) = Without(s, D) \o Without(t, D)
<1> DEFINE m == Len(s)
           n == Len(t)
           st == s \o t
<1>1. m \in Nat /\ n \in Nat /\ st \in Seq(Character) /\ Len(st) = m + n
  OBVIOUS
<1>2. /\ \A i \in 1..m : st[i] = s[i] /\ s[i] \in Character
      /\ \A i \in 1..n : st[m + i] = t[i] /\ t[i] \in Character
  OBVIOUS
<1>3. PICK a : IsKept(a, s, D, Character) /\ Without(s, D) = a[m]
  BY WithoutIs
<1>4. PICK b : IsKept(b, t, D, Character) /\ Without(t, D) = b[n]
  BY WithoutIs
<1>5. PICK c : IsKept(c, st, D, Character) /\ Without(st, D) = c[Len(st)]
  BY <1>1, WithoutIs
<1> HIDE DEF m, n, st
<1>6. /\ a \in [0..m -> Seq(Character)] /\ a[0] = <<>>
      /\ \A i \in 1..m : a[i] = IF s[i] \in D THEN a[i - 1] ELSE Append(a[i - 1], s[i])
  BY <1>3 DEF IsKept, m
<1>7. /\ b \in [0..n -> Seq(Character)] /\ b[0] = <<>>
      /\ \A i \in 1..n : b[i] = IF t[i] \in D THEN b[i - 1] ELSE Append(b[i - 1], t[i])
  BY <1>4 DEF IsKept, n
<1>8. /\ c[0] = <<>>
      /\ \A i \in 1..(m + n) : c[i] = IF st[i] \in D THEN c[i - 1] ELSE Append(c[i - 1], st[i])
  BY <1>1, <1>5 DEF IsKept
<1>9. a[m] \in Seq(Character) /\ b[n] \in Seq(Character)
  BY <1>1, <1>6, <1>7
<1>10. c[m] = a[m]
  <2> DEFINE T == {i \in 0..m : c[i] = a[i]}
  <2>1. 0 \in T
    BY <1>1, <1>6, <1>8
  <2>2. ASSUME NEW i \in T, i < m
        PROVE  i + 1 \in T
    <3>0. i \in Nat
      BY <1>1
    <3>1. i + 1 \in 1..m /\ i + 1 \in 1..(m + n) /\ (i + 1) - 1 = i /\ i + 1 \in 0..m
      <4> HIDE DEF T
      <4> QED
        BY <1>1, <2>2, <3>0
    <3>2. st[i + 1] = s[i + 1] /\ c[i] = a[i]
      BY <1>2, <3>1
    <3>3. c[i + 1] = a[i + 1]
      BY <1>6, <1>8, <3>1, <3>2, Zenon
    <3> QED
      BY <3>1, <3>3
  <2>3. T = 0..m
    <3> HIDE DEF T
    <3>1. T \in SUBSET (0..m)
      BY DEF T
    <3> QED
      BY <1>1, <2>1, <2>2, <3>1, UpToLast
  <2> QED
    BY <1>1, <2>3
<1>11. c[m + n] = a[m] \o b[n]
  <2> DEFINE T == {i \in 0..n : c[m + i] = a[m] \o b[i]}
  <2>1. 0 \in T
    <3>1. m + 0 = m /\ 0 \in 0..n
      BY <1>1
    <3>2. a[m] \o b[0] = a[m]
      BY <1>7, <1>9
    <3> QED
      BY <1>10, <3>1, <3>2
  <2>2. ASSUME NEW i \in T, i < n
        PROVE  i + 1 \in T
    <3>1. /\ i + 1 \in 1..n /\ m + (i + 1) \in 1..(m + n) /\ (m + (i + 1)) - 1 = m + i
          /\ (i + 1) - 1 = i /\ i + 1 \in 0..n /\ i \in 0..n
      BY <1>1, <2>2
    <3>2. st[m + (i + 1)] = t[i + 1] /\ t[i + 1] \in Character /\ c[m + i] = a[m] \o b[i]
      BY <1>2, <3>1
    <3>3. b[i] \in Seq(Character)
      BY <1>7, <3>1
    <3>4. c[m + (i + 1)] = IF t[i + 1] \in D THEN a[m] \o b[i]
                           ELSE Append(a[m] \o b[i], t[i + 1])
      BY <1>8, <3>1, <3>2, Zenon
    <3>5. b[i + 1] = IF t[i + 1] \in D THEN b[i] ELSE Append(b[i], t[i + 1])
      BY <1>7, <3>1, Zenon
    <3>7. Append(a[m] \o b[i], t[i + 1]) = a[m] \o Append(b[i], t[i + 1])
      BY <1>9, <3>2, <3>3, AppendOfConcat, Zenon
    <3>8. c[m + (i + 1)] = a[m] \o b[i + 1]
      BY <3>4, <3>5, <3>7, Zenon
    <3> QED
      BY <3>1, <3>8
  <2>3. T = 0..n
    <3> HIDE DEF T
    <3>1. T \in SUBSET (0..n)
      BY DEF T
    <3> QED
      BY <1>1, <2>1, <2>2, <3>1, UpToLast
  <2>4. n \in T
    <3> HIDE DEF T
    <3> QED
      BY <1>1, <2>3
  <2> QED
    BY <2>4, Zenon
<1> QED
  BY <1>1, <1>3, <1>4, <1>5, <1>9, <1>11 DEF st

LEMMA WithoutNone ==
    ASSUME NEW S, NEW s \in Seq(S), NEW D, \A i \in 1..Len(s) : s[i] \notin D
    PROVE  Without(s, D) = s
<1> DEFINE n == Len(s)
<1>1. n \in Nat
  OBVIOUS
<1>2. PICK kept : IsKept(kept, s, D, S) /\ Without(s, D) = kept[n]
  BY WithoutIs
<1> DEFINE T == {i \in 0..n : kept[i] = SubSeq(s, 1, i)}
<1>3. 0 \in T
  <2>1. SubSeq(s, 1, 0) = <<>>
    BY SubSeqEmpty
  <2> QED
    BY <1>1, <1>2, <2>1 DEF IsKept
<1>4. ASSUME NEW i \in T, i < n
      PROVE  i + 1 \in T
  <2>1. i + 1 \in 1..n /\ i + 1 \in 0..n /\ (i + 1) - 1 = i /\ s[i + 1] \in S /\ i \in Nat
    BY <1>1, <1>4
  <2>2. kept[i] = SubSeq(s, 1, i)
    OBVIOUS
  <2>3. kept[i + 1] = Append(kept[i], s[i + 1])
    <3>1. kept[i + 1] = IF s[i + 1] \in D THEN kept[(i + 1) - 1]
                        ELSE Append(kept[(i + 1) - 1], s[i + 1])
      BY <1>2, <2>1 DEF IsKept
    <3> QED
      BY <2>1, <3>1
  <2>4. SubSeq(s, 1, i + 1) = Append(SubSeq(s, 1, i), s[i + 1])
    <3> HIDE DEF T
    <3>1. SubSeq(s, 1, i) \in Seq(S) /\ 1 \in 1..(i + 1) /\ i + 1 \in 1..Len(s)
      BY <2>1
    <3>2. SubSeq(s, 1, i + 1) = SubSeq(s, 1, (i + 1) - 1) \o << s[i + 1] >>
      BY <2>1, <3>1, SubSeqRecursiveSecond
    <3> QED
      BY <2>1, <3>1, <3>2, AppendIsConcat
  <2> QED
    BY <2>1, <2>2, <2>3, <2>4
<1>5. T = 0..n
  <2> HIDE DEF T
  <2>1. T \in SUBSET (0..n)
    BY DEF T
  <2> QED
    BY <1>1, <1>3, <1>4, <2>1, UpToLast
<1>6. kept[n] = SubSeq(s, 1, n)
  BY <1>1, <1>5
<1>7. SubSeq(s, 1, n) = s
  BY SubSeqFull
<1> QED
  BY <1>2, <1>6, <1>7

LEMMA CharactersOfText ==
    ASSUME NEW der \in Seq(Octet)
    PROVE  LET e == EncodeToString(der)
           IN  e \in Seq(Character) /\ \A i \in 1..Len(e) : e[i] \notin Whitespace
<1> DEFINE e == EncodeToString(der)
           n == Len(der)
<1>1. n \in Nat
  OBVIOUS
<1>2. PICK groups \in Nat, p \in 0..2 : groups = (n + 2) \div 3 /\ n + p = 3 * groups
  BY <1>1, Groups
<1>3. /\ Len(e) = 4 * groups
      /\ \A g \in Nat : \A k \in 0..3 :
            g < groups => e[4*g + k + 1] = IF 3*g + k > n THEN Padding
                                           ELSE DigitOf(Group(der, g), k)
  BY <1>1, <1>2, EncodedCharacters
<1>4. ASSUME NEW i \in 1..(4 * groups)
      PROVE  e[i] \in Sextet \/ e[i] = Padding
  <2>1. i \in Nat \ {0}
    BY <1>2
  <2>2. PICK g \in Nat, k \in 0..3 : i = 4*g + k + 1
    BY <2>1, Places
  <2>3. g < groups
    BY <1>2, <2>2
  <2>4. e[i] = IF 3*g + k > n THEN Padding ELSE DigitOf(Group(der, g), k)
    BY <1>3, <2>2, <2>3
  <2>5. DigitOf(Group(der, g), k) \in Sextet
    BY DigitsAreNotPadding
  <2> QED
    BY <2>4, <2>5
<1>5. \A x \in Sextet \cup {Padding} : x \in Character /\ x \notin Whitespace
  <2>1. \A x \in 0..63 : x \in 0..68 /\ x \notin {65, 66, 67}
    BY SMT
  <2>2. 64 \in 0..68 /\ 64 \notin {65, 66, 67}
    BY SMT
  <2> QED
    BY <2>1, <2>2 DEF Sextet, Padding, Character, Whitespace, Foreign, Space, CR, LF
<1>6. e = [i \in 1..(4 * groups) |-> e[i]]
  <2>1. e = [i \in 1..(4 * ((n + 2) \div 3)) |-> e[i]]
    BY DEF EncodeToString
  <2> QED
    BY <1>2, <2>1
<1> HIDE DEF e
<1>7. \A i \in 1..(4 * groups) : e[i] \in Character /\ e[i] \notin Whitespace
  BY <1>4, <1>5
<1>8. e \in [1..(4 * groups) -> Character]
  BY <1>6, <1>7
<1>9. 4 * groups \in Nat
  BY <1>2
<1>10. e \in Seq(Character)
  <2>1. PICK last \in Nat : last = 4 * groups
    BY <1>9
  <2>2. e \in [1..last -> Character]
    BY <1>8, <2>1
  <2> QED
    BY <2>2
<1> QED
  BY <1>3, <1>7, <1>10 DEF e

\* The lines of an answer.
Lines(e) == (Len(e) + LineLength - 1) \div LineLength

Line(e, i) == SubSeq(e, i, Smaller(i + LineLength - 1, Len(e))) \o <<CR, LF>>

LEMMA LinesCover ==
    ASSUME NEW n \in Nat, NEW l \in Nat \ {0}
    PROVE  /\ ((n + l - 1) \div l) \in Nat
           /\ ((n + l - 1) \div l) * l >= n
           /\ \A i \in Nat \ {0} : (i - 1) * l \in Nat /\ i * l = (i - 1) * l + l
<1>1. ((n + l - 1) \div l) \in Nat
  BY SMT
<1>2. ((n + l - 1) \div l) * l >= n
  BY SMT
<1>3. \A i \in Nat \ {0} : (i - 1) * l \in Nat /\ i * l = (i - 1) * l + l
  BY SMT
<1> QED
  BY <1>1, <1>2, <1>3

\* The end of a prefix, and the piece that follows it, of a line or less.
LEMMA NextLine ==
    ASSUME NEW e \in Seq(Character), NEW a \in Nat, NEW l \in Nat
    PROVE  LET end == Smaller(a + l, Len(e))
           IN  SubSeq(e, 1, Smaller(a, Len(e))) \o SubSeq(e, a + 1, end) = SubSeq(e, 1, end)
<1> DEFINE n == Len(e)
           b == Smaller(a + l, n)
<1>1. n \in Nat /\ a + l \in Nat /\ 1 \in 1..(n + 1)
  OBVIOUS
<1> HIDE DEF n
<1>2. b \in Nat /\ b <= n
  BY <1>1 DEF Smaller
<1>3. CASE a <= n
  <2>1. Smaller(a, n) = a /\ a \in (1 - 1)..n /\ b \in a..n
    BY <1>1, <1>3 DEF Smaller
  <2> HIDE DEF b
  <2>2. a \in (1 - 1)..Len(e) /\ b \in a..Len(e) /\ 1 \in 1..(Len(e) + 1)
    BY <1>1, <2>1 DEF n
  <2>3. SubSeq(e, 1, a) \o SubSeq(e, a + 1, b) = SubSeq(e, 1, b)
    BY <2>2, ConcatAdjacentSubSeq
  <2> QED
    BY <2>1, <2>3 DEF n, b
<1>4. CASE a > n
  <2>1. Smaller(a, n) = n /\ b = n /\ n < a + 1
    BY <1>1, <1>4 DEF Smaller
  <2>2. SubSeq(e, a + 1, n) = <<>>
    BY <1>1, <2>1, SubSeqEmpty
  <2>3. SubSeq(e, 1, n) = e
    BY SubSeqFull DEF n
  <2>4. e \o <<>> = e
    OBVIOUS
  <2>5. SubSeq(e, 1, Smaller(a, n)) \o SubSeq(e, a + 1, b) = SubSeq(e, 1, b)
    BY <2>1, <2>2, <2>3, <2>4
  <2> QED
    BY <2>5 DEF n, b
<1>5. a <= n \/ a > n
  BY <1>1
<1> QED
  BY <1>3, <1>4, <1>5, Zenon

LEMMA StripConcat ==
    \A s, t \in Seq(Character) :
        Without(s \o t, Whitespace) = Without(s, Whitespace) \o Without(t, Whitespace)
BY WithoutConcat

LEMMA LineIsPiece ==
    ASSUME NEW e \in Seq(Character), \A i \in 1..Len(e) : e[i] \notin Whitespace,
           NEW a \in Nat
    PROVE  /\ Line(e, a + 1) \in Seq(Character)
           /\ Without(Line(e, a + 1), Whitespace)
                  = SubSeq(e, a + 1, Smaller(a + LineLength, Len(e)))
<1> DEFINE b == Smaller(a + LineLength, Len(e))
           piece == SubSeq(e, a + 1, b)
           end == <<CR, LF>>
<1>1. LineLength \in Nat \ {0} /\ Len(e) \in Nat
  BY EncodingAssumption
<1>2. (a + 1) + LineLength - 1 = a + LineLength /\ b \in Nat /\ b <= Len(e)
  BY <1>1 DEF Smaller
<1>3. Line(e, a + 1) = piece \o end
  BY <1>2, Zenon DEF Line
<1> HIDE DEF b
<1>4. /\ piece \in Seq(Character)
      /\ Len(piece) = IF a + 1 <= b THEN b - (a + 1) + 1 ELSE 0
      /\ \A i \in 1..(b - (a + 1) + 1) : piece[i] = e[(a + 1) + i - 1]
  <2>1. a + 1 \in Int /\ b \in Int
    BY <1>2
  <2>2. \A i \in (a + 1)..b : e[i] \in Character
    BY <1>1, <1>2
  <2> QED
    BY <2>1, <2>2, SubSeqProperties
<1> HIDE DEF piece
<1>5. \A i \in 1..Len(piece) : piece[i] \notin Whitespace
  <2> SUFFICES ASSUME NEW i \in 1..Len(piece)
               PROVE  piece[i] \notin Whitespace
    OBVIOUS
  <2>1. i \in 1..(b - (a + 1) + 1) /\ (a + 1) + i - 1 \in 1..Len(e)
    BY <1>1, <1>2, <1>4
  <2> QED
    BY <1>4, <2>1
<1>6. Without(piece, Whitespace) = piece
  BY <1>4, <1>5, WithoutNone
<1>7. end \in Seq(Character) /\ \A i \in 1..Len(end) : end[i] \in Whitespace
  <2>1. CR \in Character /\ LF \in Character /\ CR \in Whitespace /\ LF \in Whitespace
    BY DEF CR, LF, Character, Foreign, Whitespace
  <2>2. Len(end) = 2 /\ end[1] = CR /\ end[2] = LF
    OBVIOUS
  <2> QED
    BY <2>1, <2>2
<1> HIDE DEF end
<1>8. Without(end, Whitespace) = <<>>
  BY <1>7, WithoutAll
<1>9. Without(piece \o end, Whitespace) = piece \o <<>>
  <2>1. Without(piece \o end, Whitespace)
            = Without(piece, Whitespace) \o Without(end, Whitespace)
    <3>1. piece \in Seq(Character) /\ end \in Seq(Character)
      BY <1>4, <1>7
    <3> QED
      BY <3>1, StripConcat, Zenon
  <2> QED
    BY <1>6, <1>8, <2>1, Zenon
<1>10. piece \o <<>> = piece /\ piece \o end \in Seq(Character)
  BY <1>4, <1>7
<1> QED
  BY <1>3, <1>9, <1>10 DEF piece, b

LEMMA AnswerIsText ==
    ASSUME NEW der \in Seq(Octet)
    PROVE  /\ writeBase64Response(der) \in Seq(Character)
           /\ stripWhitespace(writeBase64Response(der)) = EncodeToString(der)
<1> DEFINE e == EncodeToString(der)
           n == Len(e)
           lines == Lines(e)
           seqs == [i \in 1..lines |-> Line(e, (i - 1) * LineLength + 1)]
           body == FlattenSeq(seqs)
<1>1. writeBase64Response(der) = body
  BY Zenon DEF writeBase64Response, Lines, Line
<1>2. e \in Seq(Character) /\ \A i \in 1..Len(e) : e[i] \notin Whitespace
  BY CharactersOfText
<1> HIDE DEF e
<1>3. n \in Nat /\ LineLength \in Nat \ {0}
  BY <1>2, EncodingAssumption
<1> HIDE DEF n
<1>4. /\ lines \in Nat /\ lines * LineLength >= n
      /\ \A i \in Nat \ {0} : /\ (i - 1) * LineLength \in Nat
                              /\ i * LineLength = (i - 1) * LineLength + LineLength
  BY <1>3, LinesCover DEF Lines, n
<1> HIDE DEF lines
<1>5. ASSUME NEW i \in 1..lines
      PROVE  /\ seqs[i] \in Seq(Character)
             /\ Without(seqs[i], Whitespace)
                    = SubSeq(e, (i - 1) * LineLength + 1, Smaller(i * LineLength, n))
  <2>1. i \in Nat \ {0}
    BY <1>4
  <2>2. (i - 1) * LineLength \in Nat /\ i * LineLength = (i - 1) * LineLength + LineLength
    BY <1>4, <2>1
  <2>3. PICK a \in Nat : a = (i - 1) * LineLength
    BY <2>2
  <2>4. /\ Line(e, a + 1) \in Seq(Character)
        /\ Without(Line(e, a + 1), Whitespace)
              = SubSeq(e, a + 1, Smaller(a + LineLength, Len(e)))
    BY <1>2, LineIsPiece
  <2>5. seqs[i] = Line(e, a + 1)
    BY <2>3
  <2> QED
    BY <2>2, <2>3, <2>4, <2>5, Zenon DEF n
<1>6. seqs \in Seq(Seq(Character)) /\ Len(seqs) = lines
  <2>1. seqs \in [1..lines -> Seq(Character)]
    BY <1>5
  <2> HIDE DEF seqs
  <2> QED
    BY <1>4, <2>1
<1>7. PICK join : IsJoin(join, seqs, Character) /\ FlattenSeq(seqs) = join[Len(seqs)]
  BY <1>6, FlattenJoins
<1> HIDE DEF seqs
<1>8. /\ join \in [0..lines -> Seq(Character)] /\ join[0] = <<>> /\ body = join[lines]
      /\ \A i \in 1..lines : join[i] = join[i - 1] \o seqs[i]
  BY <1>6, <1>7 DEF IsJoin
<1> HIDE DEF body
<1> DEFINE prefix(i) == SubSeq(e, 1, Smaller(i * LineLength, n))
           T == {i \in 0..lines : Without(join[i], Whitespace) = prefix(i)}
<1>9. 0 \in T
  <2>1. 0 * LineLength = 0 /\ Smaller(0, n) = 0 /\ 0 \in 0..lines
    BY <1>3, <1>4 DEF Smaller
  <2>2. prefix(0) = <<>>
    BY <2>1, SubSeqEmpty
  <2>3. <<>> \in Seq(Character) /\ \A i \in 1..Len(<<>>) : <<>>[i] \in Whitespace
    OBVIOUS
  <2>4. Without(<<>>, Whitespace) = <<>>
    BY <2>3, WithoutAll
  <2> QED
    BY <1>8, <2>1, <2>2, <2>4
<1>10. ASSUME NEW i \in 0..lines, i < lines, Without(join[i], Whitespace) = prefix(i)
       PROVE  Without(join[i + 1], Whitespace) = prefix(i + 1)
  <2>1. i + 1 \in 1..lines /\ (i + 1) - 1 = i /\ i + 1 \in Nat \ {0}
    BY <1>4, <1>10
  <2>2. join[i + 1] = join[i] \o seqs[i + 1] /\ join[i] \in Seq(Character)
    BY <1>8, <2>1
  <2>3. /\ seqs[i + 1] \in Seq(Character)
        /\ Without(seqs[i + 1], Whitespace)
              = SubSeq(e, i * LineLength + 1, Smaller((i + 1) * LineLength, n))
    BY <1>5, <2>1
  <2>4. i * LineLength \in Nat /\ (i + 1) * LineLength = i * LineLength + LineLength
    BY <1>4, <2>1
  <2>5. Without(join[i + 1], Whitespace)
            = prefix(i) \o SubSeq(e, i * LineLength + 1, Smaller((i + 1) * LineLength, n))
    <3>1. Without(join[i] \o seqs[i + 1], Whitespace)
              = Without(join[i], Whitespace) \o Without(seqs[i + 1], Whitespace)
      BY <2>2, <2>3, WithoutConcat
    <3> QED
      BY <1>10, <2>2, <2>3, <3>1, Zenon
  <2>6. PICK a \in Nat : a = i * LineLength
    BY <2>4
  <2>7. SubSeq(e, 1, Smaller(a, n)) \o SubSeq(e, a + 1, Smaller(a + LineLength, n))
            = SubSeq(e, 1, Smaller(a + LineLength, n))
    BY <1>2, <1>3, NextLine DEF n
  <2> QED
    BY <2>4, <2>5, <2>6, <2>7, Zenon
<1> HIDE DEF prefix
<1>11. ASSUME NEW i \in T, i < lines
       PROVE  i + 1 \in T
  <2>1. i \in 0..lines /\ Without(join[i], Whitespace) = prefix(i)
    OBVIOUS
  <2>2. i + 1 \in 0..lines
    <3> HIDE DEF T
    <3> QED
      BY <1>4, <1>11, <2>1
  <2> QED
    BY <1>10, <1>11, <2>1, <2>2
<1>12. T = 0..lines
  <2> HIDE DEF T
  <2>1. T \in SUBSET (0..lines)
    BY DEF T
  <2> QED
    BY <1>4, <1>9, <1>11, <2>1, UpToLast
<1>13. Without(body, Whitespace) = prefix(lines)
  <2>1. lines \in T
    <3> HIDE DEF T
    <3> QED
      BY <1>4, <1>12
  <2> QED
    BY <1>8, <2>1, Zenon
<1>14. prefix(lines) = e
  <2>1. PICK m \in Nat : m = lines * LineLength
    BY <1>3, <1>4
  <2>2. Smaller(m, n) = n
    BY <1>3, <1>4, <2>1 DEF Smaller
  <2>3. SubSeq(e, 1, n) = e
    BY <1>2, SubSeqFull DEF n
  <2> QED
    BY <2>1, <2>2, <2>3 DEF prefix
<1>15. body \in Seq(Character)
  BY <1>4, <1>8
<1> QED
  BY <1>1, <1>13, <1>14, <1>15, Zenon DEF stripWhitespace, e

-----------------------------------------------------------------------------
(* An answer that is cut off.                                              *)

LEMMA CutIsPrefix ==
    ASSUME NEW body \in Seq(Character), NEW n \in 0..Len(body)
    PROVE  LET text == stripWhitespace(body)
           IN  /\ text \in Seq(Character)
               /\ \E m \in 0..Len(text) :
                     stripWhitespace(SubSeq(body, 1, n)) = SubSeq(text, 1, m)
<1> DEFINE s == SubSeq(body, 1, n)
           t == SubSeq(body, n + 1, Len(body))
           a == Without(s, Whitespace)
           b == Without(t, Whitespace)
<1>1. s \in Seq(Character) /\ t \in Seq(Character)
  OBVIOUS
<1>2. s \o t = body
  <2>1. 1 \in 1..(Len(body) + 1) /\ n \in (1 - 1)..Len(body) /\ Len(body) \in n..Len(body)
    OBVIOUS
  <2>2. s \o t = SubSeq(body, 1, Len(body))
    BY <2>1, ConcatAdjacentSubSeq
  <2> QED
    BY <2>2, SubSeqFull
<1> HIDE DEF s, t
<1>3. a \in Seq(Character) /\ b \in Seq(Character)
  BY <1>1, WithoutConcat
<1>4. Without(body, Whitespace) = a \o b
  BY <1>1, <1>2, StripConcat, Zenon
<1> HIDE DEF a, b
<1>5. a \o b \in Seq(Character) /\ Len(a) \in 0..Len(a \o b)
  BY <1>3
<1>6. SubSeq(a \o b, 1, Len(a)) = a
  BY <1>3
<1> QED
  BY <1>4, <1>5, <1>6 DEF stripWhitespace, s, a

LEMMA EncodedIsText ==
    ASSUME NEW der \in Seq(Octet), NEW groups \in Nat, groups = (Len(der) + 2) \div 3
    PROVE  IsText(EncodeToString(der), der, groups)
<1>1. Len(der) \in Nat
  OBVIOUS
<1> QED
  BY <1>1, EncodedCharacters DEF IsText

\* A part of the text of der that decodes is a part of der, and a shorter one.
LEMMA CutText ==
    ASSUME NEW der \in Seq(Octet), NEW m \in Nat, m < Len(EncodeToString(der)),
           DecodeString(SubSeq(EncodeToString(der), 1, m)).ok
    PROVE  LET value == DecodeString(SubSeq(EncodeToString(der), 1, m)).value
           IN  /\ Len(value) \in Nat /\ Len(value) < Len(der)
               /\ Len(value) >= 2 => value[2] = der[2]
<1> DEFINE e == EncodeToString(der)
           text == SubSeq(e, 1, m)
           n == Len(der)
<1>1. n \in Nat
  OBVIOUS
<1>2. PICK groups \in Nat, p \in 0..2 : groups = (n + 2) \div 3 /\ n + p = 3 * groups
  BY <1>1, Groups
<1>3. IsText(e, der, groups)
  BY <1>2, EncodedIsText
<1>4. e \in Seq(Character) /\ m < Len(e)
  BY CharactersOfText
<1>5. Len(e) = 4 * groups
  BY <1>3 DEF IsText
<1>6. \A i \in 1..(4 * groups - p) : e[i] \in Sextet
  BY <1>2, <1>3, <1>5, DigitsOfText
<1>7. DecodeString(text).ok
  OBVIOUS
<1> HIDE DEF e
<1>8. /\ text \in Seq(Character) /\ Len(text) = m
      /\ \A i \in 1..m : text[i] = e[i]
  BY <1>4
<1> HIDE DEF text
<1>9. /\ Len(text) % 4 = 0
      /\ DecodeString(text) = Success(Decoded(text, 3 * (Len(text) \div 4) - PaddingOf(text)))
  <2>1. Failure.ok = FALSE
    BY DEF Failure
  <2> QED
    BY <1>7, <2>1, DecodeStringIs, Zenon
<1>10. PICK g \in Nat : m = 4 * g /\ g = m \div 4
  <2>1. m % 4 = 0
    BY <1>8, <1>9
  <2>2. (m \div 4) \in Nat /\ m = 4 * (m \div 4)
    BY <2>1, SMT
  <2> QED
    BY <2>2
<1>11. g < groups
  BY <1>2, <1>4, <1>5, <1>10
<1>12. PaddingOf(text) = 0
  <2>1. CASE g = 0
    <3>1. ~ (Len(text) >= 4)
      BY <1>8, <1>10, <2>1
    <3> QED
      BY <3>1 DEF PaddingOf
  <2>2. CASE g # 0
    <3>1. m \in 1..(4 * groups - p) /\ m \in 1..m
      BY <1>2, <1>10, <1>11, <2>2
    <3>2. text[m] \in Sextet
      BY <1>6, <1>8, <3>1
    <3>3. text[m] # Padding
      <4>1. Padding \notin Sextet
        BY SMT DEF Sextet, Padding
      <4> QED
        BY <3>2, <4>1, Zenon
    <3> QED
      BY <1>8, <3>3 DEF PaddingOf
  <2> QED
    BY <2>1, <2>2
<1>13. 3 * (Len(text) \div 4) - PaddingOf(text) = 3 * g
  BY <1>8, <1>10, <1>12
<1> DEFINE value == Decoded(text, 3 * g)
<1>14. DecodeString(text).value = value
  BY <1>9, <1>13 DEF Success
<1>15. 3 * g \in Nat /\ 3 * g < n
  BY <1>1, <1>2, <1>11
<1>16. Len(value) = 3 * g
  BY <1>15 DEF Decoded
<1>17. ASSUME 3 * g >= 2
       PROVE  value[2] = der[2]
  <2>1. 4 * 0 + 1 = 1 /\ 4 * 0 + 2 = 2 /\ 4 * 0 + 3 = 3 /\ 4 * 0 + 4 = 4 /\ 3 * 0 + 1 = 1
    BY SMT
  <2>2. g >= 1 /\ 1 \in 1..m /\ 2 \in 1..m /\ 3 \in 1..m /\ 4 \in 1..m /\ 0 < groups /\ 1 <= n
    BY <1>1, <1>10, <1>11, <1>15, <1>17
  <2>3. text[1] = e[1] /\ text[2] = e[2] /\ text[3] = e[3] /\ text[4] = e[4]
    BY <1>8, <2>2
  <2>4. DecodedGroup(text, 0) = DecodedGroup(e, 0)
    BY <2>1, <2>3, Zenon DEF DecodedGroup, Digit
  <2>5. DecodedGroup(e, 0) = Group(der, 0)
    <3>1. 0 \in Nat /\ 0 < groups /\ 3 * 0 + 1 <= Len(der)
      BY <2>1, <2>2
    <3> QED
      BY <1>3, <3>1, GroupOfText, ZenonT(60) DEF DecodedGroup, Digit
  <2>6. OctetOf(Group(der, 0), 1) = OctetAt(der, 2)
    <3>1. \A k \in 0..2 : OctetOf(Group(der, 0), k) = OctetAt(der, 3 * 0 + k + 1)
      BY GroupOf
    <3>2. 1 \in 0..2 /\ 3 * 0 + 1 + 1 = 2
      BY SMT
    <3> QED
      BY <3>1, <3>2, Zenon
  <2>7. OctetAt(der, 2) = der[2]
    BY <1>15, <1>17 DEF OctetAt
  <2>8. 2 \in 1..(3 * g) /\ (2 - 1) \div 3 = 0 /\ (2 - 1) % 3 = 1
    BY <1>15, <1>17, SMT
  <2>9. value[2] = OctetOf(DecodedGroup(text, (2 - 1) \div 3), (2 - 1) % 3)
    BY <2>8 DEF Decoded
  <2> QED
    BY <2>4, <2>5, <2>6, <2>7, <2>8, <2>9
<1> HIDE DEF value
<1>18. Len(value) \in Nat /\ Len(value) < n /\ (Len(value) >= 2 => value[2] = der[2])
  BY <1>15, <1>16, <1>17
<1> QED
  BY <1>14, <1>18 DEF text, e

LEMMA NotWhole ==
    ASSUME NEW value, ~ Read(value, SEQUENCETag).ok
    PROVE  ~ DecodeCertsOnly(value).ok
<1>1. DecodeCertsOnly(value) = Failure
  BY Zenon DEF DecodeCertsOnly
<1> QED
  BY <1>1 DEF Failure

LEMMA EmptyIsStripped == stripWhitespace(<<>>) = <<>>
<1>1. <<>> \in Seq(Character) /\ \A i \in 1..Len(<<>>) : <<>>[i] \in Whitespace
  OBVIOUS
<1> QED
  BY <1>1, WithoutAll DEF stripWhitespace

LEMMA EmptyIsDecoded == DecodeString(<<>>).value = <<>>
<1>1. PaddingOf(<<>>) = 0
  BY DEF PaddingOf
<1>2. Len(<<>>) = 0 /\ 0 % 4 = 0 /\ 0 \div 4 = 0 /\ 3 * 0 - 0 = 0
  BY SMT
<1>3. Decoded(<<>>, 0) = <<>>
  BY DEF Decoded
<1>4. DecodeString(<<>>) = Success(<<>>) \/ DecodeString(<<>>) = Failure
  BY <1>1, <1>2, <1>3, DecodeStringIs, Zenon
<1> QED
  BY <1>4 DEF Success, Failure

\* The length in the second octet says that there is more to come.
LEMMA CutIsRefused ==
    ASSUME NEW der \in Seq(Octet), Len(der) >= 2, der[2] = Len(der) - 2,
           NEW value, Len(value) \in Nat, Len(value) < Len(der),
           Len(value) >= 2 => value[2] = der[2]
    PROVE  ~ DecodeCertsOnly(value).ok
<1>1. Read(value, SEQUENCETag).ok => Len(value) >= 2 /\ Len(value) >= 2 + value[2]
  BY ReadIsWhole
<1>2. Len(value) >= 2 => 2 + value[2] = Len(der)
  BY SMT
<1>3. ~ Read(value, SEQUENCETag).ok
  BY <1>1, <1>2
<1> QED
  BY <1>3, NotWhole

-----------------------------------------------------------------------------
(* The answer to cacerts.                                                  *)

LEMMA AnswerIsRead ==
    ASSUME NEW certs \in Seq(Certificates), Len(FlattenSeq(certs)) <= MaxChain
    PROVE  LET answer == handleCACerts(Success(certs))
           IN  /\ answer.status = 200
               /\ DecodeCertsOnly(Received(answer.body).value) = Success(certs)
               /\ \A n \in 0..Len(answer.body) :
                     LET der == Received(SubSeq(answer.body, 1, n))
                         read == DecodeCertsOnly(der.value)
                     IN  der.ok /\ read.ok => read.value = certs
<1> DEFINE encoded == EncodeCertsOnly(certs)
           der == encoded.value
           body == writeBase64Response(der)
           e == EncodeToString(der)
           answer == handleCACerts(Success(certs))
<1>1. /\ encoded.ok /\ der \in Seq(Octet) /\ Len(der) >= 2 /\ der[2] = Len(der) - 2
      /\ DecodeCertsOnly(der) = Success(certs)
  BY SignedDataIsRead
<1>2. \A v : Success(v).ok /\ Success(v).value = v
  BY DEF Success
<1>3. answer = [status |-> 200, body |-> body]
  BY <1>1, <1>2, Zenon DEF handleCACerts
<1> HIDE DEF answer, encoded
<1>4. answer.status = 200 /\ answer.body = body
  <2> HIDE DEF body
  <2> QED
    BY <1>3
<1> HIDE DEF der
<1>5. body \in Seq(Character) /\ stripWhitespace(body) = e
  BY <1>1, AnswerIsText
<1> HIDE DEF body
<1>6. DecodeString(e) = Success(der)
  BY <1>1, Base64RoundTrip DEF Octet
<1> HIDE DEF e
<1>7. DecodeCertsOnly(Received(body).value) = Success(certs)
  BY <1>1, <1>2, <1>5, <1>6, Zenon DEF Received
<1>8. ASSUME NEW n \in 0..Len(body),
             Received(SubSeq(body, 1, n)).ok,
             DecodeCertsOnly(Received(SubSeq(body, 1, n)).value).ok
      PROVE  DecodeCertsOnly(Received(SubSeq(body, 1, n)).value).value = certs
  <2>1. PICK m \in 0..Len(e) : stripWhitespace(SubSeq(body, 1, n)) = SubSeq(e, 1, m)
    BY <1>5, CutIsPrefix
  <2>2. Received(SubSeq(body, 1, n)) = DecodeString(SubSeq(e, 1, m))
    BY <2>1, Zenon DEF Received
  <2>3. e \in Seq(Character)
    BY <1>5, CutIsPrefix
  <2>4. m \in Nat /\ (m = Len(e) \/ m < Len(e))
    BY <2>3
  <2>5. CASE m = Len(e)
    <3>1. SubSeq(e, 1, m) = e
      BY <2>3, <2>5, SubSeqFull
    <3> QED
      BY <1>1, <1>2, <1>6, <2>2, <3>1, Zenon
  <2>6. CASE m < Len(e)
    <3> DEFINE value == DecodeString(SubSeq(e, 1, m)).value
    <3>1. DecodeString(SubSeq(e, 1, m)).ok
      BY <1>8, <2>2, Zenon
    <3>2. /\ Len(value) \in Nat /\ Len(value) < Len(der)
          /\ Len(value) >= 2 => value[2] = der[2]
      BY <1>1, <2>4, <2>6, <3>1, CutText DEF e
    <3>3. DecodeCertsOnly(value).ok
      BY <1>8, <2>2, Zenon
    <3> HIDE DEF value
    <3>4. ~ DecodeCertsOnly(value).ok
      BY <1>1, <3>2, CutIsRefused
    <3> QED
      BY <3>3, <3>4
  <2> QED
    BY <2>4, <2>5, <2>6, Zenon
<1>9. \A n \in 0..Len(body) :
          LET d == Received(SubSeq(body, 1, n))
              read == DecodeCertsOnly(d.value)
          IN  d.ok /\ read.ok => read.value = certs
  BY <1>8, Zenon
<1> QED
  BY <1>4, <1>7, <1>9, Zenon DEF answer

LEMMA WithoutLeaves ==
    ASSUME NEW S, NEW s \in Seq(S), NEW D
    PROVE  Without(s, D) \in Seq(S \ D)
<1> DEFINE n == Len(s)
<1>1. n \in Nat
  OBVIOUS
<1>2. PICK kept : IsKept(kept, s, D, S) /\ Without(s, D) = kept[n]
  BY WithoutIs
<1> DEFINE T == {i \in 0..n : kept[i] \in Seq(S \ D)}
<1>3. 0 \in T
  BY <1>1, <1>2 DEF IsKept
<1>4. ASSUME NEW i \in 0..n, i < n, kept[i] \in Seq(S \ D)
      PROVE  i + 1 \in 0..n /\ kept[i + 1] \in Seq(S \ D)
  <2>1. i + 1 \in 1..n /\ i + 1 \in 0..n /\ (i + 1) - 1 = i /\ s[i + 1] \in S
    BY <1>1, <1>4
  <2>2. kept[i + 1] = IF s[i + 1] \in D THEN kept[i] ELSE Append(kept[i], s[i + 1])
    BY <1>2, <2>1 DEF IsKept
  <2>3. CASE s[i + 1] \in D
    BY <1>4, <2>1, <2>2, <2>3
  <2>4. CASE s[i + 1] \notin D
    <3>1. s[i + 1] \in S \ D
      BY <2>1, <2>4
    <3>2. Append(kept[i], s[i + 1]) \in Seq(S \ D)
      BY <1>4, <3>1, AppendProperties
    <3> QED
      BY <2>1, <2>2, <2>4, <3>2
  <2> QED
    BY <2>3, <2>4
<1>5. T = 0..n
  <2>1. \A i \in T : i < n => i + 1 \in T
    BY <1>4
  <2> HIDE DEF T
  <2>2. T \in SUBSET (0..n)
    BY DEF T
  <2> QED
    BY <1>1, <1>3, <2>1, <2>2, UpToLast
<1> QED
  BY <1>1, <1>2, <1>5

\* The first of several lists is no longer than all of them.
LEMMA FirstIsShort ==
    ASSUME NEW S, NEW seqs \in Seq(Seq(S)), seqs # <<>>
    PROVE  /\ FlattenSeq(<< seqs[1] >>) = seqs[1]
           /\ Len(seqs[1]) <= Len(FlattenSeq(seqs))
<1> DEFINE n == Len(seqs)
           x == seqs[1]
           one == << x >>
<1>1. n \in Nat /\ n >= 1 /\ 1 \in 1..n /\ x \in Seq(S)
  OBVIOUS
<1> HIDE DEF x
<1>2. FlattenSeq(one) = x
  <2>1. one \in Seq(Seq(S)) /\ Len(one) = 1 /\ one[1] = x
    BY <1>1
  <2> HIDE DEF one
  <2>2. PICK join : IsJoin(join, one, S) /\ FlattenSeq(one) = join[Len(one)]
    BY <2>1, FlattenJoins
  <2>3. join[0] = <<>> /\ join[1] = join[1 - 1] \o one[1]
    BY <2>1, <2>2 DEF IsJoin
  <2>4. <<>> \o x = x /\ 1 - 1 = 0
    BY <1>1
  <2> QED
    BY <2>1, <2>2, <2>3, <2>4
<1>3. PICK join : IsJoin(join, seqs, S) /\ FlattenSeq(seqs) = join[n]
  BY FlattenJoins
<1>4. /\ join \in [0..n -> Seq(S)] /\ join[0] = <<>>
      /\ \A i \in 1..n : join[i] = join[i - 1] \o seqs[i] /\ seqs[i] \in Seq(S)
  <2>1. \A i \in 1..n : seqs[i] \in Seq(S)
    OBVIOUS
  <2> QED
    BY <1>3, <2>1, Zenon DEF IsJoin
<1> HIDE DEF n
<1> DEFINE T == {i \in 0..n : i = 0 \/ Len(x) <= Len(join[i])}
<1>5. 0 \in T
  BY <1>1
<1>6. ASSUME NEW i \in 0..n, i < n, i = 0 \/ Len(x) <= Len(join[i])
      PROVE  i + 1 \in 0..n /\ Len(x) <= Len(join[i + 1])
  <2>1. i + 1 \in 1..n /\ i + 1 \in 0..n /\ (i + 1) - 1 = i
    BY <1>1, <1>6
  <2>2. join[i + 1] = join[i] \o seqs[i + 1] /\ join[i] \in Seq(S) /\ seqs[i + 1] \in Seq(S)
    BY <1>4, <2>1
  <2>3. /\ Len(join[i + 1]) = Len(join[i]) + Len(seqs[i + 1])
        /\ Len(join[i]) \in Nat /\ Len(seqs[i + 1]) \in Nat /\ Len(x) \in Nat
    BY <1>1, <2>2
  <2>4. CASE i = 0
    <3>1. seqs[i + 1] = x
      BY <2>4 DEF x
    <3> QED
      BY <2>1, <2>3, <3>1
  <2>5. CASE Len(x) <= Len(join[i])
    <3>1. \A a, b, c \in Nat : a <= b => a <= b + c
      OBVIOUS
    <3> QED
      BY <2>1, <2>3, <2>5, <3>1, Zenon
  <2> QED
    BY <1>6, <2>4, <2>5
<1>7. T = 0..n
  <2>1. \A i \in T : i < n => i + 1 \in T
    BY <1>6
  <2> HIDE DEF T
  <2>2. T \in SUBSET (0..n)
    BY DEF T
  <2> QED
    BY <1>1, <1>5, <2>1, <2>2, UpToLast
<1>8. Len(x) <= Len(join[n])
  <2>1. n \in T
    <3> HIDE DEF T
    <3> QED
      BY <1>1, <1>7
  <2> QED
    BY <1>1, <2>1
<1> QED
  BY <1>2, <1>3, <1>8 DEF x, n

\* There is a chain to serve.
Servable ==
    /\ arg.backend = "ejbca" => arg.status \in 200..299
    /\ Published # <<>>
    /\ ToSet(Published) \subseteq Certificates

LEMMA BlocksAre ==
    ASSUME NEW text \in Texts
    PROVE  LET blocks == DecodedBlocks(text)
           IN  blocks \in Seq(Seq(Octet)) /\ Len(FlattenSeq(blocks)) <= MaxChain
<1> DEFINE Block == Seq(Octet) \cup {Garbled}
<1>1. text \in Seq(Block) /\ Len(FlattenSeq(DecodedBlocks(text))) <= MaxChain
  BY DEF Texts
<1>2. DecodedBlocks(text) \in Seq(Block \ {Garbled})
  <2> HIDE DEF Block
  <2> QED
    BY <1>1, WithoutLeaves DEF DecodedBlocks
<1>3. Block \ {Garbled} \subseteq Seq(Octet)
  OBVIOUS
<1> HIDE DEF Block
<1>4. DecodedBlocks(text) \in Seq(Seq(Octet))
  BY <1>2, <1>3, SeqMonotonic
<1> QED
  BY <1>1, <1>4

LEMMA CertificatesOfList ==
    ASSUME NEW S, NEW list \in Seq(S)
    PROVE  /\ ToSet(list) \subseteq Certificates
                  <=> \A i \in DOMAIN list : list[i] \in Certificates
           /\ ToSet(list) \subseteq Certificates => list \in Seq(Certificates)
<1>1. ToSet(list) \subseteq Certificates <=> \A i \in DOMAIN list : list[i] \in Certificates
  BY DEF ToSet
<1>2. ASSUME \A i \in DOMAIN list : list[i] \in Certificates
      PROVE  list \in Seq(Certificates)
  <2>1. DOMAIN list = 1..Len(list) /\ Len(list) \in Nat /\ list \in [1..Len(list) -> S]
    OBVIOUS
  <2>2. list \in [1..Len(list) -> Certificates]
    BY <1>2, <2>1
  <2> QED
    BY <2>1, <2>2
<1> QED
  BY <1>1, <1>2

LEMMA AnswerIs ==
    ASSUME EvaluationInv, Evaluated("handleCACerts")
    PROVE  /\ Servable => /\ out = handleCACerts(Success(Published))
                          /\ Published \in Seq(Certificates)
                          /\ Len(FlattenSeq(Published)) <= MaxChain
           /\ ~ Servable => out = InternalError
<1> DEFINE blocks == DecodedBlocks(arg.text)
           answer == IF arg.backend = "local" THEN LoadedCertificates(arg.text)
                     ELSE DownloadedCertificates(arg.status, arg.text)
<1>1. arg \in Sources
  BY DEF EvaluationInv, Evaluated, Inputs
<1>2. out = handleCACerts(answer)
  BY Zenon DEF EvaluationInv
<1>3. /\ arg.text \in Texts /\ arg.backend \in {"ejbca", "local"}
  BY <1>1, SourceAssumption
<1>4. blocks \in Seq(Seq(Octet)) /\ Len(FlattenSeq(blocks)) <= MaxChain
  BY <1>3, BlocksAre
<1>5. /\ ToSet(blocks) \subseteq Certificates
             <=> \A i \in DOMAIN blocks : blocks[i] \in Certificates
      /\ ToSet(blocks) \subseteq Certificates => blocks \in Seq(Certificates)
  BY <1>4, CertificatesOfList
<1>6. handleCACerts(Failure) = InternalError
  BY Zenon DEF handleCACerts, Failure
<1>7. CASE arg.backend = "ejbca"
  <2>1. Published = blocks
    BY <1>7, Zenon DEF Published
  <2>2. answer = DownloadedCertificates(arg.status, arg.text)
    BY <1>7
  <2> HIDE DEF answer
  <2>3. Servable <=> /\ arg.status \in 200..299
                     /\ \A i \in DOMAIN blocks : blocks[i] \in Certificates
                     /\ blocks # <<>>
    BY <1>5, <1>7, <2>1, Zenon DEF Servable
  <2>4. answer = IF Servable THEN Success(blocks) ELSE Failure
    BY <2>2, <2>3, Zenon DEF DownloadedCertificates
  <2>5. Servable => blocks \in Seq(Certificates)
    BY <1>5, <2>1, Zenon DEF Servable
  <2> HIDE DEF Servable, blocks
  <2> QED
    BY <1>2, <1>4, <1>6, <2>1, <2>4, <2>5, Zenon
<1>8. CASE arg.backend = "local"
  <2>1. arg.backend # "ejbca"
    BY <1>8
  <2>2. Published = IF blocks = <<>> THEN blocks ELSE << blocks[1] >>
    BY <2>1, Zenon DEF Published
  <2>3. answer = IF blocks # <<>> /\ blocks[1] \in Certificates
                 THEN Success(<<blocks[1]>>) ELSE Failure
    BY <1>8, Zenon DEF LoadedCertificates
  <2> HIDE DEF answer
  <2>4. CASE blocks = <<>>
    <3>1. Published = <<>>
      BY <2>2, <2>4, Zenon
    <3>2. ~ Servable
      BY <3>1, Zenon DEF Servable
    <3>3. answer = Failure
      BY <2>3, <2>4, Zenon
    <3> QED
      BY <1>2, <1>6, <3>2, <3>3, Zenon
  <2>5. CASE blocks # <<>>
    <3> DEFINE one == << blocks[1] >>
    <3>1. Published = one
      BY <2>2, <2>5, Zenon
    <3>2. blocks[1] \in Seq(Octet)
      BY <1>4, <2>5
    <3>3. one \in Seq(Seq(Octet)) /\ one # <<>> /\ DOMAIN one = {1} /\ one[1] = blocks[1]
      BY <3>2
    <3>4. /\ ToSet(one) \subseteq Certificates <=> \A i \in DOMAIN one : one[i] \in Certificates
          /\ ToSet(one) \subseteq Certificates => one \in Seq(Certificates)
      BY <3>3, CertificatesOfList
    <3>5. ToSet(one) \subseteq Certificates <=> blocks[1] \in Certificates
      BY <3>3, <3>4
    <3>6. Len(FlattenSeq(one)) <= MaxChain
      <4>1. FlattenSeq(one) = blocks[1] /\ Len(blocks[1]) <= Len(FlattenSeq(blocks))
        BY <1>4, <2>5, FirstIsShort
      <4>2. FlattenSeq(blocks) \in Seq(Octet)
        BY <1>4, FlattenIsSeq
      <4>3. Len(FlattenSeq(blocks)) \in Nat /\ Len(blocks[1]) \in Nat /\ MaxChain \in Nat
        BY <3>2, <4>2 DEF MaxChain, Overhead
      <4>4. \A a, b, c \in Nat : a <= b /\ b <= c => a <= c
        OBVIOUS
      <4> QED
        BY <1>4, <4>1, <4>3, <4>4, Zenon
    <3>7. Servable <=> blocks[1] \in Certificates
      BY <2>1, <3>1, <3>3, <3>5, Zenon DEF Servable
    <3>8. answer = IF Servable THEN Success(one) ELSE Failure
      BY <2>3, <2>5, <3>7, Zenon
    <3>9. Servable => one \in Seq(Certificates)
      BY <3>4, <3>5, <3>7, Zenon
    <3> HIDE DEF Servable, one
    <3> QED
      BY <1>2, <1>6, <3>1, <3>6, <3>8, <3>9, Zenon
  <2> QED
    BY <2>4, <2>5
<1> QED
  BY <1>3, <1>7, <1>8

\* ca.go 15-17, ejbca.go 129-132, handlers.go 15-34: what a client of cacerts
\* decodes is the list of certificates that was published, of any number and
\* length that an answer has room for; when there is nothing to serve, or
\* something that is no certificate, there is no answer.
THEOREM ClientsGetTheChain == Spec => []ServedChainIsPublished
<1>1. EvaluationInv => ServedChainIsPublished
  <2> SUFFICES ASSUME EvaluationInv, Evaluated("handleCACerts")
               PROVE  IF Servable
                      THEN /\ out.status = 200
                           /\ DecodeCertsOnly(Received(out.body).value) = Success(Published)
                      ELSE out = InternalError
    BY Zenon DEF ServedChainIsPublished, Servable
  <2>1. /\ Servable => /\ out = handleCACerts(Success(Published))
                       /\ Published \in Seq(Certificates)
                       /\ Len(FlattenSeq(Published)) <= MaxChain
        /\ ~ Servable => out = InternalError
    BY AnswerIs
  <2>2. CASE Servable
    <3> DEFINE answer == handleCACerts(Success(Published))
    <3>1. out = answer
      BY <2>1, <2>2
    <3>2. /\ answer.status = 200
          /\ DecodeCertsOnly(Received(answer.body).value) = Success(Published)
      BY <2>1, <2>2, AnswerIsRead
    <3> QED
      BY <2>2, <3>1, <3>2, Zenon
  <2>3. CASE ~ Servable
    BY <2>1, <2>3, Zenon
  <2> QED
    BY <2>2, <2>3
<1> QED
  BY <1>1, EvaluationInvariant, PTL

\* encoding.go 87-88: wherever the connection fails, the part of an answer that
\* arrives is no SignedData with fewer certificates: a part that is base64 is
\* shorter than the length in its second octet says.
THEOREM NoShorterChain == Spec => []CutAnswerIsNoticed
<1>1. EvaluationInv => CutAnswerIsNoticed
  <2> SUFFICES ASSUME EvaluationInv, Evaluated("handleCACerts"), NEW n \in 0..Len(out.body)
               PROVE  LET der == Received(SubSeq(out.body, 1, n))
                          certs == DecodeCertsOnly(der.value)
                      IN  der.ok /\ certs.ok => certs.value = Published
    BY Zenon DEF CutAnswerIsNoticed
  <2>1. /\ Servable => /\ out = handleCACerts(Success(Published))
                       /\ Published \in Seq(Certificates)
                       /\ Len(FlattenSeq(Published)) <= MaxChain
        /\ ~ Servable => out = InternalError
    BY AnswerIs
  <2>2. CASE Servable
    <3> DEFINE answer == handleCACerts(Success(Published))
    <3>1. out = answer
      BY <2>1, <2>2
    <3>2. \A k \in 0..Len(answer.body) :
              LET der == Received(SubSeq(answer.body, 1, k))
                  read == DecodeCertsOnly(der.value)
              IN  der.ok /\ read.ok => read.value = Published
      BY <2>1, <2>2, AnswerIsRead
    <3> HIDE DEF answer
    <3> QED
      BY <3>1, <3>2, Zenon
  <2>3. CASE ~ Servable
    <3>1. out.body = <<>>
      BY <2>1, <2>3 DEF InternalError
    <3>2. SubSeq(out.body, 1, n) = <<>>
      BY <3>1
    <3>3. Received(<<>>).value = <<>>
      <4>1. stripWhitespace(<<>>) = <<>>
        BY EmptyIsStripped
      <4> QED
        BY <4>1, EmptyIsDecoded, Zenon DEF Received
    <3>4. ~ Read(<<>>, SEQUENCETag).ok
      BY ReadIsWhole
    <3>5. ~ DecodeCertsOnly(<<>>).ok
      BY <3>4, NotWhole
    <3> QED
      BY <3>2, <3>3, <3>5, Zenon
  <2> QED
    BY <2>2, <2>3
<1> QED
  BY <1>1, EvaluationInvariant, PTL
=============================================================================
