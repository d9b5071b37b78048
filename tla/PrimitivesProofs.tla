-------------------------- MODULE PrimitivesProofs --------------------------
(***************************************************************************)
(* Theorems about the symmetric primitives: the buffered SHA-256 behind    *)
(* the transcript is the hash of the whole text, the HMAC built on it is   *)
(* that of RFC 2104 and the PRF built on that the P_hash() of RFC 5246,    *)
(* for every length of a block, a counter, a digest, a key and the inputs. *)
(* CCM seals a record as RFC 3610 does and opens what the network makes of *)
(* it exactly if that is the record, with its additional data, unchanged.  *)
(*                                                                         *)
(* FlattenSeq() and P_hash() recurse over a sequence or a counter.  What   *)
(* they compute is proved by the least counterexample, with a set of       *)
(* numbers in the place of a predicate.                                    *)
(***************************************************************************)
EXTENDS Primitives, SequenceTheorems, WellFoundedInduction, TLAPS

-----------------------------------------------------------------------------
(* Texts: sequences of any bytes *)

Text(s) == \E S : s \in Seq(S)

\* s is the text of length n with the bytes e[1], e[2], ...
LEMMA TextLength ==
    ASSUME NEW s, Text(s)
    PROVE  Len(s) \in Nat /\ DOMAIN s = 1..Len(s) /\ s \in Seq({s[i] : i \in 1..Len(s)})
<1>1. PICK S : s \in Seq(S)
  BY DEF Text
<1>2. Len(s) \in Nat /\ s \in [1..Len(s) -> S] /\ DOMAIN s = 1..Len(s)
  BY <1>1, LenProperties
<1>3. s \in [1..Len(s) -> {s[i] : i \in 1..Len(s)}]
  BY <1>2
<1> QED BY <1>2, <1>3, SeqDef

LEMMA MapIsText ==
    ASSUME NEW n \in Nat, NEW s, DOMAIN s = 1..n, s = [i \in 1..n |-> s[i]]
    PROVE  Text(s) /\ Len(s) = n
<1> DEFINE S == {s[i] : i \in 1..n}
<1>1. s \in [1..n -> S]
  OBVIOUS
<1>2. s \in Seq(S)
  BY <1>1, SeqDef
<1>3. Len(s) \in Nat /\ DOMAIN s = 1..Len(s)
  BY <1>2, LenProperties
<1>4. Len(s) = n
  BY <1>3
<1> QED BY <1>2, <1>4 DEF Text

LEMMA SameText ==
    ASSUME NEW s, NEW t, Text(s), Text(t), Len(s) = Len(t), \A i \in 1..Len(s) : s[i] = t[i]
    PROVE  s = t
<1> DEFINE S == {s[i] : i \in 1..Len(s)}
<1>1. s \in Seq(S) /\ t \in Seq({t[i] : i \in 1..Len(t)})
  BY TextLength
<1>2. {t[i] : i \in 1..Len(t)} = S
  OBVIOUS
<1>3. s \in Seq(S) /\ t \in Seq(S)
  BY <1>1, <1>2
<1> QED BY <1>3, SeqEqual

LEMMA JoinText ==
    ASSUME NEW s, NEW t, Text(s), Text(t)
    PROVE  /\ Text(s \o t) /\ Len(s \o t) = Len(s) + Len(t)
           /\ \A i \in 1..Len(s) : (s \o t)[i] = s[i]
           /\ \A i \in 1..Len(t) : (s \o t)[Len(s) + i] = t[i]
<1>0. PICK A, B : s \in Seq(A) /\ t \in Seq(B)
  BY DEF Text
<1> DEFINE S == A \cup B
<1>1. s \in Seq(S) /\ t \in Seq(S) /\ Len(s) \in Nat /\ Len(t) \in Nat
  <2>1. A \subseteq S /\ B \subseteq S
    OBVIOUS
  <2> HIDE DEF S
  <2>2. s \in Seq(S) /\ t \in Seq(S)
    BY <1>0, <2>1, SeqMonotonic
  <2> QED BY <2>2, LenProperties
<1> HIDE DEF S
<1>2. /\ s \o t \in Seq(S)
      /\ Len(s \o t) = Len(s) + Len(t)
      /\ \A i \in 1 .. Len(s) + Len(t) : (s \o t)[i] =
                     IF i <= Len(s) THEN s[i] ELSE t[i - Len(s)]
  BY <1>1, ConcatProperties
<1>3. \A i \in 1..Len(s) : (s \o t)[i] = s[i]
  BY <1>1, <1>2
<1>4. ASSUME NEW i \in 1..Len(t)
      PROVE  (s \o t)[Len(s) + i] = t[i]
  <2>1. Len(s) + i \in 1..Len(s) + Len(t) /\ ~(Len(s) + i <= Len(s)) /\ Len(s) + i - Len(s) = i
    BY <1>1
  <2> QED BY <1>2, <2>1
<1> QED BY <1>2, <1>3, <1>4 DEF Text

LEMMA PartText ==
    ASSUME NEW s, Text(s), NEW pos \in Nat, NEW n \in Nat, pos + n <= Len(s)
    PROVE  /\ Text(Part(s, pos, n)) /\ Len(Part(s, pos, n)) = n
           /\ \A i \in 1..n : Part(s, pos, n)[i] = s[pos + i]
<1> DEFINE S == {s[i] : i \in 1..Len(s)}
           m == pos + 1
           k == pos + n
<1>1. s \in Seq(S) /\ Len(s) \in Nat /\ \A i \in 1..Len(s) : s[i] \in S
  BY TextLength
<1> HIDE DEF S
<1>2. m \in Int /\ k \in Int /\ \A i \in m..k : s[i] \in S
  BY <1>1
<1>3. /\ SubSeq(s, m, k) \in Seq(S)
      /\ Len(SubSeq(s, m, k)) = IF m <= k THEN k - m + 1 ELSE 0
      /\ \A i \in 1 .. k-m+1 : SubSeq(s, m, k)[i] = s[m+i-1]
  BY <1>2, SubSeqProperties
<1>4. k - m + 1 = n /\ (~(m <= k) => n = 0) /\ \A i \in 1..n : m+i-1 = pos + i
  OBVIOUS
<1> QED BY <1>3, <1>4 DEF Part, Text

LEMMA CopyText ==
    ASSUME NEW a, Text(a), NEW pos \in Nat, NEW b, Text(b), pos + Len(b) <= Len(a)
    PROVE  /\ Text(Copy(a, pos, b)) /\ Len(Copy(a, pos, b)) = Len(a)
           /\ \A i \in 1..pos : Copy(a, pos, b)[i] = a[i]
           /\ \A i \in 1..Len(b) : Copy(a, pos, b)[pos + i] = b[i]
           /\ \A i \in 1..Len(a) : i > pos + Len(b) => Copy(a, pos, b)[i] = a[i]
<1> DEFINE c == Copy(a, pos, b)
<1>1. Len(a) \in Nat /\ DOMAIN a = 1..Len(a) /\ Len(b) \in Nat
  BY TextLength
<1>2. c = [i \in 1..Len(a) |-> IF i > pos /\ i <= pos + Len(b) THEN b[i - pos] ELSE a[i]]
  BY <1>1 DEF Copy
<1> HIDE DEF c
<1>3. Text(c) /\ Len(c) = Len(a)
  BY <1>1, <1>2, MapIsText
<1>4. \A i \in 1..pos : c[i] = a[i]
  BY <1>1, <1>2
<1>5. ASSUME NEW i \in 1..Len(b)
      PROVE  c[pos + i] = b[i]
  <2>1. pos + i \in 1..Len(a) /\ pos + i > pos /\ pos + i <= pos + Len(b) /\ pos + i - pos = i
    BY <1>1
  <2> QED BY <1>2, <2>1
<1>6. \A i \in 1..Len(a) : i > pos + Len(b) => c[i] = a[i]
  BY <1>1, <1>2
<1> QED BY <1>3, <1>4, <1>5, <1>6 DEF c

LEMMA EmptyText ==
    /\ Text(<<>>) /\ Len(<<>>) = 0
    /\ \A s : Text(s) => /\ s \o <<>> = s /\ <<>> \o s = s
                         /\ (Len(s) = 0 <=> s = <<>>)
<1>1. Text(<<>>) /\ Len(<<>>) = 0
  BY EmptySeq DEF Text
<1>2. ASSUME NEW s, Text(s)
      PROVE  s \o <<>> = s /\ <<>> \o s = s /\ (Len(s) = 0 <=> s = <<>>)
  <2>1. PICK S : s \in Seq(S)
    BY <1>2 DEF Text
  <2> QED BY <2>1, ConcatEmptySeq, EmptySeq
<1> QED BY <1>1, <1>2

LEMMA ZerosText ==
    ASSUME NEW n \in Nat
    PROVE  Text(Zeros(n)) /\ Len(Zeros(n)) = n /\ \A i \in 1..n : Zeros(n)[i] = Zero
BY MapIsText DEF Zeros

-----------------------------------------------------------------------------
(* Division by the length of a piece *)

LEMMA SmallMultiple ==
    ASSUME NEW P \in Nat \ {0}, NEW k \in Int, P * k < P, -P < P * k
    PROVE  k = 0
<1>1. k >= 1 => P * k >= P
  OBVIOUS
<1>2. k <= -1 => P * k <= -P
  OBVIOUS
<1> QED BY <1>1, <1>2

LEMMA DivMod ==
    ASSUME NEW P \in Nat \ {0}, NEW a \in Int
    PROVE  a = (P * (a \div P)) + (a % P) /\ a % P \in 0..(P - 1) /\ a \div P \in Int
OBVIOUS

LEMMA Unique ==
    ASSUME NEW P \in Nat \ {0}, NEW q \in Int, NEW r \in 0..(P - 1), NEW a \in Int,
           a = (P * q) + r
    PROVE  a \div P = q /\ a % P = r
<1> DEFINE x == a \div P
           s == a % P
<1>1. a = P * x + s /\ x \in Int /\ s \in 0..(P - 1)
  BY DivMod
<1> HIDE DEF x, s
<1> DEFINE k == q - x
<1>2. k \in Int /\ P * k = P * q - P * x
  BY <1>1
<1> HIDE DEF k
<1>3. P * k = s - r
  BY <1>1, <1>2
<1>4. P * k < P /\ -P < P * k
  BY <1>1, <1>3
<1>5. k = 0
  BY <1>2, <1>4, SmallMultiple
<1>6. s = r
  BY <1>1, <1>3, <1>5
<1>7. x = q
  BY <1>1, <1>2, <1>5 DEF k
<1> QED BY <1>6, <1>7 DEF x, s

\* Piece k of m pieces of n bytes.
LEMMA Within ==
    ASSUME NEW n \in Nat, NEW m \in Nat, NEW k \in 1..m
    PROVE  /\ (k - 1) * n \in Nat /\ k * n = (k - 1) * n + n
           /\ k * n \in Nat /\ m * n \in Nat /\ k * n <= m * n
<1> DEFINE a == k - 1
           b == m - k
<1>1. a \in Nat /\ b \in Nat /\ k = a + 1 /\ m = k + b
  OBVIOUS
<1> HIDE DEF a, b
<1>2. a * n \in Nat /\ b * n \in Nat /\ k * n = a * n + n /\ m * n = k * n + b * n
  BY <1>1
<1>3. k - 1 = a
  BY <1>1
<1> QED BY <1>2, <1>3

-----------------------------------------------------------------------------
(* Texts cut into pieces *)

\* s is the text y in pieces of n bytes.
Cut(s, y, n) ==
    /\ Text(s) /\ \A k \in 1..Len(s) : Text(s[k]) /\ Len(s[k]) = n
    /\ Text(y) /\ Len(y) = Len(s) * n
    /\ \A k \in 1..Len(s) : \A j \in 1..n : y[(k - 1) * n + j] = s[k][j]

LEMMA CutPieces ==
    ASSUME NEW n \in Nat \ {0}, NEW y, Text(y), NEW m \in Nat, Len(y) = m * n
    PROVE  Cut(Pieces(y, n), y, n) /\ Len(Pieces(y, n)) = m
<1> DEFINE s == Pieces(y, n)
<1>1. Len(y) \div n = m
  <2>1. m * n = (n * m) + 0 /\ m * n \in Int /\ 0 \in 0..(n - 1)
    OBVIOUS
  <2> QED BY <2>1, Unique
<1>2. s = [k \in 1..m |-> Part(y, (k - 1) * n, n)]
  BY <1>1 DEF Pieces
<1> HIDE DEF s
<1>3. Text(s) /\ Len(s) = m
  BY <1>2, MapIsText
<1>4. ASSUME NEW k \in 1..m
      PROVE  /\ Text(s[k]) /\ Len(s[k]) = n
             /\ \A j \in 1..n : y[(k - 1) * n + j] = s[k][j]
  <2>1. (k - 1) * n \in Nat /\ (k - 1) * n + n <= Len(y)
    BY Within
  <2>2. s[k] = Part(y, (k - 1) * n, n)
    BY <1>2
  <2> DEFINE a == (k - 1) * n
  <2>3. a \in Nat /\ n \in Nat /\ a + n <= Len(y) /\ s[k] = Part(y, a, n)
    BY <2>1, <2>2
  <2> HIDE DEF a
  <2>4. Text(s[k]) /\ Len(s[k]) = n /\ \A j \in 1..n : s[k][j] = y[a + j]
    BY ONLY <2>3, Text(y), PartText
  <2> QED BY <2>4 DEF a
<1> QED BY <1>3, <1>4 DEF Cut, s

LEMMA PiecesOfCut ==
    ASSUME NEW n \in Nat \ {0}, NEW s, NEW y, Cut(s, y, n)
    PROVE  Pieces(y, n) = s
<1> DEFINE t == Pieces(y, n)
<1>1. /\ Text(s) /\ Text(y) /\ Len(y) = Len(s) * n /\ Len(s) \in Nat
      /\ \A k \in 1..Len(s) : Text(s[k]) /\ Len(s[k]) = n
      /\ \A k \in 1..Len(s) : \A j \in 1..n : y[(k - 1) * n + j] = s[k][j]
  BY TextLength DEF Cut
<1>2. Cut(t, y, n) /\ Len(t) = Len(s)
  BY <1>1, CutPieces
<1> HIDE DEF t
<1>3. /\ Text(t) /\ \A k \in 1..Len(s) : Text(t[k]) /\ Len(t[k]) = n
      /\ \A k \in 1..Len(s) : \A j \in 1..n : y[(k - 1) * n + j] = t[k][j]
  BY <1>2 DEF Cut
<1>4. ASSUME NEW k \in 1..Len(s)
      PROVE  t[k] = s[k]
  <2>1. Text(t[k]) /\ Text(s[k]) /\ Len(t[k]) = n /\ Len(s[k]) = n
    BY <1>1, <1>3
  <2>2. \A j \in 1..n : t[k][j] = s[k][j]
    BY <1>1, <1>3
  <2> QED BY ONLY <2>1, <2>2, SameText
<1>5. t = s
  BY <1>1, <1>2, <1>3, <1>4, SameText
<1> QED BY <1>5 DEF t

LEMMA CutOne ==
    ASSUME NEW n \in Nat, NEW y, Text(y), Len(y) = n
    PROVE  Cut(<<y>>, y, n)
<1>1. <<y>> \in Seq({y}) /\ Len(<<y>>) = 1 /\ <<y>>[1] = y
  OBVIOUS
<1>2. \A k \in 1..Len(<<y>>) : k = 1
  BY <1>1
<1>3. Len(y) = Len(<<y>>) * n /\ \A j \in 1..n : (1 - 1) * n + j = j
  BY <1>1
<1> QED BY <1>1, <1>2, <1>3 DEF Cut, Text

LEMMA CutNone ==
    ASSUME NEW n \in Nat
    PROVE  Cut(<<>>, <<>>, n)
<1>1. Text(<<>>) /\ Len(<<>>) = 0 /\ 0 = 0 * n
  BY EmptyText
<1> QED BY <1>1 DEF Cut

LEMMA CutJoin ==
    ASSUME NEW n \in Nat, NEW s, NEW y, NEW t, NEW z, Cut(s, y, n), Cut(t, z, n)
    PROVE  Cut(s \o t, y \o z, n)
<1>1. /\ Text(s) /\ Text(y) /\ Len(y) = Len(s) * n /\ Len(s) \in Nat
      /\ \A k \in 1..Len(s) : Text(s[k]) /\ Len(s[k]) = n
      /\ \A k \in 1..Len(s) : \A j \in 1..n : y[(k - 1) * n + j] = s[k][j]
  BY TextLength DEF Cut
<1>2. /\ Text(t) /\ Text(z) /\ Len(z) = Len(t) * n /\ Len(t) \in Nat
      /\ \A k \in 1..Len(t) : Text(t[k]) /\ Len(t[k]) = n
      /\ \A k \in 1..Len(t) : \A j \in 1..n : z[(k - 1) * n + j] = t[k][j]
  BY TextLength DEF Cut
<1> DEFINE u == s \o t
           x == y \o z
<1>3. /\ Text(u) /\ Len(u) = Len(s) + Len(t)
      /\ \A k \in 1..Len(s) : u[k] = s[k]
      /\ \A k \in 1..Len(t) : u[Len(s) + k] = t[k]
  BY <1>1, <1>2, JoinText
<1>4. /\ Text(x) /\ Len(x) = Len(y) + Len(z)
      /\ \A k \in 1..Len(y) : x[k] = y[k]
      /\ \A k \in 1..Len(z) : x[Len(y) + k] = z[k]
  <2>1. Text(y) /\ Text(z)
    BY <1>1, <1>2
  <2> QED BY ONLY <2>1, JoinText
<1> HIDE DEF u, x
<1>5. Len(x) = Len(u) * n
  <2>1. (Len(s) + Len(t)) * n = Len(s) * n + Len(t) * n
    BY <1>1, <1>2
  <2> QED BY <1>1, <1>2, <1>3, <1>4, <2>1
<1>6. ASSUME NEW k \in 1..Len(u)
      PROVE  /\ Text(u[k]) /\ Len(u[k]) = n
             /\ \A j \in 1..n : x[(k - 1) * n + j] = u[k][j]
  <2>1. CASE k <= Len(s)
    <3>1. k \in 1..Len(s) /\ u[k] = s[k]
      BY <1>1, <1>3, <2>1
    <3>2. ASSUME NEW j \in 1..n
          PROVE  x[(k - 1) * n + j] = u[k][j]
      <4>1. (k - 1) * n \in Nat /\ (k - 1) * n + n <= Len(y)
        BY <1>1, <3>1, Within
      <4>2. (k - 1) * n + j \in 1..Len(y)
        BY <1>1, <4>1
      <4> QED BY <1>1, <1>4, <3>1, <4>2
    <3> QED BY <1>1, <3>1, <3>2
  <2>2. CASE ~(k <= Len(s))
    <3> DEFINE i == k - Len(s)
    <3>1. i \in 1..Len(t) /\ k = Len(s) + i
      BY <1>1, <1>2, <1>3, <2>2
    <3> HIDE DEF i
    <3>2. u[k] = t[i]
      BY <1>3, <3>1
    <3>3. ASSUME NEW j \in 1..n
          PROVE  x[(k - 1) * n + j] = u[k][j]
      <4>1. (i - 1) * n \in Nat /\ (i - 1) * n + n <= Len(z)
        BY <1>2, <3>1, Within
      <4>2. (i - 1) * n + j \in 1..Len(z)
        BY <1>2, <4>1
      <4>3. (k - 1) * n = Len(s) * n + (i - 1) * n
        <5>1. k - 1 = Len(s) + (i - 1) /\ i - 1 \in Int
          BY <1>1, <3>1
        <5> QED BY <1>1, <5>1
      <4>4. (k - 1) * n + j = Len(y) + ((i - 1) * n + j)
        BY <1>1, <4>1, <4>3
      <4> QED BY <1>2, <1>4, <3>1, <3>2, <4>2, <4>4, ZenonT(60)
    <3> QED BY <1>2, <3>1, <3>2, <3>3
  <2> QED BY <1>1, <1>3, <2>1, <2>2
<1> QED BY <1>3, <1>4, <1>5, <1>6 DEF Cut, u, x

LEMMA LeastNumber ==
    ASSUME NEW N \in SUBSET Nat, N # {}
    PROVE  \E a \in N : \A b \in N : a <= b
<1> DEFINE R == OpToRel(<, Nat)
<1>1. IsWellFoundedOn(R, Nat)
  BY NatLessThanWellFounded
<1>2. \A x, y \in Nat : x < y => <<x, y>> \in R
  BY DEF OpToRel
<1> HIDE DEF R
<1>3. PICK a \in N : \A b \in N : ~(<<b, a>> \in R)
  BY <1>1, WFMin
<1>4. \A b \in N : b \in Nat /\ a \in Nat /\ ~(b < a)
  BY <1>2, <1>3
<1> QED BY <1>3, <1>4

\* The first pieces of a text that is cut, one after the other.
LEMMA FirstPieces ==
    ASSUME NEW n \in Nat, NEW s, NEW y, Cut(s, y, n), NEW i \in 1..Len(s)
    PROVE  /\ i = 1 => Part(y, 0, i * n) = s[1]
           /\ i # 1 => Part(y, 0, i * n) = Part(y, 0, (i - 1) * n) \o s[i]
<1>1. /\ Text(s) /\ Text(y) /\ Len(y) = Len(s) * n /\ Len(s) \in Nat
      /\ Text(s[i]) /\ Len(s[i]) = n
      /\ \A j \in 1..n : y[(i - 1) * n + j] = s[i][j]
  BY TextLength DEF Cut
<1> DEFINE a == (i - 1) * n
           b == i * n
           u == Part(y, 0, a)
           v == Part(y, 0, b)
<1>2. a \in Nat /\ b \in Nat /\ b = a + n /\ b <= Len(y)
  BY <1>1, Within
<1>3. /\ i = 1 => a = 0
      /\ \A j \in 1..n : y[a + j] = s[i][j]
  BY <1>1
<1> HIDE DEF a, b
<1>4. /\ Text(u) /\ Len(u) = a /\ \A j \in 1..a : u[j] = y[0 + j]
      /\ Text(v) /\ Len(v) = b /\ \A j \in 1..b : v[j] = y[0 + j]
  <2>1. 0 \in Nat /\ 0 + a <= Len(y) /\ 0 + b <= Len(y)
    BY <1>1, <1>2
  <2>2. Text(y)
    BY <1>1
  <2> QED BY ONLY <1>2, <2>1, <2>2, PartText
<1> HIDE DEF u, v
<1>5. (\A j \in 1..a : u[j] = y[j]) /\ (\A j \in 1..b : v[j] = y[j])
  BY <1>2, <1>4
<1>6. v = u \o s[i]
  <2> DEFINE w == u \o s[i]
  <2>1. /\ Text(w) /\ Len(w) = a + n /\ \A j \in 1..a : w[j] = u[j]
        /\ \A j \in 1..n : w[a + j] = s[i][j]
    <3>1. Text(u) /\ Text(s[i])
      BY <1>1, <1>4
    <3>2. /\ Text(w) /\ Len(w) = Len(u) + Len(s[i]) /\ \A j \in 1..Len(u) : w[j] = u[j]
          /\ \A j \in 1..Len(s[i]) : w[Len(u) + j] = s[i][j]
      BY ONLY <3>1, JoinText
    <3> HIDE DEF w
    <3> QED BY <3>2, <1>1, <1>4
  <2> HIDE DEF w
  <2>2. ASSUME NEW j \in 1..b
        PROVE  v[j] = w[j]
    <3>1. CASE j <= a
      BY <1>2, <1>5, <2>1, <3>1
    <3>2. CASE ~(j <= a)
      <4> DEFINE k == j - a
      <4>1. k \in 1..n /\ j = a + k
        BY <1>2, <3>2
      <4> HIDE DEF k
      <4> QED BY <1>3, <1>5, <2>1, <4>1
    <3> QED BY <3>1, <3>2
  <2>3. v = w
    BY <1>2, <1>4, <2>1, <2>2, SameText
  <2> QED BY <2>3 DEF w
<1>7. i = 1 => u = <<>> /\ <<>> \o s[i] = s[i]
  BY <1>1, <1>3, <1>4, EmptyText
<1> QED BY <1>6, <1>7 DEF a, b, u, v

\* FlattenSeq() puts the pieces together again.
LEMMA FlattenCut ==
    ASSUME NEW n \in Nat, NEW s, NEW y, Cut(s, y, n)
    PROVE  FlattenSeq(s) = y
<1>1. Text(s) /\ Text(y) /\ Len(y) = Len(s) * n /\ Len(s) \in Nat
  BY TextLength DEF Cut
<1> DEFINE m == Len(s)
           Rec(f) == f = [i \in 1..m |-> IF i = 1 THEN s[i] ELSE f[i - 1] \o s[i]]
           g == [i \in 1..m |-> Part(y, 0, i * n)]
<1>2. Rec(g)
  <2>1. \A i \in 1..m : g[i] = IF i = 1 THEN s[i] ELSE g[i - 1] \o s[i]
    <3> TAKE i \in 1..m
    <3>1. /\ i = 1 => Part(y, 0, i * n) = s[1]
          /\ i # 1 => Part(y, 0, i * n) = Part(y, 0, (i - 1) * n) \o s[i]
      BY FirstPieces
    <3>2. i # 1 => i - 1 \in 1..m
      BY <1>1
    <3> QED BY <3>1, <3>2
  <2> QED BY <2>1
<1>3. ASSUME NEW f, Rec(f)
      PROVE  f = g
  <2>1. /\ DOMAIN f = 1..m /\ f = [i \in 1..m |-> f[i]]
        /\ \A i \in 1..m : f[i] = IF i = 1 THEN s[i] ELSE f[i - 1] \o s[i]
    BY <1>3
  <2>2. /\ DOMAIN g = 1..m /\ g = [i \in 1..m |-> g[i]]
        /\ \A i \in 1..m : g[i] = IF i = 1 THEN s[i] ELSE g[i - 1] \o s[i]
    BY <1>2
  <2> HIDE DEF g, Rec
  <2> DEFINE N == {i \in 1..m : f[i] # g[i]}
  <2>3. N = {}
    <3> SUFFICES ASSUME N # {} PROVE FALSE
      OBVIOUS
    <3>1. N \in SUBSET Nat
      OBVIOUS
    <3>2. PICK a \in N : \A b \in N : a <= b
      <4> HIDE DEF N
      <4> QED BY <3>1, LeastNumber
    <3>3. a \in 1..m /\ f[a] # g[a]
      OBVIOUS
    <3>4. a # 1
      BY <2>1, <2>2, <3>3
    <3>5. a - 1 \in 1..m /\ ~(a - 1 \in N)
      BY <1>1, <3>2, <3>3, <3>4
    <3>6. f[a - 1] = g[a - 1]
      BY <3>5
    <3> QED BY <2>1, <2>2, <3>3, <3>4, <3>6
  <2>4. \A i \in 1..m : f[i] = g[i]
    BY <2>3
  <2> HIDE DEF N
  <2> QED BY <2>1, <2>2, <2>4
<1>4. CASE m = 0
  <2>1. s = <<>> /\ y = <<>> /\ FlattenSeq(s) = s
    BY <1>1, <1>4, EmptyText DEF FlattenSeq
  <2> QED BY <2>1
<1>5. CASE m # 0
  <2>1. FlattenSeq(s) = (CHOOSE f : Rec(f))[m]
    BY <1>5 DEF FlattenSeq
  <2> HIDE DEF g, Rec
  <2>2. (CHOOSE f : Rec(f)) = g
    BY <1>2, <1>3
  <2>3. g[m] = Part(y, 0, m * n)
    BY <1>1, <1>5 DEF g
  <2>4. Part(y, 0, Len(y)) = y
    <3>1. Len(y) \in Nat
      BY <1>1, TextLength
    <3>2. /\ Text(Part(y, 0, Len(y))) /\ Len(Part(y, 0, Len(y))) = Len(y)
          /\ \A i \in 1..Len(y) : Part(y, 0, Len(y))[i] = y[0 + i]
      BY <1>1, <3>1, PartText
    <3> QED BY <1>1, <3>1, <3>2, SameText
  <2> QED BY <1>1, <2>1, <2>2, <2>3, <2>4
<1> QED BY <1>4, <1>5

-----------------------------------------------------------------------------
(* Texts put together in an array *)

LEMMA JoinAgain ==
    ASSUME NEW s, NEW t, NEW u, Text(s), Text(t), Text(u)
    PROVE  (s \o t) \o u = s \o (t \o u)
<1>0. PICK A, B, C : s \in Seq(A) /\ t \in Seq(B) /\ u \in Seq(C)
  BY DEF Text
<1> DEFINE S == A \cup B \cup C
<1>1. A \subseteq S /\ B \subseteq S /\ C \subseteq S
  OBVIOUS
<1> HIDE DEF S
<1>2. s \in Seq(S) /\ t \in Seq(S) /\ u \in Seq(S)
  BY <1>0, <1>1, SeqMonotonic
<1> QED BY <1>2, ConcatAssociative

LEMMA OneText ==
    ASSUME NEW b
    PROVE  Text(<<b>>) /\ Len(<<b>>) = 1 /\ <<b>>[1] = b
<1>1. <<b>> \in Seq({b}) /\ Len(<<b>>) = 1 /\ <<b>>[1] = b
  OBVIOUS
<1> QED BY <1>1 DEF Text

LEMMA AppendText ==
    ASSUME NEW s, Text(s), NEW b
    PROVE  Append(s, b) = s \o <<b>>
<1>0. PICK A : s \in Seq(A)
  BY DEF Text
<1> DEFINE S == A \cup {b}
<1>1. A \subseteq S /\ b \in S
  OBVIOUS
<1> HIDE DEF S
<1>2. s \in Seq(S) /\ b \in S
  BY <1>0, <1>1, SeqMonotonic
<1> QED BY <1>2, AppendIsConcat

\* The array a begins with the text p.
Begins(a, p) ==
    /\ Text(a) /\ Text(p) /\ Len(p) <= Len(a)
    /\ \A i \in 1..Len(p) : a[i] = p[i]

LEMMA BeginsCopy ==
    ASSUME NEW a, NEW p, NEW b, Begins(a, p), Text(b), Len(p) + Len(b) <= Len(a)
    PROVE  Begins(Copy(a, Len(p), b), p \o b) /\ Len(Copy(a, Len(p), b)) = Len(a)
<1> DEFINE m == Len(p)
           n == Len(b)
           c == Copy(a, m, b)
           q == p \o b
<1>1. Text(a) /\ Text(p) /\ Text(b) /\ m \in Nat /\ n \in Nat /\ m + n <= Len(a)
  BY TextLength DEF Begins
<1>2. /\ Text(c) /\ Len(c) = Len(a)
      /\ \A i \in 1..m : c[i] = a[i]
      /\ \A i \in 1..n : c[m + i] = b[i]
  <2> HIDE DEF m
  <2> QED BY <1>1, CopyText
<1>3. /\ Text(q) /\ Len(q) = m + n
      /\ \A i \in 1..m : q[i] = p[i]
      /\ \A i \in 1..n : q[m + i] = b[i]
  BY <1>1, JoinText
<1>4. \A i \in 1..m : a[i] = p[i]
  BY DEF Begins
<1> HIDE DEF m, n, c, q
<1>5. ASSUME NEW i \in 1..(m + n)
      PROVE  c[i] = q[i]
  <2>1. CASE i <= m
    BY <1>1, <1>2, <1>3, <1>4, <2>1
  <2>2. CASE ~(i <= m)
    <3> DEFINE k == i - m
    <3>1. k \in 1..n /\ i = m + k
      BY <1>1, <2>2
    <3> HIDE DEF k
    <3> QED BY <1>2, <1>3, <3>1
  <2> QED BY <2>1, <2>2
<1>6. Begins(c, q) /\ Len(c) = Len(a)
  BY <1>1, <1>2, <1>3, <1>5 DEF Begins
<1> QED BY <1>6 DEF c, q, m

LEMMA BeginsAll ==
    ASSUME NEW a, NEW p, Begins(a, p), Len(p) = Len(a)
    PROVE  a = p
BY SameText DEF Begins

LEMMA BeginsPart ==
    ASSUME NEW a, NEW p, Begins(a, p)
    PROVE  Part(a, 0, Len(p)) = p
<1>1. Text(a) /\ Text(p) /\ Len(p) \in Nat /\ 0 + Len(p) <= Len(a)
  BY TextLength DEF Begins
<1> DEFINE q == Part(a, 0, Len(p))
           n == Len(p)
<1>2. Text(q) /\ Len(q) = n /\ \A i \in 1..n : q[i] = a[0 + i]
  <2>1. n \in Nat /\ 0 \in Nat /\ 0 + n <= Len(a) /\ Text(a) /\ q = Part(a, 0, n)
    BY <1>1
  <2> HIDE DEF n
  <2> QED BY <2>1, PartText
<1> HIDE DEF q
<1>3. \A i \in 1..n : q[i] = p[i]
  BY <1>1, <1>2 DEF Begins
<1>4. q = p
  BY <1>1, <1>2, <1>3, SameText
<1> QED BY <1>4 DEF q

LEMMA BeginsNone ==
    ASSUME NEW a, Text(a)
    PROVE  Begins(a, <<>>)
<1>1. Len(a) \in Nat
  BY TextLength
<1> QED BY <1>1, EmptyText DEF Begins

LEMMA SplitText ==
    ASSUME NEW s, Text(s), NEW n \in Nat, n <= Len(s)
    PROVE  /\ Part(s, 0, n) \o Part(s, n, Len(s) - n) = s
           /\ Text(Part(s, 0, n)) /\ Len(Part(s, 0, n)) = n
           /\ Text(Part(s, n, Len(s) - n)) /\ Len(Part(s, n, Len(s) - n)) = Len(s) - n
<1> DEFINE m == Len(s) - n
           p == Part(s, 0, n)
           q == Part(s, n, m)
           t == p \o q
<1>1. Len(s) \in Nat /\ m \in Nat /\ n + m = Len(s) /\ 0 + n <= Len(s) /\ 0 \in Nat
  BY TextLength
<1> HIDE DEF m
<1>2. Text(p) /\ Len(p) = n /\ \A i \in 1..n : p[i] = s[0 + i]
  BY <1>1, PartText
<1>3. Text(q) /\ Len(q) = m /\ \A i \in 1..m : q[i] = s[n + i]
  <2>1. n \in Nat /\ m \in Nat /\ n + m <= Len(s) /\ Text(s)
    BY <1>1
  <2> QED BY ONLY <2>1, PartText
<1> HIDE DEF p, q
<1>4. /\ Text(t) /\ Len(t) = Len(p) + Len(q)
      /\ \A i \in 1..Len(p) : t[i] = p[i]
      /\ \A i \in 1..Len(q) : t[Len(p) + i] = q[i]
  <2>1. Text(p) /\ Text(q)
    BY <1>2, <1>3
  <2> QED BY ONLY <2>1, JoinText
<1> HIDE DEF t
<1>5. ASSUME NEW i \in 1..Len(s)
      PROVE  t[i] = s[i]
  <2>1. CASE i <= n
    BY <1>1, <1>2, <1>3, <1>4, <2>1
  <2>2. CASE ~(i <= n)
    <3> DEFINE k == i - n
    <3>1. k \in 1..m /\ i = n + k
      BY <1>1, <2>2
    <3> HIDE DEF k
    <3> QED BY <1>2, <1>3, <1>4, <3>1
  <2> QED BY <2>1, <2>2
<1>6. t = s
  BY <1>1, <1>2, <1>3, <1>4, <1>5, SameText
<1> QED BY <1>2, <1>3, <1>6 DEF m, p, q, t

LEMMA ZerosJoin ==
    ASSUME NEW m \in Nat, NEW n \in Nat
    PROVE  Zeros(m) \o Zeros(n) = Zeros(m + n)
<1> DEFINE t == Zeros(m) \o Zeros(n)
           z == Zeros(m + n)
<1>1. /\ Text(Zeros(m)) /\ Len(Zeros(m)) = m /\ \A i \in 1..m : Zeros(m)[i] = Zero
      /\ Text(Zeros(n)) /\ Len(Zeros(n)) = n /\ \A i \in 1..n : Zeros(n)[i] = Zero
      /\ Text(z) /\ Len(z) = m + n /\ \A i \in 1..(m + n) : z[i] = Zero
  BY ZerosText
<1>2. /\ Text(t) /\ Len(t) = m + n
      /\ \A i \in 1..m : t[i] = Zero
      /\ \A i \in 1..n : t[m + i] = Zero
  BY <1>1, JoinText
<1> HIDE DEF t, z
<1>3. ASSUME NEW i \in 1..(m + n)
      PROVE  t[i] = z[i]
  <2>1. CASE i <= m
    BY <1>1, <1>2, <2>1
  <2>2. CASE ~(i <= m)
    <3> DEFINE k == i - m
    <3>1. k \in 1..n /\ i = m + k
      BY <2>2
    <3> HIDE DEF k
    <3> QED BY <1>1, <1>2, <3>1
  <2> QED BY <2>1, <2>2
<1>4. t = z
  BY <1>1, <1>2, <1>3, SameText
<1> QED BY <1>4 DEF t, z

-----------------------------------------------------------------------------
(* A context of SHA-256 *)

\* The fields of a context.
IsCtx(c) == DOMAIN c = {"state", "buffer", "count"}

\* The context c has swallowed the text y in whole blocks, and z is at the
\* beginning of its buffer.
Fills(c, y, z) ==
    /\ IsCtx(c)
    /\ Cut(c.state, y, BlockLength)
    /\ Begins(c.buffer, z) /\ Len(c.buffer) = BlockLength
    /\ c.count = Len(y) + Len(z)

Holds(c, y, z) == Fills(c, y, z) /\ Len(z) < BlockLength

LEMMA FillsFacts ==
    ASSUME NEW c, NEW y, NEW z, Fills(c, y, z)
    PROVE  /\ Text(y) /\ Text(z) /\ Text(c.state) /\ Text(c.buffer)
           /\ Len(y) \in Nat /\ Len(z) \in Nat /\ Len(c.state) \in Nat
           /\ Len(y) = Len(c.state) * BlockLength /\ Len(z) <= BlockLength
           /\ BlockLength \in Nat \ {0} /\ c.count \in Nat
<1>1. /\ Text(y) /\ Text(z) /\ Text(c.state) /\ Text(c.buffer) /\ Len(z) <= BlockLength
      /\ Len(y) = Len(c.state) * BlockLength /\ c.count = Len(y) + Len(z)
  BY DEF Fills, Cut, Begins
<1>2. Len(y) \in Nat /\ Len(z) \in Nat /\ Len(c.state) \in Nat
  BY <1>1, TextLength
<1> QED BY <1>1, <1>2, HashAssumption

\* The used space is what is in the buffer.
LEMMA HoldsUsed ==
    ASSUME NEW c, NEW y, NEW z, Holds(c, y, z)
    PROVE  Usedspace(c) = Len(z) /\ Absorbed(c) = y \o z
<1>1. Fills(c, y, z) /\ Len(z) < BlockLength
  BY DEF Holds
<1>2. /\ Len(y) \in Nat /\ Len(z) \in Nat /\ Len(c.state) \in Nat
      /\ Len(y) = Len(c.state) * BlockLength /\ BlockLength \in Nat \ {0}
      /\ c.count = Len(y) + Len(z) /\ c.count \in Int
  BY <1>1, FillsFacts DEF Fills
<1>3. Usedspace(c) = Len(z)
  <2> DEFINE q == Len(c.state)
             r == Len(z)
             a == c.count
  <2>1. a = (BlockLength * q) + r
    BY <1>2
  <2>2. q \in Int /\ r \in 0..(BlockLength - 1) /\ a \in Int
    BY <1>1, <1>2
  <2>3. a % BlockLength = r
    <3> HIDE DEF q, r, a
    <3> QED BY <1>2, <2>1, <2>2, Unique
  <2> QED BY <2>3 DEF Usedspace
<1>4. FlattenSeq(c.state) = y
  BY <1>1, <1>2, FlattenCut DEF Fills
<1>5. Part(c.buffer, 0, Len(z)) = z
  BY <1>1, BeginsPart DEF Fills
<1> QED BY <1>3, <1>4, <1>5 DEF Absorbed

LEMMA InitHolds == Holds(dtls_sha256_init, <<>>, <<>>)
<1> DEFINE c == dtls_sha256_init
<1>1. /\ IsCtx(c) /\ c.state = <<>> /\ c.buffer = Zeros(BlockLength) /\ c.count = 0
      /\ BlockLength \in Nat \ {0}
  BY HashAssumption DEF dtls_sha256_init, IsCtx
<1> HIDE DEF c
<1>2. Text(c.buffer) /\ Len(c.buffer) = BlockLength
  BY <1>1, ZerosText
<1>3. Begins(c.buffer, <<>>)
  BY <1>2, BeginsNone
<1>4. Cut(c.state, <<>>, BlockLength)
  BY <1>1, CutNone
<1>5. c.count = Len(<<>>) + Len(<<>>) /\ Len(<<>>) < BlockLength
  BY <1>1, EmptyText
<1>6. Holds(c, <<>>, <<>>)
  BY <1>1, <1>2, <1>3, <1>4, <1>5 DEF Holds, Fills
<1> QED BY <1>6 DEF c

LEMMA StoreFills ==
    ASSUME NEW c, NEW y, NEW z, Fills(c, y, z), NEW d, Text(d), Len(z) + Len(d) <= BlockLength
    PROVE  Fills(Store(c, Len(z), d), y, z \o d)
<1> DEFINE e == Store(c, Len(z), d)
<1>1. /\ Len(y) \in Nat /\ Len(z) \in Nat /\ Len(d) \in Nat /\ Text(z)
  BY FillsFacts, TextLength
<1>2. /\ IsCtx(c) /\ Cut(c.state, y, BlockLength) /\ c.count = Len(y) + Len(z)
      /\ Begins(c.buffer, z) /\ Len(c.buffer) = BlockLength
  BY DEF Fills
<1>4. /\ IsCtx(e) /\ e.state = c.state /\ e.buffer = Copy(c.buffer, Len(z), d)
      /\ e.count = c.count + Len(d)
  BY <1>2 DEF Store, IsCtx
<1> HIDE DEF e
<1>5. Begins(e.buffer, z \o d) /\ Len(e.buffer) = BlockLength
  <2>1. Len(z) + Len(d) <= Len(c.buffer)
    BY <1>2
  <2>2. /\ Begins(Copy(c.buffer, Len(z), d), z \o d)
        /\ Len(Copy(c.buffer, Len(z), d)) = Len(c.buffer)
    BY <1>2, <2>1, BeginsCopy
  <2> QED BY <1>2, <1>4, <2>2
<1>6. e.count = Len(y) + Len(z \o d)
  <2>1. Len(z \o d) = Len(z) + Len(d)
    BY <1>1, JoinText
  <2> QED BY <1>1, <1>2, <1>4, <2>1
<1>7. Fills(e, y, z \o d)
  BY <1>2, <1>4, <1>5, <1>6 DEF Fills
<1> QED BY <1>7 DEF e

LEMMA ScratchText == Text(Scratch) /\ Len(Scratch) = BlockLength
<1>1. BlockLength \in Nat /\ DOMAIN Scratch = 1..BlockLength
  BY HashAssumption DEF Scratch
<1>2. Scratch = [i \in 1..BlockLength |-> Scratch[i]]
  BY DEF Scratch
<1> QED BY <1>1, <1>2, MapIsText

\* One block through the compression function.
LEMMA TransformCuts ==
    ASSUME NEW c, NEW y, IsCtx(c), Cut(c.state, y, BlockLength),
           NEW b, Text(b), Len(b) = BlockLength
    PROVE  /\ IsCtx(dtls_sha256_transform(c, b))
           /\ dtls_sha256_transform(c, b).state = c.state \o <<b>>
           /\ dtls_sha256_transform(c, b).buffer = Scratch
           /\ dtls_sha256_transform(c, b).count = c.count
           /\ Cut(dtls_sha256_transform(c, b).state, y \o b, BlockLength)
<1> DEFINE e == dtls_sha256_transform(c, b)
<1>1. /\ IsCtx(e) /\ e.state = Append(c.state, b) /\ e.buffer = Scratch
      /\ e.count = c.count
  BY DEF dtls_sha256_transform, IsCtx
<1>2. Append(c.state, b) = c.state \o <<b>>
  <2>1. Text(c.state)
    BY DEF Cut
  <2> QED BY <2>1, AppendText
<1>3. /\ IsCtx(e) /\ e.state = c.state \o <<b>> /\ e.buffer = Scratch /\ e.count = c.count
  BY <1>1, <1>2
<1> HIDE DEF e
<1>4. Cut(c.state \o <<b>>, y \o b, BlockLength)
  <2>1. BlockLength \in Nat
    BY HashAssumption
  <2>2. Cut(<<b>>, b, BlockLength)
    BY <2>1, CutOne
  <2> QED BY <2>1, <2>2, CutJoin
<1> QED BY <1>3, <1>4 DEF e

\* A full buffer goes through the compression function.
LEMMA FullFills ==
    ASSUME NEW c, NEW y, NEW z, Fills(c, y, z), Len(z) = BlockLength
    PROVE  Fills(dtls_sha256_transform(c, c.buffer), y \o z, <<>>)
<1> DEFINE e == dtls_sha256_transform(c, c.buffer)
<1>1. /\ IsCtx(c) /\ Cut(c.state, y, BlockLength) /\ c.count = Len(y) + Len(z)
      /\ Begins(c.buffer, z) /\ Len(c.buffer) = BlockLength /\ Text(y) /\ Text(z)
      /\ Len(y) \in Nat /\ Len(z) \in Nat /\ Text(c.buffer)
  BY FillsFacts DEF Fills
<1>2. c.buffer = z
  BY <1>1, BeginsAll
<1>3. /\ IsCtx(e) /\ e.buffer = Scratch /\ e.count = c.count
      /\ Cut(e.state, y \o z, BlockLength)
  BY <1>1, <1>2, TransformCuts
<1> HIDE DEF e
<1>4. Begins(e.buffer, <<>>) /\ Len(e.buffer) = BlockLength
  BY <1>3, ScratchText, BeginsNone
<1>5. e.count = Len(y \o z) + Len(<<>>)
  <2>1. Len(y \o z) = Len(y) + Len(z)
    BY <1>1, JoinText
  <2> QED BY <1>1, <1>3, <2>1, EmptyText
<1>6. Fills(e, y \o z, <<>>)
  BY <1>3, <1>4, <1>5 DEF Fills
<1> QED BY <1>6 DEF e

\* Whole blocks from the input.
LEMMA SwallowFills ==
    ASSUME NEW c, NEW y, Fills(c, y, <<>>), NEW s, NEW w, Cut(s, w, BlockLength)
    PROVE  Fills(Swallow(c, s), y \o w, <<>>)
<1> DEFINE e == Swallow(c, s)
<1>1. /\ IsCtx(c) /\ Cut(c.state, y, BlockLength) /\ c.count = Len(y) + Len(<<>>)
      /\ Len(c.buffer) = BlockLength /\ Text(y) /\ Text(c.buffer)
      /\ Len(y) \in Nat /\ BlockLength \in Nat
  BY FillsFacts DEF Fills
<1>2. Text(w) /\ Len(w) = Len(s) * BlockLength /\ Len(w) \in Nat
  BY TextLength DEF Cut
<1>4. /\ IsCtx(e) /\ e.state = c.state \o s /\ e.count = c.count + Len(s) * BlockLength
      /\ e.buffer = c.buffer \/ e.buffer = Scratch
  BY <1>1 DEF Swallow, IsCtx
<1> HIDE DEF e
<1>5. Text(e.buffer) /\ Len(e.buffer) = BlockLength
  BY <1>1, <1>4, ScratchText
<1>6. Begins(e.buffer, <<>>)
  BY <1>5, BeginsNone
<1>7. Cut(e.state, y \o w, BlockLength)
  BY <1>1, <1>4, CutJoin
<1>8. e.count = Len(y \o w) + Len(<<>>)
  <2>1. Len(y \o w) = Len(y) + Len(w)
    BY <1>1, <1>2, JoinText
  <2>2. Len(<<>>) = 0
    BY EmptyText
  <2>3. e.count = c.count + Len(w)
    BY <1>2, <1>4
  <2> QED BY <1>1, <1>2, <2>1, <2>2, <2>3
<1>9. Fills(e, y \o w, <<>>)
  BY <1>4, <1>5, <1>6, <1>7, <1>8 DEF Fills
<1> QED BY <1>9 DEF e

\* The whole blocks of an input are swallowed and the rest of it is stored.
RestOf(c, r) ==
    LET n == (Len(r) \div BlockLength) * BlockLength
    IN  Store(Swallow(c, Pieces(Part(r, 0, n), BlockLength)), 0, Part(r, n, Len(r) - n))

LEMMA RestHolds ==
    ASSUME NEW c, NEW y, Fills(c, y, <<>>), NEW r, Text(r)
    PROVE  \E y2, z2 : Holds(RestOf(c, r), y2, z2) /\ y2 \o z2 = y \o r
<1> DEFINE a == Len(r)
           q == a \div BlockLength
           n == q * BlockLength
           w == Part(r, 0, n)
           v == Part(r, n, a - n)
           s == Pieces(w, BlockLength)
           e == Swallow(c, s)
           h == Store(e, 0, v)
<1>1. a \in Nat /\ BlockLength \in Nat \ {0} /\ Text(y) /\ Len(y) \in Nat
  BY TextLength, FillsFacts
<1>2. q \in Nat /\ n \in Nat /\ n = q * BlockLength /\ n <= a /\ a - n < BlockLength
  <2>1. /\ a = (BlockLength * q) + (a % BlockLength) /\ q \in Int
        /\ a % BlockLength \in 0..(BlockLength - 1)
    BY <1>1, DivMod
  <2>2. q \in Nat
    BY <1>1
  <2> HIDE DEF a, q
  <2>3. BlockLength * q = q * BlockLength /\ q * BlockLength \in Nat
    BY <1>1, <2>2
  <2> QED BY <1>1, <2>1, <2>2, <2>3
<1>3. w \o v = r /\ Text(w) /\ Len(w) = n /\ Text(v) /\ Len(v) = a - n
  BY <1>1, <1>2, SplitText
<1> HIDE DEF w, v
<1>4. Cut(s, w, BlockLength)
  <2>1. BlockLength \in Nat \ {0} /\ Text(w) /\ q \in Nat /\ Len(w) = q * BlockLength
    BY <1>1, <1>2, <1>3
  <2> HIDE DEF q
  <2> QED BY <2>1, CutPieces
<1> HIDE DEF s
<1>5. Fills(e, y \o w, <<>>)
  BY <1>4, SwallowFills
<1> HIDE DEF e
<1>6. Len(<<>>) = 0 /\ <<>> \o v = v
  BY <1>3, EmptyText
<1>7. Fills(h, y \o w, v)
  <2>1. Len(<<>>) + Len(v) <= BlockLength
    BY <1>1, <1>2, <1>3, <1>6
  <2>2. Fills(Store(e, Len(<<>>), v), y \o w, <<>> \o v)
    BY <1>3, <1>5, <2>1, StoreFills
  <2> QED BY <1>6, <2>2
<1>8. Holds(h, y \o w, v)
  BY <1>2, <1>3, <1>7 DEF Holds
<1>9. (y \o w) \o v = y \o r
  <2>1. Text(y) /\ Text(w) /\ Text(v)
    BY <1>1, <1>3
  <2>2. (y \o w) \o v = y \o (w \o v)
    BY ONLY <2>1, JoinAgain
  <2> QED BY <1>3, <2>2
<1>10. h = RestOf(c, r)
  BY DEF RestOf, a, q, n, w, v, s, e, h
<1> HIDE DEF h
<1> QED BY <1>8, <1>9, <1>10

\* dtls_sha256_update(), wherever the input ends in a block.
LEMMA UpdateHolds ==
    ASSUME NEW c, NEW y, NEW z, Holds(c, y, z), NEW d, Text(d)
    PROVE  \E y2, z2 : Holds(dtls_sha256_update(c, d), y2, z2) /\ y2 \o z2 = (y \o z) \o d
<1> DEFINE used == Usedspace(c)
           free == BlockLength - used
           fill == IF used > 0 THEN Part(d, 0, Least(free, Len(d))) ELSE <<>>
           c1   == Store(c, used, fill)
           c2   == IF used > 0 THEN dtls_sha256_transform(c1, c1.buffer) ELSE c1
           r    == Part(d, Len(fill), Len(d) - Len(fill))
           big  == RestOf(c2, r)
           short == d = <<>> \/ (used > 0 /\ Fits(Len(d), free))
<1>1. dtls_sha256_update(c, d) = IF short THEN c1 ELSE big
  BY DEF dtls_sha256_update, RestOf
<1>2. used = Len(z)
  BY HoldsUsed
<1>3. /\ Fills(c, y, z) /\ Text(y) /\ Text(z) /\ used \in Nat /\ Len(d) \in Nat
      /\ BlockLength \in Nat /\ used < BlockLength
  BY <1>2, FillsFacts, TextLength DEF Holds
<1>4. /\ Len(d) = 0 <=> d = <<>>
      /\ Len(<<>>) = 0
      /\ d \o <<>> = d /\ z \o <<>> = z /\ <<>> \o d = d
  BY <1>3, EmptyText
<1>5. \A k \in Nat : k <= Len(d) =>
          /\ Part(d, 0, k) \o Part(d, k, Len(d) - k) = d
          /\ Text(Part(d, 0, k)) /\ Len(Part(d, 0, k)) = k
          /\ Text(Part(d, k, Len(d) - k)) /\ Len(Part(d, k, Len(d) - k)) = Len(d) - k
  BY SplitText
<1>6. Len(d) - Len(d) = 0 /\ Len(d) - 0 = Len(d)
  BY <1>3
<1>7. Part(d, 0, Len(d)) = d
  <2> DEFINE p == Part(d, 0, Len(d))
             t == Part(d, Len(d), Len(d) - Len(d))
  <2>1. p \o t = d /\ Text(p) /\ Text(t) /\ Len(t) = 0
    <3> DEFINE k == Len(d)
    <3>1. k \in Nat /\ k <= Len(d) /\ Len(d) - k = 0
      BY <1>3
    <3> HIDE DEF k
    <3>2. /\ Part(d, 0, k) \o Part(d, k, Len(d) - k) = d
          /\ Text(Part(d, 0, k)) /\ Text(Part(d, k, Len(d) - k))
          /\ Len(Part(d, k, Len(d) - k)) = Len(d) - k
      BY <1>5, <3>1
    <3> QED BY <3>1, <3>2 DEF k
  <2> HIDE DEF p, t
  <2>2. t = <<>> /\ p \o <<>> = p
    BY <2>1, EmptyText
  <2>3. p = d
    BY <2>1, <2>2
  <2> QED BY <2>3 DEF p
<1>8. (y \o z) \o d = y \o (z \o d)
  BY <1>3, JoinAgain
<1>9. CASE short
  <2>1. Len(d) < free
    BY <1>2, <1>3, <1>4, <1>9 DEF Fits
  <2>2. fill = d
    <3>1. CASE used > 0
      <4>1. Least(free, Len(d)) = Len(d)
        BY <1>3, <2>1 DEF Least
      <4> QED BY <1>7, <3>1, <4>1
    <3>2. CASE ~(used > 0)
      BY <1>9, <3>2
    <3> QED BY <3>1, <3>2
  <2>3. Fills(Store(c, Len(z), d), y, z \o d)
    <3>1. Len(z) + Len(d) <= BlockLength
      BY <1>2, <1>3, <2>1
    <3> QED BY <1>3, <3>1, StoreFills
  <2>4. Len(z \o d) < BlockLength
    <3>1. Len(z \o d) = Len(z) + Len(d)
      BY <1>3, JoinText
    <3>2. Len(z) + Len(d) < BlockLength
      BY <1>2, <1>3, <2>1
    <3> QED BY <3>1, <3>2
  <2>5. dtls_sha256_update(c, d) = Store(c, Len(z), d)
    BY <1>1, <1>2, <1>9, <2>2
  <2> QED BY <1>8, <2>3, <2>4, <2>5 DEF Holds
<1>10. CASE ~short
  <2>1. dtls_sha256_update(c, d) = big
    BY <1>1, <1>10
  <2>2. /\ Text(r) /\ Fills(c2, y \o (z \o fill), <<>>)
        /\ (z \o fill) \o r = z \o d /\ Text(fill)
    <3>1. CASE used > 0
      <4>1. Least(free, Len(d)) = free /\ free \in Nat /\ free <= Len(d)
        BY <1>3, <1>10, <3>1 DEF Fits, Least
      <4>2. /\ fill = Part(d, 0, free) /\ fill \o r = d
            /\ Text(fill) /\ Len(fill) = free /\ Text(r)
        BY <1>5, <3>1, <4>1
      <4> HIDE DEF r, fill
      <4>3. Fills(c1, y, z \o fill)
        <5>1. Len(z) + Len(fill) <= BlockLength
          BY <1>2, <1>3, <4>2
        <5>2. Fills(Store(c, Len(z), fill), y, z \o fill)
          BY <1>3, <4>2, <5>1, StoreFills
        <5> QED BY <1>2, <5>2
      <4>4. Len(z \o fill) = BlockLength
        <5>1. Len(z \o fill) = Len(z) + Len(fill)
          BY <1>3, <4>2, JoinText
        <5> QED BY <1>2, <1>3, <4>2, <5>1
      <4> HIDE DEF c1
      <4>5. Fills(dtls_sha256_transform(c1, c1.buffer), y \o (z \o fill), <<>>)
        BY <4>3, <4>4, FullFills
      <4>6. (z \o fill) \o r = z \o d
        <5>1. Text(z) /\ Text(fill) /\ Text(r)
          BY <1>3, <4>2
        <5>2. (z \o fill) \o r = z \o (fill \o r)
          BY ONLY <5>1, JoinAgain
        <5> QED BY <4>2, <5>2
      <4> QED BY <3>1, <4>2, <4>5, <4>6
    <3>2. CASE ~(used > 0)
      <4>1. used = 0 /\ Len(z) = 0
        BY <1>2, <1>3, <3>2
      <4>2. z = <<>>
        BY <1>3, <4>1, EmptyText
      <4>3. fill = <<>> /\ Text(fill) /\ r = d
        BY <1>4, <1>6, <1>7, <3>2, EmptyText
      <4> HIDE DEF r, fill
      <4>4. Fills(Store(c, Len(z), <<>>), y, z \o <<>>)
        <5>1. Len(z) + Len(<<>>) <= BlockLength /\ Text(<<>>)
          BY <1>3, <1>4, <4>1, EmptyText
        <5> QED BY <1>3, <5>1, StoreFills
      <4>5. c2 = Store(c, Len(z), <<>>)
        BY <1>2, <3>2, <4>3
      <4>6. y \o (z \o fill) = y /\ (z \o fill) \o r = z \o d
        BY <1>3, <1>4, <4>2, <4>3, EmptyText
      <4>7. z \o <<>> = <<>>
        BY <1>4, <4>2
      <4> HIDE DEF c2
      <4> QED BY <4>3, <4>4, <4>5, <4>6, <4>7
    <3> QED BY <3>1, <3>2
  <2> HIDE DEF c2, r, fill, used, free
  <2>3. \E y2, z2 : Holds(big, y2, z2) /\ y2 \o z2 = (y \o (z \o fill)) \o r
    <3> DEFINE v == y \o (z \o fill)
    <3>1. Fills(c2, v, <<>>) /\ Text(r)
      BY <2>2
    <3> HIDE DEF v
    <3>2. \E y2, z2 : Holds(RestOf(c2, r), y2, z2) /\ y2 \o z2 = v \o r
      BY ONLY <3>1, RestHolds
    <3> QED BY <3>2 DEF v
  <2>4. (y \o (z \o fill)) \o r = y \o ((z \o fill) \o r)
    <3>1. Text(z \o fill)
      BY <1>3, <2>2, JoinText
    <3>2. Text(y) /\ Text(z \o fill) /\ Text(r)
      BY <1>3, <2>2, <3>1
    <3> QED BY ONLY <3>2, JoinAgain
  <2>5. (y \o (z \o fill)) \o r = (y \o z) \o d
    BY <1>8, <2>2, <2>4
  <2> HIDE DEF big
  <2> QED BY <2>1, <2>3, <2>5
<1> QED BY <1>9, <1>10

-----------------------------------------------------------------------------
(* The padding *)

LEMMA JoinFour ==
    ASSUME NEW y, NEW z, NEW a, NEW b, Text(y), Text(z), Text(a), Text(b)
    PROVE  /\ ((y \o z) \o a) \o b = y \o ((z \o a) \o b)
           /\ ((y \o z) \o a) \o b = (y \o z) \o (a \o b)
           /\ Text(z \o a) /\ Text((z \o a) \o b) /\ Text(y \o z) /\ Text((y \o z) \o a)
<1>1. Text(z \o a) /\ Text(y \o z)
  BY JoinText
<1>2. Text((z \o a) \o b) /\ Text((y \o z) \o a)
  BY <1>1, JoinText
<1>3. (y \o z) \o a = y \o (z \o a)
  BY JoinAgain
<1>4. (y \o (z \o a)) \o b = y \o ((z \o a) \o b)
  <2> DEFINE v == z \o a
  <2>1. Text(y) /\ Text(v) /\ Text(b)
    BY <1>1
  <2> HIDE DEF v
  <2>2. (y \o v) \o b = y \o (v \o b)
    BY ONLY <2>1, JoinAgain
  <2> QED BY <2>2 DEF v
<1>5. ((y \o z) \o a) \o b = (y \o z) \o (a \o b)
  <2> DEFINE v == y \o z
  <2>1. Text(v) /\ Text(a) /\ Text(b)
    BY <1>1
  <2> HIDE DEF v
  <2>2. (v \o a) \o b = v \o (a \o b)
    BY ONLY <2>1, JoinAgain
  <2> QED BY <2>2 DEF v
<1> QED BY <1>1, <1>2, <1>3, <1>4, <1>5

LEMMA FieldText ==
    ASSUME NEW n
    PROVE  Text(LengthField(n)) /\ Len(LengthField(n)) = BlockLength - ShortLength
<1> DEFINE m == BlockLength - ShortLength
           s == LengthField(n)
<1>1. m \in Nat
  BY HashAssumption
<1>2. DOMAIN s = 1..m /\ s = [i \in 1..m |-> s[i]]
  BY DEF LengthField
<1>3. Text(s) /\ Len(s) = m
  <2> HIDE DEF m, s
  <2> QED BY <1>1, <1>2, MapIsText
<1> QED BY <1>3

LEMMA Sha256Is ==
    ASSUME NEW t, NEW n, Len(t) = n, NEW g, g = (ShortLength - (n + 1)) % BlockLength,
           NEW s, Cut(s, ((t \o <<One>>) \o Zeros(g)) \o LengthField(n), BlockLength)
    PROVE  Sha256(t) = Compressed(s)
<1>1. BlockLength \in Nat \ {0}
  BY HashAssumption
<1> DEFINE w == ((t \o <<One>>) \o Zeros(g)) \o LengthField(n)
<1>2. Cut(s, w, BlockLength)
  OBVIOUS
<1>3. Sha256(t) = Compressed(Pieces(w, BlockLength))
  BY DEF Sha256
<1> HIDE DEF w
<1>4. Pieces(w, BlockLength) = s
  BY <1>1, <1>2, PiecesOfCut
<1> QED BY <1>3, <1>4

LEMMA GapShort ==
    ASSUME NEW k \in Nat, NEW u \in Nat, Short(u + 1)
    PROVE  (ShortLength - (k * BlockLength + u + 1)) % BlockLength = ShortLength - u - 1
<1> DEFINE q == -k
           r == ShortLength - u - 1
           p == k * BlockLength
           a == ShortLength - (p + u + 1)
<1>1. BlockLength \in Nat \ {0} /\ ShortLength \in 1..(BlockLength - 1)
  BY HashAssumption
<1>2. BlockLength * q = -p /\ p \in Int /\ q \in Int
  BY <1>1
<1> HIDE DEF p, q
<1>3. a \in Int /\ r \in 0..(BlockLength - 1) /\ a = (BlockLength * q) + r
  BY <1>1, <1>2 DEF Short
<1> HIDE DEF a, r
<1>4. a % BlockLength = r
  BY <1>1, <1>2, <1>3, Unique
<1> QED BY <1>4 DEF a, r, p

LEMMA GapLong ==
    ASSUME NEW k \in Nat, NEW u \in Nat, ~Short(u + 1), u < BlockLength
    PROVE  (ShortLength - (k * BlockLength + u + 1)) % BlockLength
               = (BlockLength - u - 1) + ShortLength
<1> DEFINE q == -k - 1
           r == (BlockLength - u - 1) + ShortLength
           p == k * BlockLength
           a == ShortLength - (p + u + 1)
<1>1. BlockLength \in Nat \ {0} /\ ShortLength \in 1..(BlockLength - 1)
  BY HashAssumption
<1>2. BlockLength * q = -p - BlockLength /\ p \in Int /\ q \in Int
  BY <1>1
<1> HIDE DEF p, q
<1>3. a \in Int /\ r \in 0..(BlockLength - 1) /\ a = (BlockLength * q) + r
  BY <1>1, <1>2 DEF Short
<1> HIDE DEF a, r
<1>4. a % BlockLength = r
  BY <1>1, <1>2, <1>3, Unique
<1> QED BY <1>4 DEF a, r, p

\* An array whose first text is replaced.
LEMMA BeginsOver ==
    ASSUME NEW a, NEW p, NEW q, NEW b, Text(p), Text(q), Begins(a, p \o q),
           Text(b), Len(b) = Len(p)
    PROVE  Begins(Copy(a, 0, b), b \o q) /\ Len(Copy(a, 0, b)) = Len(a)
<1> DEFINE c == Copy(a, 0, b)
           t == b \o q
           m == Len(b)
           n == Len(q)
<1>1. m \in Nat /\ n \in Nat /\ Len(p) = m
  BY TextLength
<1>2. /\ Len(p \o q) = m + n
      /\ \A i \in 1..n : (p \o q)[m + i] = q[i]
  BY <1>1, JoinText
<1>3. /\ Text(a) /\ Len(a) \in Nat /\ m + n <= Len(a)
      /\ \A i \in 1..n : a[m + i] = q[i]
  <2>1. Text(a) /\ m + n <= Len(a) /\ \A i \in 1..(m + n) : a[i] = (p \o q)[i]
    BY <1>2 DEF Begins
  <2>2. \A i \in 1..n : m + i \in 1..(m + n)
    BY <1>1
  <2> QED BY <1>2, <2>1, <2>2, TextLength
<1>4. /\ Text(t) /\ Len(t) = m + n
      /\ \A i \in 1..m : t[i] = b[i]
      /\ \A i \in 1..n : t[m + i] = q[i]
  BY JoinText
<1>5. /\ Text(c) /\ Len(c) = Len(a)
      /\ \A i \in 1..m : c[i] = b[i]
      /\ \A i \in 1..Len(a) : i > m => c[i] = a[i]
  <2>1. 0 \in Nat /\ 0 + Len(b) <= Len(a)
    BY <1>1, <1>3
  <2>2. /\ Text(c) /\ Len(c) = Len(a)
        /\ \A i \in 1..Len(b) : c[0 + i] = b[i]
        /\ \A i \in 1..Len(a) : i > 0 + Len(b) => c[i] = a[i]
    BY <1>3, <2>1, CopyText
  <2> HIDE DEF c
  <2> QED BY <1>1, <2>2
<1> HIDE DEF c, t, m, n
<1>6. ASSUME NEW i \in 1..(m + n)
      PROVE  c[i] = t[i]
  <2>1. CASE i <= m
    BY <1>1, <1>4, <1>5, <2>1
  <2>2. CASE ~(i <= m)
    <3> DEFINE j == i - m
    <3>1. j \in 1..n /\ i = m + j /\ i \in 1..Len(a) /\ i > m
      BY <1>1, <1>3, <2>2
    <3> HIDE DEF j
    <3> QED BY <1>3, <1>4, <1>5, <3>1
  <2> QED BY <2>1, <2>2
<1>7. Begins(c, t)
  BY <1>1, <1>3, <1>4, <1>5, <1>6 DEF Begins
<1> QED BY <1>5, <1>7 DEF c, t

\* The buffer before the counter is written, when the 1 bit and the counter
\* both fit behind the used bytes.
LEMMA PadShort ==
    ASSUME NEW c, NEW y, NEW z, Holds(c, y, z), Short(Len(z) + 1), NEW e,
           e = IF Len(z) > 0
               THEN PadBuffer([c EXCEPT !.buffer = Copy(@, Len(z), <<One>>)], Len(z) + 1)
               ELSE [c EXCEPT !.buffer =
                        Copy(Copy(@, 0, Zeros(ShortLength)), 0, <<One>>)]
    PROVE  /\ IsCtx(e) /\ e.state = c.state /\ Len(e.buffer) = BlockLength
           /\ Begins(e.buffer, (z \o <<One>>) \o Zeros(ShortLength - Len(z) - 1))
<1> DEFINE u == Len(z)
           g == ShortLength - u - 1
<1>1. /\ IsCtx(c) /\ Begins(c.buffer, z) /\ Len(c.buffer) = BlockLength /\ Text(z)
      /\ u \in Nat /\ u < BlockLength /\ Text(c.buffer)
  BY FillsFacts DEF Holds, Fills
<1>2. /\ BlockLength \in Nat /\ ShortLength \in 1..(BlockLength - 1) /\ g \in Nat
      /\ u + 1 <= ShortLength /\ ShortLength - (u + 1) = g
  BY <1>1, HashAssumption DEF Short
<1>3. Text(<<One>>) /\ Len(<<One>>) = 1
  BY OneText
<1>4. Text(Zeros(g)) /\ Len(Zeros(g)) = g
  BY <1>2, ZerosText
<1>5. Text(z \o <<One>>) /\ Len(z \o <<One>>) = u + 1
  BY <1>1, <1>3, JoinText
<1> DEFINE b1 == Copy(c.buffer, u, <<One>>)
           b2 == Copy(b1, u + 1, Zeros(g))
           d  == [c EXCEPT !.buffer = b1]
<1>6. CASE u > 0
  <2>1. Begins(b1, z \o <<One>>) /\ Len(b1) = BlockLength
    <3>1. Len(z) + Len(<<One>>) <= Len(c.buffer)
      BY <1>1, <1>2, <1>3
    <3> QED BY <1>1, <1>3, <3>1, BeginsCopy
  <2>2. Begins(b2, (z \o <<One>>) \o Zeros(g)) /\ Len(b2) = BlockLength
    <3> DEFINE w == z \o <<One>>
               x == Zeros(g)
    <3>1. Begins(b1, w) /\ Text(x) /\ Len(w) + Len(x) <= Len(b1) /\ Len(w) = u + 1
      BY <1>1, <1>2, <1>4, <1>5, <2>1
    <3> HIDE DEF w, x, b1
    <3>2. Begins(Copy(b1, Len(w), x), w \o x) /\ Len(Copy(b1, Len(w), x)) = Len(b1)
      BY ONLY <3>1, BeginsCopy
    <3> QED BY <2>1, <3>1, <3>2 DEF w, x
  <2>3. IsCtx(d) /\ d.state = c.state /\ d.buffer = b1
    BY <1>1 DEF IsCtx
  <2>4. e = PadBuffer(d, u + 1)
    BY <1>6
  <2>5. PadBuffer(d, u + 1) = [d EXCEPT !.buffer = Copy(@, u + 1, Zeros(ShortLength - (u + 1)))]
    BY DEF PadBuffer
  <2> HIDE DEF d, b1
  <2>6. IsCtx(e) /\ e.state = d.state /\ e.buffer = Copy(d.buffer, u + 1, Zeros(g))
    BY <1>2, <2>3, <2>4, <2>5 DEF IsCtx
  <2> QED BY <2>2, <2>3, <2>6
<1>7. CASE ~(u > 0)
  <2>1. u = 0 /\ z = <<>> /\ g = ShortLength - 1
    BY <1>1, <1>2, <1>7, EmptyText
  <2> DEFINE h == ShortLength - 1
             a1 == Copy(c.buffer, 0, Zeros(ShortLength))
             a2 == Copy(a1, 0, <<One>>)
  <2>2. h \in Nat /\ 1 + h = ShortLength /\ ShortLength \in Nat
    BY <1>2
  <2>3. /\ Text(Zeros(1)) /\ Len(Zeros(1)) = 1 /\ Text(Zeros(h)) /\ Len(Zeros(h)) = h
        /\ Zeros(ShortLength) = Zeros(1) \o Zeros(h)
        /\ Text(Zeros(ShortLength)) /\ Len(Zeros(ShortLength)) = ShortLength
    BY <2>2, ZerosText, ZerosJoin
  <2> HIDE DEF h
  <2>4. Begins(a1, Zeros(1) \o Zeros(h)) /\ Len(a1) = BlockLength
    <3>1. Begins(c.buffer, <<>>) /\ Len(<<>>) = 0 /\ <<>> \o Zeros(ShortLength) = Zeros(ShortLength)
      BY <1>1, <2>3, BeginsNone, EmptyText
    <3>2. Len(<<>>) + Len(Zeros(ShortLength)) <= Len(c.buffer)
      BY <1>1, <1>2, <2>3, <3>1
    <3>3. /\ Begins(Copy(c.buffer, Len(<<>>), Zeros(ShortLength)), <<>> \o Zeros(ShortLength))
          /\ Len(Copy(c.buffer, Len(<<>>), Zeros(ShortLength))) = Len(c.buffer)
      BY <2>3, <3>1, <3>2, BeginsCopy
    <3> QED BY <1>1, <2>3, <3>1, <3>3
  <2> HIDE DEF a1
  <2>5. Begins(a2, <<One>> \o Zeros(h)) /\ Len(a2) = BlockLength
    <3>1. Len(<<One>>) = Len(Zeros(1))
      BY <1>3, <2>3
    <3>2. Text(Zeros(1)) /\ Text(Zeros(h)) /\ Text(<<One>>)
      BY <1>3, <2>3
    <3>3. Begins(a1, Zeros(1) \o Zeros(h))
      BY <2>4
    <3>4. Begins(Copy(a1, 0, <<One>>), <<One>> \o Zeros(h)) /\ Len(Copy(a1, 0, <<One>>)) = Len(a1)
      BY ONLY <3>1, <3>2, <3>3, BeginsOver
    <3> QED BY <2>4, <3>4
  <2>6. e = [c EXCEPT !.buffer = Copy(Copy(@, 0, Zeros(ShortLength)), 0, <<One>>)]
    BY <1>7
  <2>7. IsCtx(e) /\ e.state = c.state /\ e.buffer = a2
    BY <1>1, <2>6 DEF IsCtx, a1
  <2>8. <<>> \o <<One>> = <<One>> /\ g = h
    BY <1>3, <2>1, EmptyText DEF h
  <2> QED BY <2>1, <2>5, <2>7, <2>8
<1> QED BY <1>6, <1>7

\* The same when the counter needs a block of its own.
LEMMA PadLong ==
    ASSUME NEW c, NEW y, NEW z, Holds(c, y, z), ~Short(Len(z) + 1), NEW e,
           e = PadBuffer([c EXCEPT !.buffer = Copy(@, Len(z), <<One>>)], Len(z) + 1)
    PROVE  /\ IsCtx(e) /\ Len(e.buffer) = BlockLength
           /\ Cut(e.state, y \o ((z \o <<One>>) \o Zeros(BlockLength - Len(z) - 1)),
                  BlockLength)
           /\ Begins(e.buffer, Zeros(ShortLength))
<1> DEFINE u == Len(z)
           g == BlockLength - u - 1
           b1 == Copy(c.buffer, u, <<One>>)
           b2 == Copy(b1, u + 1, Zeros(g))
           w  == z \o <<One>>
           v  == w \o Zeros(g)
           d  == [c EXCEPT !.buffer = b1]
           c1 == [d EXCEPT !.buffer = Copy(@, u + 1, Zeros(BlockLength - (u + 1)))]
           c2 == dtls_sha256_transform(c1, c1.buffer)
<1>1. /\ IsCtx(c) /\ Begins(c.buffer, z) /\ Len(c.buffer) = BlockLength /\ Text(z)
      /\ u \in Nat /\ u < BlockLength /\ Cut(c.state, y, BlockLength)
  BY FillsFacts DEF Holds, Fills
<1>2. /\ BlockLength \in Nat /\ ShortLength \in 1..(BlockLength - 1) /\ g \in Nat
      /\ BlockLength - (u + 1) = g
  BY <1>1, HashAssumption
<1>3. Text(<<One>>) /\ Len(<<One>>) = 1
  BY OneText
<1>4. Text(Zeros(g)) /\ Len(Zeros(g)) = g
  BY <1>2, ZerosText
<1>5. Text(w) /\ Len(w) = u + 1
  BY <1>1, <1>3, JoinText
<1>6. Text(v) /\ Len(v) = BlockLength
  <2>1. Text(v) /\ Len(v) = Len(w) + Len(Zeros(g))
    <3> HIDE DEF w
    <3> QED BY <1>4, <1>5, JoinText
  <2> QED BY <1>1, <1>2, <1>4, <1>5, <2>1
<1>7. Begins(b1, w) /\ Len(b1) = BlockLength
  <2>1. Len(z) + Len(<<One>>) <= Len(c.buffer)
    BY <1>1, <1>2, <1>3
  <2> QED BY <1>1, <1>3, <2>1, BeginsCopy
<1>8. Begins(b2, v) /\ Len(b2) = BlockLength
  <2> DEFINE x == Zeros(g)
  <2>1. Begins(b1, w) /\ Text(x) /\ Len(w) + Len(x) <= Len(b1) /\ Len(w) = u + 1
    BY <1>1, <1>2, <1>4, <1>5, <1>7
  <2> HIDE DEF w, x, b1
  <2>2. Begins(Copy(b1, Len(w), x), w \o x) /\ Len(Copy(b1, Len(w), x)) = Len(b1)
    BY ONLY <2>1, BeginsCopy
  <2> QED BY <1>7, <2>1, <2>2 DEF x
<1> HIDE DEF v
<1>9. b2 = v
  BY <1>6, <1>8, BeginsAll
<1>10. IsCtx(d) /\ d.state = c.state /\ d.buffer = b1
  <2> HIDE DEF b1
  <2> QED BY <1>1 DEF IsCtx
<1> HIDE DEF b1, d
<1>11. IsCtx(c1) /\ c1.state = c.state /\ c1.buffer = b2
  BY <1>2, <1>10 DEF IsCtx
<1> HIDE DEF c1
<1>12. /\ IsCtx(c2) /\ c2.buffer = Scratch /\ Cut(c2.state, y \o v, BlockLength)
  <2>1. /\ IsCtx(c1) /\ Cut(c1.state, y, BlockLength)
        /\ Text(c1.buffer) /\ Len(c1.buffer) = BlockLength /\ c1.buffer = v
    BY <1>1, <1>6, <1>9, <1>11
  <2> QED BY <2>1, TransformCuts
<1>13. PadBuffer(d, u + 1) = [c2 EXCEPT !.buffer = Copy(@, 0, Zeros(ShortLength))]
  BY DEF PadBuffer, c1
<1>14. e = PadBuffer(d, u + 1)
  BY DEF d, b1
<1> HIDE DEF c2
<1>15. IsCtx(e) /\ e.state = c2.state /\ e.buffer = Copy(c2.buffer, 0, Zeros(ShortLength))
  BY <1>12, <1>13, <1>14 DEF IsCtx
<1>16. Begins(e.buffer, Zeros(ShortLength)) /\ Len(e.buffer) = BlockLength
  <2>1. ShortLength \in Nat /\ Text(Zeros(ShortLength)) /\ Len(Zeros(ShortLength)) = ShortLength
    BY <1>2, ZerosText
  <2>2. /\ Begins(Scratch, <<>>) /\ Len(<<>>) = 0
        /\ <<>> \o Zeros(ShortLength) = Zeros(ShortLength)
    BY <2>1, BeginsNone, ScratchText, EmptyText
  <2>3. Len(<<>>) + Len(Zeros(ShortLength)) <= Len(Scratch)
    BY <1>2, <2>1, <2>2, ScratchText
  <2>4. /\ Begins(Copy(Scratch, Len(<<>>), Zeros(ShortLength)), <<>> \o Zeros(ShortLength))
        /\ Len(Copy(Scratch, Len(<<>>), Zeros(ShortLength))) = Len(Scratch)
    BY <2>1, <2>2, <2>3, BeginsCopy
  <2> QED BY <1>12, <1>15, <2>2, <2>4, ScratchText
<1> QED BY <1>12, <1>15, <1>16 DEF v

\* The last block: the counter behind the text p in the buffer.
LEMMA LastBlock ==
    ASSUME NEW e, NEW p, IsCtx(e), Begins(e.buffer, p), Len(e.buffer) = BlockLength,
           Len(p) = ShortLength, NEW n, NEW x, Cut(e.state, x, BlockLength)
    PROVE  Cut(dtls_sha256_transform(e, Copy(e.buffer, ShortLength, LengthField(n))).state,
               x \o (p \o LengthField(n)), BlockLength)
<1> DEFINE l == LengthField(n)
           b == Copy(e.buffer, ShortLength, l)
<1>1. /\ BlockLength \in Nat /\ ShortLength \in 1..(BlockLength - 1)
      /\ Text(l) /\ Len(l) = BlockLength - ShortLength /\ Text(p)
  BY HashAssumption, FieldText DEF Begins
<1>2. Begins(b, p \o l) /\ Len(b) = BlockLength
  <2> HIDE DEF l
  <2>1. Len(p) + Len(l) <= Len(e.buffer)
    BY <1>1
  <2>2. /\ Begins(Copy(e.buffer, Len(p), l), p \o l)
        /\ Len(Copy(e.buffer, Len(p), l)) = Len(e.buffer)
    BY <1>1, <2>1, BeginsCopy
  <2> QED BY <2>2
<1>3. Len(p \o l) = BlockLength
  <2>1. Len(p \o l) = Len(p) + Len(l)
    BY <1>1, JoinText
  <2> QED BY <1>1, <2>1
<1>4. b = p \o l /\ Text(b)
  <2>1. b = p \o l
    BY <1>2, <1>3, BeginsAll
  <2>2. Text(b)
    BY <1>2 DEF Begins
  <2> QED BY <2>1, <2>2
<1> HIDE DEF b
<1>5. Cut(dtls_sha256_transform(e, b).state, x \o b, BlockLength)
  BY <1>2, <1>4, TransformCuts
<1> QED BY <1>4, <1>5 DEF b

\* dtls_sha256_final() pads and counts what the context holds.
LEMMA FinalHolds ==
    ASSUME NEW c, NEW y, NEW z, Holds(c, y, z)
    PROVE  dtls_sha256_final(c) = Sha256(y \o z)
<1> DEFINE u == Len(z)
           k == Len(c.state)
           n == c.count
           t == y \o z
           e == IF u > 0
                THEN PadBuffer([c EXCEPT !.buffer = Copy(@, u, <<One>>)], u + 1)
                ELSE [c EXCEPT !.buffer =
                         Copy(Copy(@, 0, Zeros(ShortLength)), 0, <<One>>)]
           l == LengthField(n)
           s == dtls_sha256_transform(e, Copy(e.buffer, ShortLength, l)).state
           g == (ShortLength - (n + 1)) % BlockLength
<1>1. /\ IsCtx(c) /\ Cut(c.state, y, BlockLength) /\ Text(y) /\ Text(z)
      /\ n = Len(y) + u /\ u \in Nat /\ u < BlockLength /\ k \in Nat /\ Len(y) \in Nat
      /\ Len(y) = k * BlockLength
  BY FillsFacts DEF Holds, Fills
<1>2. Usedspace(c) = u
  BY HoldsUsed
<1>3. dtls_sha256_final(c) = Compressed(s)
  BY <1>2 DEF dtls_sha256_final
<1>4. /\ BlockLength \in Nat \ {0} /\ ShortLength \in 1..(BlockLength - 1)
      /\ Text(<<One>>) /\ Len(<<One>>) = 1 /\ Text(l)
  BY HashAssumption, OneText, FieldText
<1>5. Text(t) /\ Len(t) = n /\ n = k * BlockLength + u
  <2>1. Text(t) /\ Len(t) = Len(y) + Len(z)
    BY <1>1, JoinText
  <2> QED BY <1>1, <2>1
<1> SUFFICES Cut(s, ((t \o <<One>>) \o Zeros(g)) \o l, BlockLength)
  <2> DEFINE w == ((t \o <<One>>) \o Zeros(g)) \o l
  <2>1. ASSUME Cut(s, w, BlockLength) PROVE Sha256(t) = Compressed(s)
    <3>1. g = (ShortLength - (n + 1)) % BlockLength /\ Len(t) = n
      BY <1>5
    <3>2. Cut(s, ((t \o <<One>>) \o Zeros(g)) \o LengthField(n), BlockLength)
      BY <2>1
    <3> HIDE DEF g, t, n, s
    <3> QED BY ONLY <3>1, <3>2, Sha256Is
  <2> HIDE DEF s
  <2> QED BY <1>3, <2>1
<1>6. CASE Short(u + 1)
  <2> DEFINE h == ShortLength - u - 1
             p == (z \o <<One>>) \o Zeros(h)
  <2>1. h \in Nat /\ u + 1 + h = ShortLength
    BY <1>1, <1>4, <1>6 DEF Short
  <2>2. g = h
    BY <1>1, <1>5, <1>6, GapShort
  <2>3. /\ IsCtx(e) /\ e.state = c.state /\ Len(e.buffer) = BlockLength
        /\ Begins(e.buffer, p)
    <3>1. e = IF Len(z) > 0
              THEN PadBuffer([c EXCEPT !.buffer = Copy(@, Len(z), <<One>>)], Len(z) + 1)
              ELSE [c EXCEPT !.buffer = Copy(Copy(@, 0, Zeros(ShortLength)), 0, <<One>>)]
      OBVIOUS
    <3>2. Holds(c, y, z) /\ Short(Len(z) + 1)
      BY <1>6
    <3> HIDE DEF e
    <3> QED BY ONLY <3>1, <3>2, PadShort
  <2> HIDE DEF h, e, l, g
  <2>4. Text(Zeros(h)) /\ Len(Zeros(h)) = h
    BY <2>1, ZerosText
  <2>5. Text(z \o <<One>>) /\ Len(z \o <<One>>) = u + 1
    BY <1>1, <1>4, JoinText
  <2>6. Text(p) /\ Len(p) = ShortLength
    <3>1. Text(p) /\ Len(p) = Len(z \o <<One>>) + Len(Zeros(h))
      BY <2>4, <2>5, JoinText
    <3> QED BY <1>1, <2>1, <2>4, <2>5, <3>1
  <2>7. ((t \o <<One>>) \o Zeros(h)) \o l = y \o (p \o l)
    <3>1. ((y \o z) \o <<One>>) \o Zeros(h) = y \o p
      <4> DEFINE a == <<One>>
                 b == Zeros(h)
      <4>1. Text(y) /\ Text(z) /\ Text(a) /\ Text(b)
        BY <1>1, <1>4, <2>4
      <4> HIDE DEF a, b
      <4>2. ((y \o z) \o a) \o b = y \o ((z \o a) \o b)
        BY ONLY <4>1, JoinFour
      <4> QED BY <4>2 DEF a, b
    <3>2. (y \o p) \o l = y \o (p \o l)
      <4>1. Text(y) /\ Text(p) /\ Text(l)
        BY <1>1, <1>4, <2>6
      <4> HIDE DEF p
      <4> QED BY ONLY <4>1, JoinAgain
    <3> QED BY <3>1, <3>2
  <2>8. Cut(s, y \o (p \o l), BlockLength)
    <3>1. Cut(e.state, y, BlockLength)
      BY <1>1, <2>3
    <3> HIDE DEF p
    <3> QED BY <2>3, <2>6, <3>1, LastBlock DEF l
  <2> HIDE DEF t, s, p
  <2> QED BY <2>2, <2>7, <2>8
<1>7. CASE ~Short(u + 1)
  <2> DEFINE h == BlockLength - u - 1
             v == (z \o <<One>>) \o Zeros(h)
             p == Zeros(ShortLength)
  <2>1. u > 0 /\ h \in Nat
    BY <1>1, <1>4, <1>7 DEF Short
  <2>2. g = h + ShortLength
    BY <1>1, <1>5, <1>7, GapLong
  <2>3. e = PadBuffer([c EXCEPT !.buffer = Copy(@, u, <<One>>)], u + 1)
    BY <2>1
  <2>4. /\ IsCtx(e) /\ Len(e.buffer) = BlockLength
        /\ Cut(e.state, y \o v, BlockLength) /\ Begins(e.buffer, p)
    <3>1. e = PadBuffer([c EXCEPT !.buffer = Copy(@, Len(z), <<One>>)], Len(z) + 1)
      BY <2>3
    <3>2. Holds(c, y, z) /\ ~Short(Len(z) + 1)
      BY <1>7
    <3> HIDE DEF e
    <3> QED BY ONLY <3>1, <3>2, PadLong
  <2> HIDE DEF h, e, l, g
  <2>5. /\ Text(Zeros(h)) /\ Text(p) /\ Len(p) = ShortLength
        /\ Zeros(g) = Zeros(h) \o p
    <3>1. h \in Nat /\ ShortLength \in Nat
      BY <1>4, <2>1
    <3>2. Zeros(h) \o Zeros(ShortLength) = Zeros(h + ShortLength)
      BY ONLY <3>1, ZerosJoin
    <3>3. /\ Text(Zeros(h)) /\ Text(Zeros(ShortLength))
          /\ Len(Zeros(ShortLength)) = ShortLength
      BY ONLY <3>1, ZerosText
    <3> QED BY <2>2, <3>2, <3>3
  <2> HIDE DEF p
  <2>6. ((t \o <<One>>) \o Zeros(g)) \o l = (y \o v) \o (p \o l)
    <3>1. Text(t \o <<One>>)
      BY <1>4, <1>5, JoinText
    <3>2. /\ ((y \o z) \o <<One>>) \o Zeros(h) = y \o v /\ Text(v)
      <4> DEFINE a == <<One>>
                 b == Zeros(h)
      <4>1. Text(y) /\ Text(z) /\ Text(a) /\ Text(b)
        BY <1>1, <1>4, <2>5
      <4> HIDE DEF a, b
      <4>2. ((y \o z) \o a) \o b = y \o ((z \o a) \o b)
        BY ONLY <4>1, JoinFour
      <4>3. Text((z \o a) \o b)
        BY ONLY <4>1, JoinText
      <4> QED BY <4>2, <4>3 DEF a, b
    <3> HIDE DEF t, v
    <3>3. (t \o <<One>>) \o Zeros(g) = ((t \o <<One>>) \o Zeros(h)) \o p
      <4>1. Text(t \o <<One>>) /\ Text(Zeros(h)) /\ Text(p)
        BY <2>5, <3>1
      <4> DEFINE a == t \o <<One>>
                 b == Zeros(h)
      <4>2. Text(a) /\ Text(b) /\ Text(p)
        BY <4>1
      <4> HIDE DEF a, b
      <4>3. (a \o b) \o p = a \o (b \o p)
        BY ONLY <4>2, JoinAgain
      <4> QED BY <2>5, <4>3 DEF a, b
    <3>4. (t \o <<One>>) \o Zeros(g) = (y \o v) \o p
      BY <3>2, <3>3 DEF t
    <3>5. ((y \o v) \o p) \o l = (y \o v) \o (p \o l)
      <4> DEFINE a == y \o v
      <4>1. Text(y) /\ Text(v)
        BY <1>1, <3>2
      <4>2. Text(a)
        BY <4>1, JoinText
      <4>3. Text(p) /\ Text(l)
        BY <1>4, <2>5
      <4> HIDE DEF a
      <4>4. (a \o p) \o l = a \o (p \o l)
        BY ONLY <4>2, <4>3, JoinAgain
      <4> QED BY <4>4 DEF a
    <3> QED BY <3>4, <3>5
  <2>7. Cut(s, (y \o v) \o (p \o l), BlockLength)
    <3> DEFINE x == y \o v
    <3>1. Cut(e.state, x, BlockLength)
      BY <2>4
    <3> HIDE DEF x
    <3>2. Cut(s, x \o (p \o l), BlockLength)
      BY <2>4, <2>5, <3>1, LastBlock DEF l
    <3> QED BY <3>2 DEF x
  <2> HIDE DEF t, s, v
  <2> QED BY <2>6, <2>7
<1> QED BY <1>6, <1>7

-----------------------------------------------------------------------------
(* The transcript hash is the stream *)

LEMMA FreshText ==
    ASSUME NEW kind, NEW first, NEW n \in Nat
    PROVE  Text(Fresh(kind, first, n)) /\ Len(Fresh(kind, first, n)) = n
<1> DEFINE s == Fresh(kind, first, n)
<1>1. DOMAIN s = 1..n /\ s = [i \in 1..n |-> s[i]]
  BY DEF Fresh
<1>2. Text(s) /\ Len(s) = n
  <2> HIDE DEF s
  <2> QED BY <1>1, MapIsText
<1> QED BY <1>2

\* Every context the code reaches has swallowed whole blocks and keeps the
\* rest of its text at the beginning of its buffer.
Good(c) == \E y, z : Holds(c, y, z)

LEMMA InitGood == Good(dtls_sha256_init) /\ Absorbed(dtls_sha256_init) = <<>>
<1>1. Holds(dtls_sha256_init, <<>>, <<>>)
  BY InitHolds
<1>2. Absorbed(dtls_sha256_init) = <<>> \o <<>> /\ <<>> \o <<>> = <<>>
  BY <1>1, HoldsUsed, EmptyText
<1> QED BY <1>1, <1>2 DEF Good

LEMMA GoodFacts ==
    ASSUME NEW c, Good(c)
    PROVE  /\ Text(Absorbed(c)) /\ Len(Absorbed(c)) = c.count
           /\ dtls_sha256_final(c) = Sha256(Absorbed(c))
<1>1. PICK y, z : Holds(c, y, z)
  BY DEF Good
<1>2. Absorbed(c) = y \o z
  BY <1>1, HoldsUsed
<1>3. Text(y) /\ Text(z) /\ c.count = Len(y) + Len(z)
  BY <1>1, FillsFacts DEF Holds, Fills
<1>4. Text(y \o z) /\ Len(y \o z) = Len(y) + Len(z)
  BY <1>3, JoinText
<1>5. dtls_sha256_final(c) = Sha256(y \o z)
  BY <1>1, FinalHolds
<1> QED BY <1>2, <1>3, <1>4, <1>5

LEMMA UpdateGood ==
    ASSUME NEW c, Good(c), NEW d, Text(d)
    PROVE  /\ Good(dtls_sha256_update(c, d))
           /\ Absorbed(dtls_sha256_update(c, d)) = Absorbed(c) \o d
<1> DEFINE e == dtls_sha256_update(c, d)
<1>1. PICK y, z : Holds(c, y, z)
  BY DEF Good
<1>2. Absorbed(c) = y \o z
  BY <1>1, HoldsUsed
<1>3. \E y2, z2 : Holds(e, y2, z2) /\ y2 \o z2 = (y \o z) \o d
  BY <1>1, UpdateHolds
<1> HIDE DEF e
<1>4. PICK y2, z2 : Holds(e, y2, z2) /\ y2 \o z2 = (y \o z) \o d
  BY <1>3
<1>5. Absorbed(e) = y2 \o z2
  BY <1>4, HoldsUsed
<1>6. Good(e) /\ Absorbed(e) = Absorbed(c) \o d
  BY <1>2, <1>4, <1>5 DEF Good
<1> QED BY <1>6 DEF e

TranscriptGood == Good(hs_hash)

\* Every step keeps the transcript's context good and is a step of the stream.
LEMMA StreamStep ==
    ASSUME TranscriptGood, [PrimNext]_primvars
    PROVE  TranscriptGood' /\ [Stream!Next]_(Stream!hashvars)
<1>1. Good(hs_hash)
  BY DEF TranscriptGood
<1> SUFFICES Good(hs_hash') /\ [Stream!Next]_(Stream!hashvars)
  BY DEF TranscriptGood
<1>2. Stream!hashvars = <<Absorbed(hs_hash), hs_digest>>
  BY DEF Stream!hashvars
<1>3. CASE check_finished
  <2>1. hs_digest' = Sha256(Absorbed(hs_hash)) /\ hs_hash' = hs_hash
    BY <1>1, <1>3, GoodFacts DEF check_finished
  <2>2. Stream!Digest
    BY <2>1 DEF Stream!Digest, Absorbed, Usedspace
  <2> QED BY <1>1, <2>1, <2>2 DEF Stream!Next
<1>4. CASE clear_hs_hash
  <2>1. hs_hash' = dtls_sha256_init /\ hs_digest' = hs_digest
    BY <1>4 DEF clear_hs_hash
  <2>2. Good(hs_hash') /\ Absorbed(hs_hash)' = <<>>
    <3>1. Absorbed(hs_hash)' = Absorbed(hs_hash')
      BY DEF Absorbed, Usedspace
    <3> QED BY <2>1, <3>1, InitGood
  <2>3. Stream!Clear
    BY <2>1, <2>2 DEF Stream!Clear
  <2> QED BY <2>2, <2>3 DEF Stream!Next
<1>5. ASSUME NEW n \in ChunkSizes, update_hs_hash(n)
      PROVE  Good(hs_hash') /\ Stream!Next
  <2> DEFINE d == Fresh("m", hs_hash.count, n)
  <2>1. hs_hash' = dtls_sha256_update(hs_hash, d) /\ hs_digest' = hs_digest
    BY <1>5 DEF update_hs_hash
  <2>2. Text(d)
    <3>1. n \in Nat
      BY HashAssumption
    <3> QED BY <3>1, FreshText
  <2>3. d = NextBytes(Absorbed(hs_hash), n)
    BY <1>1, GoodFacts DEF NextBytes
  <2> HIDE DEF d
  <2>4. Good(hs_hash') /\ Absorbed(hs_hash') = Absorbed(hs_hash) \o d
    BY <1>1, <2>1, <2>2, UpdateGood
  <2>5. Absorbed(hs_hash)' = Absorbed(hs_hash')
    BY DEF Absorbed, Usedspace
  <2>6. Stream!Update(n)
    BY <2>1, <2>3, <2>4, <2>5 DEF Stream!Update
  <2> QED BY <2>4, <2>6 DEF Stream!Next
<1>6. CASE UNCHANGED sha2vars
  <2>1. hs_hash' = hs_hash /\ hs_digest' = hs_digest
    BY <1>6 DEF sha2vars
  <2>2. Absorbed(hs_hash)' = Absorbed(hs_hash)
    BY <2>1 DEF Absorbed, Usedspace
  <2>3. UNCHANGED Stream!hashvars
    BY <2>1, <2>2 DEF Stream!hashvars
  <2> QED BY <1>1, <2>1, <2>3
<1>7. Sha2Next \/ UNCHANGED sha2vars
  BY DEF PrimNext, primvars
<1> QED BY <1>3, <1>4, <1>5, <1>6, <1>7 DEF Sha2Next

\* The buffered SHA-256 behind the transcript (update_hs_hash(), clear_hs_hash()
\* and the digest check_finished() takes of a copy) is the hash of all the bytes
\* it was given, for every length of a block, of the counter and of the inputs.
THEOREM TranscriptIsStream == PrimSpec => ImplementsStream
<1>1. PrimInit => TranscriptGood /\ Stream!Init
  <2> SUFFICES ASSUME PrimInit PROVE TranscriptGood /\ Stream!Init
    OBVIOUS
  <2>1. hs_hash = dtls_sha256_init /\ hs_digest = <<>>
    BY DEF PrimInit, Sha2Init
  <2>2. Good(hs_hash) /\ Absorbed(hs_hash) = <<>>
    BY <2>1, InitGood
  <2> QED BY <2>1, <2>2 DEF TranscriptGood, Stream!Init
<1>2. TranscriptGood /\ [PrimNext]_primvars
          => TranscriptGood' /\ [Stream!Next]_(Stream!hashvars)
  BY StreamStep
<1> QED BY <1>1, <1>2, PTL DEF PrimSpec, ImplementsStream, Stream!Spec

-----------------------------------------------------------------------------
(* HMAC *)

LEMMA DigestText ==
    ASSUME NEW t
    PROVE  Text(Sha256(t)) /\ Len(Sha256(t)) = DigestLength
<1>1. ASSUME NEW s
      PROVE  Text(Compressed(s)) /\ Len(Compressed(s)) = DigestLength
  <2> DEFINE c == Compressed(s)
  <2>1. DigestLength \in Nat /\ DOMAIN c = 1..DigestLength /\ c = [i \in 1..DigestLength |-> c[i]]
    BY HashAssumption DEF Compressed
  <2>2. Text(c) /\ Len(c) = DigestLength
    <3> HIDE DEF c
    <3> QED BY <2>1, MapIsText
  <2> QED BY <2>2
<1> QED BY <1>1 DEF Sha256

\* A new context that is given two texts.
LEMMA HashTwo ==
    ASSUME NEW s, NEW t, Text(s), Text(t)
    PROVE  dtls_sha256_final(dtls_sha256_update(dtls_sha256_update(dtls_sha256_init, s), t))
               = Sha256(s \o t)
<1> DEFINE a == dtls_sha256_init
           b == dtls_sha256_update(a, s)
           c == dtls_sha256_update(b, t)
<1>1. Good(a) /\ Absorbed(a) = <<>> /\ <<>> \o s = s
  BY InitGood, EmptyText
<1> HIDE DEF a
<1>2. Good(b) /\ Absorbed(b) = s
  BY <1>1, UpdateGood
<1> HIDE DEF b
<1>3. Good(c) /\ Absorbed(c) = s \o t
  BY <1>2, UpdateGood
<1> HIDE DEF c
<1>4. dtls_sha256_final(c) = Sha256(s \o t)
  BY <1>3, GoodFacts
<1> QED BY <1>4 DEF a, b, c

LEMMA HashIs ==
    ASSUME NEW t, Text(t)
    PROVE  Hash(t) = Sha256(t)
<1>1. Good(dtls_sha256_init) /\ Absorbed(dtls_sha256_init) = <<>> /\ <<>> \o t = t
  BY InitGood, EmptyText
<1>2. /\ Good(dtls_sha256_update(dtls_sha256_init, t))
      /\ Absorbed(dtls_sha256_update(dtls_sha256_init, t)) = t
  BY <1>1, UpdateGood
<1> QED BY <1>2, GoodFacts DEF Hash

LEMMA XorCancels ==
    ASSUME NEW p, NEW a, NEW b
    PROVE  Xor(Xor(p, a), Xor(a, b)) = Xor(p, b)
BY DEF Xor

\* The key of dtls_hmac_init(), hashed if it is long, in a block of zeros.
LEMMA PadIsPadded ==
    ASSUME NEW key, Text(key)
    PROVE  /\ Copy(Zeros(BlockLength), 0, IF LongKey(key) THEN Hash(key) ELSE key) = Padded(key)
           /\ Text(Padded(key)) /\ Len(Padded(key)) = BlockLength
<1> DEFINE k == IF Len(key) > BlockLength THEN Sha256(key) ELSE key
           n == BlockLength - Len(k)
           a == Zeros(BlockLength)
           b == Copy(a, 0, k)
<1>1. (IF LongKey(key) THEN Hash(key) ELSE key) = k
  BY HashIs DEF LongKey
<1>2. Padded(key) = k \o Zeros(n)
  BY DEF Padded
<1>3. /\ BlockLength \in Nat /\ Text(k) /\ Len(k) \in Nat /\ Len(k) <= BlockLength
  <2>1. Len(key) \in Nat /\ BlockLength \in Nat /\ DigestLength \in 1..BlockLength
    BY TextLength, HashAssumption
  <2> QED BY <2>1, DigestText
<1> HIDE DEF k
<1>4. n \in Nat /\ Len(k) + n = BlockLength
  BY <1>3
<1>5. /\ Text(a) /\ Len(a) = BlockLength
      /\ Text(Zeros(Len(k))) /\ Len(Zeros(Len(k))) = Len(k)
      /\ Text(Zeros(n)) /\ Len(Zeros(n)) = n
  <2> HIDE DEF n
  <2> QED BY <1>3, <1>4, ZerosText
<1>6. Zeros(Len(k)) \o Zeros(n) = a
  <2> HIDE DEF n
  <2> QED BY <1>3, <1>4, ZerosJoin
<1>7. Begins(a, a)
  BY <1>3, <1>5 DEF Begins
<1> HIDE DEF a
<1>8. Begins(b, k \o Zeros(n)) /\ Len(b) = Len(a)
  <2> DEFINE p == Zeros(Len(k))
             q == Zeros(n)
  <2>1. Text(p) /\ Text(q) /\ Begins(a, p \o q) /\ Text(k) /\ Len(k) = Len(p)
    BY <1>3, <1>5, <1>6, <1>7
  <2> HIDE DEF p, q
  <2>2. Begins(Copy(a, 0, k), k \o q) /\ Len(Copy(a, 0, k)) = Len(a)
    BY ONLY <2>1, BeginsOver
  <2> QED BY <2>2 DEF q
<1>9. Text(k \o Zeros(n)) /\ Len(k \o Zeros(n)) = BlockLength
  <2> DEFINE q == Zeros(n)
  <2>1. Text(k) /\ Text(q) /\ Len(q) = n
    BY <1>3, <1>5
  <2> HIDE DEF q, n
  <2>2. Text(k \o q) /\ Len(k \o q) = Len(k) + Len(q)
    BY ONLY <2>1, JoinText
  <2> QED BY <1>4, <2>1, <2>2 DEF q
<1>10. b = k \o Zeros(n)
  BY <1>5, <1>8, <1>9, BeginsAll
<1> HIDE DEF n
<1> QED BY <1>1, <1>2, <1>9, <1>10 DEF a, b

LEMMA KeyText ==
    ASSUME NEW key, Text(key), NEW byte
    PROVE  /\ Text(KeyXor(key, byte)) /\ Len(KeyXor(key, byte)) = BlockLength
           /\ XorAll(Padded(key), byte) = KeyXor(key, byte)
<1> DEFINE s == KeyXor(key, byte)
<1>1. BlockLength \in Nat /\ DOMAIN Padded(key) = 1..BlockLength
  BY HashAssumption, PadIsPadded, TextLength
<1>2. DOMAIN s = 1..BlockLength /\ s = [i \in 1..BlockLength |-> s[i]]
  BY DEF KeyXor
<1>3. Text(s) /\ Len(s) = BlockLength
  <2> HIDE DEF s
  <2> QED BY <1>1, <1>2, MapIsText
<1>4. XorAll(Padded(key), byte) = s
  BY <1>1 DEF XorAll, KeyXor
<1> QED BY <1>3, <1>4

\* The context h of an HMAC was given the key and, since, the text.
Keyed(h, key, text) ==
    /\ DOMAIN h = {"data", "pad"} /\ Text(key) /\ Text(text)
    /\ Good(h.data) /\ Absorbed(h.data) = KeyXor(key, IpadByte) \o text
    /\ h.pad = KeyXor(key, OpadByte)

LEMMA InitKeyed ==
    ASSUME NEW key, Text(key)
    PROVE  Keyed(dtls_hmac_init(key), key, <<>>)
<1> DEFINE ipad == KeyXor(key, IpadByte)
           h == dtls_hmac_init(key)
           c == dtls_sha256_update(dtls_sha256_init, ipad)
<1>1. /\ XorAll(Padded(key), IpadByte) = ipad
      /\ Copy(Zeros(BlockLength), 0, IF LongKey(key) THEN Hash(key) ELSE key) = Padded(key)
      /\ Text(ipad) /\ BlockLength \in Nat
  BY PadIsPadded, KeyText, HashAssumption
<1>2. h = [data |-> c, pad |-> XorAll(ipad, Xor(IpadByte, OpadByte))]
  BY <1>1 DEF dtls_hmac_init
<1>3. XorAll(ipad, Xor(IpadByte, OpadByte)) = KeyXor(key, OpadByte)
  <2>1. DOMAIN ipad = 1..BlockLength
    BY DEF KeyXor
  <2>2. \A i \in 1..BlockLength : ipad[i] = Xor(Padded(key)[i], IpadByte)
    BY DEF KeyXor
  <2> HIDE DEF ipad
  <2>3. \A i \in 1..BlockLength : Xor(ipad[i], Xor(IpadByte, OpadByte)) = Xor(Padded(key)[i], OpadByte)
    BY <2>2, XorCancels
  <2> QED BY <2>1, <2>3 DEF XorAll, KeyXor
<1> HIDE DEF h, ipad
<1>4. Good(c) /\ Absorbed(c) = ipad
  <2>1. Good(dtls_sha256_init) /\ Absorbed(dtls_sha256_init) = <<>> /\ <<>> \o ipad = ipad
    BY <1>1, InitGood, EmptyText
  <2> QED BY <1>1, <2>1, UpdateGood
<1> HIDE DEF c
<1>5. ipad \o <<>> = ipad /\ Text(<<>>)
  BY <1>1, EmptyText
<1>6. DOMAIN h = {"data", "pad"} /\ h.data = c /\ h.pad = KeyXor(key, OpadByte)
  BY <1>2, <1>3
<1>7. Keyed(h, key, <<>>)
  BY <1>4, <1>5, <1>6 DEF Keyed, ipad
<1> QED BY <1>7 DEF h

LEMMA UpdateKeyed ==
    ASSUME NEW h, NEW key, NEW text, Keyed(h, key, text), NEW d, Text(d)
    PROVE  Keyed(dtls_hmac_update(h, d), key, text \o d)
<1> DEFINE e == dtls_hmac_update(h, d)
           c == dtls_sha256_update(h.data, d)
           ipad == KeyXor(key, IpadByte)
<1>1. /\ DOMAIN h = {"data", "pad"} /\ Text(key) /\ Text(text) /\ Good(h.data)
      /\ Absorbed(h.data) = ipad \o text /\ h.pad = KeyXor(key, OpadByte) /\ Text(ipad)
  BY KeyText DEF Keyed
<1>2. DOMAIN e = {"data", "pad"} /\ e.data = c /\ e.pad = h.pad
  BY <1>1 DEF dtls_hmac_update
<1>3. Good(c) /\ Absorbed(c) = Absorbed(h.data) \o d
  BY <1>1, UpdateGood
<1> HIDE DEF e, c, ipad
<1>4. (ipad \o text) \o d = ipad \o (text \o d)
  <2>1. Text(ipad) /\ Text(text) /\ Text(d)
    BY <1>1
  <2> QED BY ONLY <2>1, JoinAgain
<1>5. Text(text \o d)
  BY <1>1, JoinText
<1>6. Keyed(e, key, text \o d)
  BY <1>1, <1>2, <1>3, <1>4, <1>5 DEF Keyed, ipad
<1> QED BY <1>6 DEF e

LEMMA FinalKeyed ==
    ASSUME NEW h, NEW key, NEW text, Keyed(h, key, text)
    PROVE  dtls_hmac_finalize(h) = HmacOf(key, text)
<1>1. /\ Good(h.data) /\ Absorbed(h.data) = KeyXor(key, IpadByte) \o text
      /\ h.pad = KeyXor(key, OpadByte) /\ Text(KeyXor(key, OpadByte))
  BY KeyText DEF Keyed
<1> DEFINE inner == Sha256(KeyXor(key, IpadByte) \o text)
<1>2. dtls_sha256_final(h.data) = inner /\ Text(inner)
  BY <1>1, GoodFacts, DigestText
<1> HIDE DEF inner
<1>3. dtls_hmac_finalize(h) = Sha256(h.pad \o inner)
  <2>1. Text(h.pad) /\ Text(inner)
    BY <1>1, <1>2
  <2> QED BY <1>2, <2>1, HashTwo DEF dtls_hmac_finalize
<1> QED BY <1>1, <1>3 DEF HmacOf, inner

\* The context in use was given the key and the text of the history, and a
\* result is there only after a key.
HmacInv ==
    /\ DOMAIN hmacin = {"key", "text"}
    /\ hmac.pad # <<>> => Keyed(hmac, hmacin.key, hmacin.text)
    /\ hmacout # <<>> => hmac.pad # <<>>
    /\ HmacCorrect

LEMMA HmacStep ==
    ASSUME HmacInv, [PrimNext]_primvars
    PROVE  HmacInv'
<1> USE DEF HmacInv
<1>1. ASSUME NEW n \in KeyLengths, NewHmac(n)
      PROVE  HmacInv'
  <2> DEFINE k == Fresh("k", 0, n)
  <2>1. /\ hmac' = dtls_hmac_init(k) /\ hmacin' = [key |-> k, text |-> <<>>]
        /\ hmacout' = hmacout /\ hmac.pad = <<>>
    BY <1>1 DEF NewHmac
  <2>2. Text(k)
    <3>1. n \in Nat
      BY HmacAssumption
    <3> QED BY <3>1, FreshText
  <2> HIDE DEF k
  <2>3. Keyed(hmac', k, <<>>)
    BY <2>1, <2>2, InitKeyed
  <2>4. DOMAIN hmacin' = {"key", "text"} /\ hmacin'.key = k /\ hmacin'.text = <<>>
    BY <2>1
  <2>5. hmacout' = <<>>
    BY <2>1
  <2> QED BY <2>3, <2>4, <2>5 DEF HmacCorrect
<1>2. ASSUME NEW n \in ChunkSizes, UpdateHmac(n)
      PROVE  HmacInv'
  <2> DEFINE d == Fresh("m", Len(hmacin.text), n)
  <2>1. /\ hmac.pad # <<>> /\ hmacout = <<>> /\ hmacout' = hmacout
        /\ hmac' = dtls_hmac_update(hmac, d)
        /\ hmacin' = [hmacin EXCEPT !.text = @ \o d]
    BY <1>2 DEF UpdateHmac
  <2>2. Text(d)
    <3>1. n \in Nat
      BY HashAssumption
    <3> QED BY <3>1, FreshText
  <2> HIDE DEF d
  <2>3. /\ DOMAIN hmacin' = {"key", "text"} /\ hmacin'.key = hmacin.key
        /\ hmacin'.text = hmacin.text \o d
    BY <2>1
  <2>4. Keyed(hmac', hmacin.key, hmacin.text \o d)
    BY <2>1, <2>2, UpdateKeyed
  <2>5. hmacout' = <<>>
    BY <2>1
  <2> QED BY <2>3, <2>4, <2>5 DEF HmacCorrect
<1>3. CASE FinalizeHmac
  <2>1. /\ hmac.pad # <<>> /\ hmacout' = dtls_hmac_finalize(hmac)
        /\ hmac' = hmac /\ hmacin' = hmacin
    BY <1>3 DEF FinalizeHmac
  <2>2. hmacout' = HmacOf(hmacin.key, hmacin.text)
    BY <2>1, FinalKeyed
  <2> QED BY <2>1, <2>2 DEF HmacCorrect
<1>4. CASE UNCHANGED <<hmac, hmacin, hmacout>>
  BY <1>4 DEF HmacCorrect
<1>5. HmacNext \/ UNCHANGED <<hmac, hmacin, hmacout>>
  BY DEF PrimNext, primvars, hmacvars, PrfNext, StartPrf, LoopPrf, LastPrf
<1> QED BY <1>1, <1>2, <1>3, <1>4, <1>5 DEF HmacNext

\* An HMAC of dtls-hmac.c is that of RFC 2104, for every length of the key and
\* however dtls_hmac_update() is called.
THEOREM HmacIsCorrect == PrimSpec => []HmacCorrect
<1>1. PrimInit => HmacInv
  BY DEF PrimInit, HmacInit, HmacInv, HmacCorrect
<1>2. HmacInv /\ [PrimNext]_primvars => HmacInv'
  BY HmacStep
<1>3. HmacInv => HmacCorrect
  BY DEF HmacInv
<1> QED BY <1>1, <1>2, <1>3, PTL DEF PrimSpec

-----------------------------------------------------------------------------
(* The PRF *)

LEMMA PiecesJoin ==
    ASSUME NEW n \in Nat \ {0}, NEW s, Text(s),
           \A k \in 1..Len(s) : Text(s[k]) /\ Len(s[k]) = n
    PROVE  \E y : Cut(s, y, n)
<1> DEFINE m == Len(s)
           l == m * n
           y == [j \in 1..l |-> s[((j - 1) \div n) + 1][((j - 1) % n) + 1]]
<1>1. m \in Nat /\ l \in Nat
  BY TextLength
<1>2. DOMAIN y = 1..l /\ y = [j \in 1..l |-> y[j]]
  OBVIOUS
<1>3. Text(y) /\ Len(y) = l
  <2> HIDE DEF y, l
  <2> QED BY <1>1, <1>2, MapIsText
<1>4. ASSUME NEW k \in 1..m, NEW j \in 1..n
      PROVE  y[(k - 1) * n + j] = s[k][j]
  <2> DEFINE q == k - 1
             r == j - 1
             i == q * n + j
             a == i - 1
  <2>1. q * n \in Nat /\ q * n + n <= l
    BY <1>1, Within
  <2>2. q \in Int /\ r \in 0..(n - 1) /\ n * q = q * n
    BY <1>1
  <2>3. i \in 1..l
    <3> HIDE DEF q, l
    <3> QED BY <1>1, <2>1
  <2>4. a = (n * q) + r /\ a \in Int
    <3> HIDE DEF q, l
    <3> QED BY <2>1, <2>2
  <2>5. a \div n = q /\ a % n = r
    <3> HIDE DEF q, r, i, a
    <3> QED BY <2>2, <2>4, Unique
  <2>6. q + 1 = k /\ r + 1 = j
    BY <1>1
  <2>7. y[i] = s[(a \div n) + 1][(a % n) + 1]
    <3> HIDE DEF i, l
    <3> QED BY <2>3
  <2>8. y[i] = s[k][j]
    <3> HIDE DEF q, r, a, i, y
    <3> QED BY <2>5, <2>6, <2>7
  <2> QED BY <2>8
<1> HIDE DEF y
<1>5. Cut(s, y, n)
  BY <1>3, <1>4 DEF Cut
<1> QED BY <1>5

\* A(0), A(1), ..., A(n) of P_hash().
IsChain(f, key, seed, n) ==
    f = [i \in 0..n |-> IF i = 0 THEN seed ELSE HmacOf(key, f[i - 1])]

LEMMA ChainFacts ==
    ASSUME NEW f, NEW key, NEW seed, NEW n \in Nat, IsChain(f, key, seed, n)
    PROVE  f[0] = seed /\ \A i \in 1..n : f[i] = HmacOf(key, f[i - 1])
<1> DEFINE g == [i \in 0..n |-> IF i = 0 THEN seed ELSE HmacOf(key, f[i - 1])]
<1>1. f = g
  BY DEF IsChain
<1>2. g[0] = seed /\ \A i \in 1..n : g[i] = HmacOf(key, f[i - 1])
  OBVIOUS
<1> HIDE DEF g
<1> QED BY <1>1, <1>2

LEMMA ChainExists ==
    ASSUME NEW key, NEW seed, NEW n \in Nat
    PROVE  \E f : IsChain(f, key, seed, n)
<1> DEFINE N == {m \in Nat : ~\E f : IsChain(f, key, seed, m)}
<1> SUFFICES N = {}
  OBVIOUS
<1> SUFFICES ASSUME N # {} PROVE FALSE
  OBVIOUS
<1>1. N \in SUBSET Nat
  OBVIOUS
<1> HIDE DEF N
<1>2. PICK m \in N : \A b \in N : m <= b
  BY <1>1, LeastNumber
<1>3. m \in Nat /\ ~\E f : IsChain(f, key, seed, m)
  BY DEF N
<1>4. m # 0
  <2> DEFINE g == [i \in 0..0 |-> seed]
  <2>1. \A i \in 0..0 : i = 0
    OBVIOUS
  <2>2. g = [i \in 0..0 |-> IF i = 0 THEN seed ELSE HmacOf(key, g[i - 1])]
    BY <2>1
  <2> HIDE DEF g
  <2>3. IsChain(g, key, seed, 0)
    BY <2>2 DEF IsChain
  <2> QED BY <1>3, <2>3
<1>5. m - 1 \in Nat /\ ~(m - 1 \in N)
  BY <1>2, <1>3, <1>4
<1>6. PICK f : IsChain(f, key, seed, m - 1)
  BY <1>5 DEF N
<1> DEFINE g == [i \in 0..m |-> IF i = m THEN HmacOf(key, f[m - 1]) ELSE f[i]]
<1>7. f[0] = seed /\ \A i \in 1..(m - 1) : f[i] = HmacOf(key, f[i - 1])
  BY <1>5, <1>6, ChainFacts
<1>8. ASSUME NEW i \in 0..m
      PROVE  g[i] = IF i = 0 THEN seed ELSE HmacOf(key, g[i - 1])
  <2>1. CASE i = m
    <3>1. i - 1 \in 0..m /\ i - 1 # m /\ i # 0
      BY <1>3, <1>4, <2>1
    <3>2. g[i - 1] = f[i - 1]
      BY <3>1
    <3> QED BY <2>1, <3>1, <3>2
  <2>2. CASE i # m /\ i # 0
    <3>1. i - 1 \in 0..m /\ i - 1 # m /\ i \in 1..(m - 1)
      BY <1>3, <2>2
    <3>2. g[i - 1] = f[i - 1] /\ g[i] = f[i]
      BY <2>2, <3>1
    <3> QED BY <1>7, <2>2, <3>1, <3>2
  <2>3. CASE i = 0
    <3>1. g[i] = f[i]
      BY <1>4, <2>3
    <3> QED BY <1>7, <2>3, <3>1
  <2> QED BY <2>1, <2>2, <2>3
<1>9. g = [i \in 0..m |-> IF i = 0 THEN seed ELSE HmacOf(key, g[i - 1])]
  <2>1. g = [i \in 0..m |-> g[i]]
    OBVIOUS
  <2> HIDE DEF g
  <2> QED BY <1>8, <2>1
<1> HIDE DEF g
<1>10. IsChain(g, key, seed, m)
  BY <1>9 DEF IsChain
<1> QED BY <1>3, <1>10

\* The blocks of P_hash() along the chain f.
Blocks(f, key, seed, n) == [i \in 1..n |-> HmacOf(key, f[i] \o seed)]

LEMMA MacText ==
    ASSUME NEW key, NEW t
    PROVE  Text(HmacOf(key, t)) /\ Len(HmacOf(key, t)) = DigestLength
BY DigestText DEF HmacOf

LEMMA P_hashFacts ==
    ASSUME NEW key, NEW seed, NEW n \in Nat
    PROVE  \E f, y : /\ IsChain(f, key, seed, n)
                     /\ Cut(Blocks(f, key, seed, n), y, DigestLength)
                     /\ P_hash(key, seed, n) = Part(y, 0, n)
<1> DEFINE f == CHOOSE g : IsChain(g, key, seed, n)
           s == Blocks(f, key, seed, n)
<1>1. P_hash(key, seed, n) = Part(FlattenSeq(s), 0, n)
  BY DEF P_hash, IsChain, Blocks
<1>2. IsChain(f, key, seed, n)
  BY ChainExists
<1> HIDE DEF f
<1>3. DOMAIN s = 1..n /\ s = [i \in 1..n |-> s[i]]
  BY DEF Blocks
<1>4. \A k \in 1..n : Text(s[k]) /\ Len(s[k]) = DigestLength
  BY MacText DEF Blocks
<1>5. Text(s) /\ Len(s) = n
  <2> HIDE DEF s
  <2> QED BY <1>3, MapIsText
<1>6. DigestLength \in Nat \ {0}
  BY HashAssumption
<1> HIDE DEF s
<1>7. \E y : Cut(s, y, DigestLength)
  BY <1>4, <1>5, <1>6, PiecesJoin
<1>8. PICK y : Cut(s, y, DigestLength)
  BY <1>7
<1>9. FlattenSeq(s) = y
  BY <1>6, <1>8, FlattenCut
<1> QED BY <1>1, <1>2, <1>8, <1>9 DEF s

LEMMA SeedText ==
    ASSUME NEW p, p.seed \in Nat
    PROVE  Text(Seed(p)) /\ Text(PrfKey)
BY FreshText DEF Seed, PrfKey

\* The HMACs of one turn of the loop.
LEMMA TurnMacs ==
    ASSUME NEW p, p.seed \in Nat, Text(p.A)
    PROVE  /\ Block(p) = HmacOf(PrfKey, p.A \o Seed(p))
           /\ NextA(p) = HmacOf(PrfKey, p.A)
<1> DEFINE h == dtls_hmac_init(PrfKey)
           g == dtls_hmac_update(h, p.A)
<1>1. Text(PrfKey) /\ Text(Seed(p)) /\ <<>> \o p.A = p.A
  BY SeedText, EmptyText
<1>2. Keyed(h, PrfKey, <<>>)
  BY <1>1, InitKeyed
<1> HIDE DEF h
<1>3. Keyed(g, PrfKey, p.A)
  BY <1>1, <1>2, UpdateKeyed
<1> HIDE DEF g
<1>4. Keyed(dtls_hmac_update(g, Seed(p)), PrfKey, p.A \o Seed(p))
  BY <1>1, <1>3, UpdateKeyed
<1>5. dtls_hmac_finalize(dtls_hmac_update(g, Seed(p))) = HmacOf(PrfKey, p.A \o Seed(p))
  BY <1>4, FinalKeyed
<1>6. dtls_hmac_finalize(g) = HmacOf(PrfKey, p.A)
  BY <1>3, FinalKeyed
<1> QED BY <1>5, <1>6 DEF Block, NextA, g, h

LEMMA FirstA ==
    ASSUME NEW p, p.seed \in Nat
    PROVE  dtls_hmac_finalize(dtls_hmac_update(dtls_hmac_init(PrfKey), Seed(p)))
               = HmacOf(PrfKey, Seed(p))
<1> DEFINE h == dtls_hmac_init(PrfKey)
<1>1. Text(PrfKey) /\ Text(Seed(p)) /\ <<>> \o Seed(p) = Seed(p)
  BY SeedText, EmptyText
<1>2. Keyed(h, PrfKey, <<>>)
  BY <1>1, InitKeyed
<1> HIDE DEF h
<1>3. Keyed(dtls_hmac_update(h, Seed(p)), PrfKey, Seed(p))
  BY <1>1, <1>2, UpdateKeyed
<1>4. dtls_hmac_finalize(dtls_hmac_update(h, Seed(p))) = HmacOf(PrfKey, Seed(p))
  BY <1>3, FinalKeyed
<1> QED BY <1>4 DEF h

\* f, y and k: the chain, the whole output, and the blocks the buffer has.
Turn(p, f, y, k) ==
    /\ IsChain(f, PrfKey, Seed(p), p.n)
    /\ Cut(Blocks(f, PrfKey, Seed(p), p.n), y, DigestLength)
    /\ P_hash(PrfKey, Seed(p), p.n) = Part(y, 0, p.n)
    /\ k \in Nat /\ p.len = k * DigestLength /\ (k # 0 => p.len < p.n)
    /\ k < p.n => p.A = f[k + 1]
    /\ \A j \in 1..p.len : p.buf[j] = y[j]

Looping(p) ==
    /\ p.n \in Nat /\ p.seed \in Nat /\ Text(p.A) /\ Text(p.buf) /\ Len(p.buf) = p.n
    /\ \E f, y, k : Turn(p, f, y, k)

PrfFields == {"pc", "n", "seed", "A", "len", "buf", "contexts", "ret"}

PrfInv ==
    /\ DOMAIN prf = PrfFields
    /\ prf.pc = "loop" => Looping(prf) /\ prf.contexts = 2
    /\ PrfComplete

\* Before the first turn.
LEMMA StartLooping ==
    ASSUME NEW p, p.n \in Nat, p.seed \in Nat, p.buf = Zeros(p.n), p.len = 0,
           p.A = HmacOf(PrfKey, Seed(p))
    PROVE  Looping(p)
<1>1. /\ Text(p.A) /\ Text(p.buf) /\ Len(p.buf) = p.n
      /\ DigestLength \in Nat /\ 0 = 0 * DigestLength
  BY MacText, ZerosText, HashAssumption
<1>2. PICK f, y :
        /\ IsChain(f, PrfKey, Seed(p), p.n)
        /\ Cut(Blocks(f, PrfKey, Seed(p), p.n), y, DigestLength)
        /\ P_hash(PrfKey, Seed(p), p.n) = Part(y, 0, p.n)
  BY P_hashFacts
<1>3. f[0] = Seed(p) /\ \A i \in 1..p.n : f[i] = HmacOf(PrfKey, f[i - 1])
  BY <1>2, ChainFacts
<1>4. 0 < p.n => p.A = f[0 + 1]
  <2> SUFFICES ASSUME 0 < p.n PROVE p.A = f[0 + 1]
    OBVIOUS
  <2>1. 1 \in 1..p.n /\ 1 - 1 = 0 /\ 0 + 1 = 1
    OBVIOUS
  <2>2. f[1] = HmacOf(PrfKey, f[0])
    BY <1>3, <2>1
  <2> QED BY <1>3, <2>1, <2>2
<1>5. Turn(p, f, y, 0)
  BY <1>1, <1>2, <1>4 DEF Turn
<1> QED BY <1>1, <1>5 DEF Looping

\* What one turn adds to the buffer.
LEMMA TurnFacts ==
    ASSUME NEW p, p.n \in Nat, p.seed \in Nat, Text(p.A), NEW f, NEW y, NEW k,
           Turn(p, f, y, k)
    PROVE  /\ Text(Block(p)) /\ Len(Block(p)) = DigestLength
           /\ p.len \in Nat /\ (k < p.n \/ p.n = 0) /\ p.len <= p.n
           /\ Text(y) /\ Len(y) \in Nat /\ p.n <= Len(y)
           /\ p.n # 0 => \A i \in 1..DigestLength : Block(p)[i] = y[p.len + i]
<1>1. Block(p) = HmacOf(PrfKey, p.A \o Seed(p))
  BY TurnMacs
<1>2. Text(Block(p)) /\ Len(Block(p)) = DigestLength
  BY <1>1, MacText
<1> DEFINE s == Blocks(f, PrfKey, Seed(p), p.n)
           D == DigestLength
           n == p.n
           l == k * D
<1>3. D \in Nat \ {0} /\ k \in Nat /\ p.len = l /\ l \in Nat /\ n \in Nat
  BY HashAssumption DEF Turn
<1>4. l >= k
  <2> HIDE DEF D
  <2>1. D >= 1
    BY <1>3
  <2> DEFINE e == D - 1
  <2>2. e \in Nat /\ D = e + 1
    BY <1>3
  <2> HIDE DEF e
  <2>3. k * D = k * e + k /\ k * e \in Nat
    BY <1>3, <2>2
  <2> QED BY <1>3, <2>3
<1>5. (k < n \/ n = 0) /\ l <= n
  <2>1. k # 0 => l < n
    BY <1>3 DEF Turn
  <2>2. k = 0 => l = 0
    BY <1>3
  <2> HIDE DEF l
  <2> QED BY <1>3, <1>4, <2>1, <2>2
<1>6. Len(s) = n /\ Text(y) /\ Len(y) = n * D
  <2>1. DOMAIN s = 1..n /\ s = [i \in 1..n |-> s[i]]
    BY DEF Blocks
  <2>2. Len(s) = n
    <3> HIDE DEF s
    <3> QED BY <1>3, <2>1, MapIsText
  <2>3. Cut(s, y, D)
    BY DEF Turn
  <2> HIDE DEF s
  <2> QED BY <2>2, <2>3 DEF Cut
<1>7. n * D \in Nat /\ n <= n * D
  <2> DEFINE e == D - 1
  <2>1. e \in Nat /\ D = e + 1
    BY <1>3
  <2> HIDE DEF e, D, n
  <2>2. n * D = n * e + n /\ n * e \in Nat
    BY <1>3, <2>1
  <2> QED BY <1>3, <2>2
<1>8. ASSUME n # 0, NEW i \in 1..D
      PROVE  Block(p)[i] = y[l + i]
  <2>1. k < n /\ k + 1 \in 1..n /\ (k + 1) - 1 = k
    BY <1>3, <1>5, <1>8
  <2>2. s[k + 1] = HmacOf(PrfKey, f[k + 1] \o Seed(p))
    BY <2>1 DEF Blocks
  <2>3. p.A = f[k + 1]
    BY <2>1 DEF Turn
  <2>4. Block(p) = s[k + 1]
    BY <1>1, <2>2, <2>3
  <2>5. Cut(s, y, D)
    BY DEF Turn
  <2> HIDE DEF s
  <2> DEFINE m == k + 1
  <2>6. \A j \in 1..D : y[(m - 1) * D + j] = s[m][j]
    <3>1. m \in 1..Len(s)
      BY <1>6, <2>1
    <3> HIDE DEF m, D
    <3> QED BY <2>5, <3>1 DEF Cut
  <2>7. m - 1 = k
    BY <1>3
  <2> HIDE DEF m, D
  <2>8. y[l + i] = s[m][i]
    BY <1>8, <2>6, <2>7
  <2> QED BY <2>4, <2>8 DEF m
<1> QED BY <1>2, <1>3, <1>5, <1>6, <1>7, <1>8

\* Bytes k+1 .. of the output behind the first ones.
LEMMA CopyAgrees ==
    ASSUME NEW buf, NEW y, NEW len \in Nat, NEW b, Text(buf), Text(b),
           len + Len(b) <= Len(buf), \A j \in 1..len : buf[j] = y[j],
           \A i \in 1..Len(b) : b[i] = y[len + i]
    PROVE  /\ Text(Copy(buf, len, b)) /\ Len(Copy(buf, len, b)) = Len(buf)
           /\ \A j \in 1..(len + Len(b)) : Copy(buf, len, b)[j] = y[j]
<1> DEFINE c == Copy(buf, len, b)
           m == Len(b)
<1>1. m \in Nat /\ Len(buf) \in Nat
  BY TextLength
<1>2. /\ Text(c) /\ Len(c) = Len(buf)
      /\ \A i \in 1..len : c[i] = buf[i]
      /\ \A i \in 1..m : c[len + i] = b[i]
  BY CopyText
<1> HIDE DEF c
<1>3. \A i \in 1..m : b[i] = y[len + i]
  OBVIOUS
<1> HIDE DEF m
<1>4. ASSUME NEW j \in 1..(len + m)
      PROVE  c[j] = y[j]
  <2>1. CASE j <= len
    BY <1>1, <1>2, <2>1
  <2>2. CASE ~(j <= len)
    <3> DEFINE i == j - len
    <3>1. i \in 1..m /\ j = len + i
      BY <1>1, <2>2
    <3> HIDE DEF i
    <3> QED BY <1>2, <1>3, <3>1
  <2> QED BY <2>1, <2>2
<1> QED BY <1>2, <1>4 DEF c, m

LEMMA NextTurn ==
    ASSUME NEW p, Looping(p), MoreBlocks(p), NEW q, q.n = p.n, q.seed = p.seed,
           q.buf = Copy(p.buf, p.len, Block(p)), q.len = p.len + DigestLength,
           q.A = NextA(p)
    PROVE  Looping(q)
<1>1. PICK f, y, k : Turn(p, f, y, k)
  BY DEF Looping
<1>2. p.n \in Nat /\ p.seed \in Nat /\ Text(p.A) /\ Text(p.buf) /\ Len(p.buf) = p.n
  BY DEF Looping
<1>3. /\ IsChain(f, PrfKey, Seed(p), p.n)
      /\ Cut(Blocks(f, PrfKey, Seed(p), p.n), y, DigestLength)
      /\ P_hash(PrfKey, Seed(p), p.n) = Part(y, 0, p.n)
      /\ k \in Nat /\ p.len = k * DigestLength
      /\ k < p.n => p.A = f[k + 1]
      /\ \A j \in 1..p.len : p.buf[j] = y[j]
  BY <1>1 DEF Turn
<1>4. /\ Text(Block(p)) /\ Len(Block(p)) = DigestLength
      /\ p.len \in Nat /\ (k < p.n \/ p.n = 0) /\ p.len <= p.n
      /\ p.n # 0 => \A i \in 1..DigestLength : Block(p)[i] = y[p.len + i]
  BY <1>1, <1>2, TurnFacts
<1>5. DigestLength \in Nat \ {0} /\ p.len + DigestLength < p.n
  BY HashAssumption DEF MoreBlocks
<1>6. p.n # 0
  BY <1>2, <1>4, <1>5
<1>7. /\ Text(q.buf) /\ Len(q.buf) = p.n
      /\ \A j \in 1..(p.len + DigestLength) : q.buf[j] = y[j]
  <2> DEFINE b == Block(p)
             len == p.len
             buf == p.buf
  <2>1. /\ Text(buf) /\ Text(b) /\ len \in Nat /\ len + Len(b) <= Len(buf)
        /\ Len(b) = DigestLength
    BY <1>2, <1>4, <1>5
  <2>2. (\A j \in 1..len : buf[j] = y[j]) /\ \A i \in 1..Len(b) : b[i] = y[len + i]
    BY <1>3, <1>4, <1>6
  <2> HIDE DEF b, len, buf
  <2>3. /\ Text(Copy(buf, len, b)) /\ Len(Copy(buf, len, b)) = Len(buf)
        /\ \A j \in 1..(len + Len(b)) : Copy(buf, len, b)[j] = y[j]
    <3>1. /\ Text(buf) /\ Text(b) /\ len \in Nat /\ len + Len(b) <= Len(buf)
      BY <2>1
    <3>2. \A j \in 1..len : buf[j] = y[j]
      BY <2>2
    <3>3. \A i \in 1..Len(b) : b[i] = y[len + i]
      BY <2>2
    <3> QED BY ONLY <3>1, <3>2, <3>3, CopyAgrees
  <2> QED BY <1>2, <2>1, <2>3 DEF b, len, buf
<1>8. k < p.n
  BY <1>4, <1>6
<1>9. NextA(p) = HmacOf(PrfKey, f[k + 1])
  BY <1>2, <1>3, <1>8, TurnMacs
<1>10. k + 1 < p.n => q.A = f[(k + 1) + 1]
  <2> SUFFICES ASSUME k + 1 < p.n PROVE q.A = f[(k + 1) + 1]
    OBVIOUS
  <2>1. \A i \in 1..p.n : f[i] = HmacOf(PrfKey, f[i - 1])
    BY <1>2, <1>3, ChainFacts
  <2>2. (k + 1) + 1 \in 1..p.n /\ ((k + 1) + 1) - 1 = k + 1
    BY <1>2, <1>3
  <2>3. f[(k + 1) + 1] = HmacOf(PrfKey, f[((k + 1) + 1) - 1])
    BY <2>1, <2>2
  <2> QED BY <1>9, <2>2, <2>3
<1>11. q.len = (k + 1) * DigestLength /\ k + 1 \in Nat
  <2>1. (k + 1) * DigestLength = k * DigestLength + DigestLength
    BY <1>3, <1>5
  <2> QED BY <1>3, <2>1
<1>12. Seed(q) = Seed(p)
  BY DEF Seed
<1>13. q.len < q.n /\ \A j \in 1..q.len : q.buf[j] = y[j]
  BY <1>5, <1>7
<1>14. Turn(q, f, y, k + 1)
  BY <1>3, <1>10, <1>11, <1>12, <1>13 DEF Turn
<1>15. Text(q.A)
  BY <1>9, MacText
<1> QED BY <1>2, <1>7, <1>14, <1>15 DEF Looping

LEMMA LastTurn ==
    ASSUME NEW p, Looping(p), ~MoreBlocks(p)
    PROVE  Copy(p.buf, p.len, Part(Block(p), 0, p.n - p.len)) = P_hash(PrfKey, Seed(p), p.n)
<1>1. PICK f, y, k : Turn(p, f, y, k)
  BY DEF Looping
<1>2. p.n \in Nat /\ p.seed \in Nat /\ Text(p.A) /\ Text(p.buf) /\ Len(p.buf) = p.n
  BY DEF Looping
<1>3. /\ P_hash(PrfKey, Seed(p), p.n) = Part(y, 0, p.n)
      /\ \A j \in 1..p.len : p.buf[j] = y[j]
  BY <1>1 DEF Turn
<1>4. /\ Text(Block(p)) /\ Len(Block(p)) = DigestLength
      /\ p.len \in Nat /\ p.len <= p.n
      /\ Text(y) /\ Len(y) \in Nat /\ p.n <= Len(y)
      /\ p.n # 0 => \A i \in 1..DigestLength : Block(p)[i] = y[p.len + i]
  BY <1>1, <1>2, TurnFacts
<1>5. DigestLength \in Nat \ {0} /\ ~(p.len + DigestLength < p.n)
  BY HashAssumption DEF MoreBlocks
<1> DEFINE len == p.len
           n == p.n
           m == n - len
           b == Part(Block(p), 0, m)
           buf == p.buf
           c == Copy(buf, len, b)
<1>6. m \in Nat /\ 0 + m <= Len(Block(p)) /\ len + m = n /\ m <= DigestLength
  BY <1>2, <1>4, <1>5
<1>7. Text(b) /\ Len(b) = m /\ \A i \in 1..m : b[i] = Block(p)[0 + i]
  <2> DEFINE d == Block(p)
  <2>1. Text(d) /\ 0 \in Nat /\ m \in Nat /\ 0 + m <= Len(d)
    BY <1>4, <1>6
  <2> HIDE DEF d, m
  <2>2. Text(Part(d, 0, m)) /\ Len(Part(d, 0, m)) = m /\ \A i \in 1..m : Part(d, 0, m)[i] = d[0 + i]
    BY ONLY <2>1, PartText
  <2> QED BY <2>2 DEF d
<1> HIDE DEF b
<1>8. \A i \in 1..m : b[i] = y[len + i]
  <2> SUFFICES ASSUME NEW i \in 1..m PROVE b[i] = y[len + i]
    OBVIOUS
  <2>1. i \in 1..DigestLength /\ n # 0 /\ 0 + i = i
    BY <1>2, <1>4, <1>5, <1>6
  <2> QED BY <1>4, <1>7, <2>1
<1>9. Text(c) /\ Len(c) = n /\ \A j \in 1..n : c[j] = y[j]
  <2>1. /\ Text(buf) /\ Text(b) /\ len \in Nat /\ len + Len(b) <= Len(buf)
        /\ Len(b) = m /\ len + m = n /\ Len(buf) = n
    BY <1>2, <1>4, <1>6, <1>7
  <2>2. (\A j \in 1..len : buf[j] = y[j]) /\ \A i \in 1..Len(b) : b[i] = y[len + i]
    BY <1>3, <1>7, <1>8
  <2> HIDE DEF len, buf, m, n
  <2>3. /\ Text(Copy(buf, len, b)) /\ Len(Copy(buf, len, b)) = Len(buf)
        /\ \A j \in 1..(len + Len(b)) : Copy(buf, len, b)[j] = y[j]
    BY <2>1, <2>2, CopyAgrees
  <2> QED BY <2>1, <2>3
<1>10. Text(Part(y, 0, n)) /\ Len(Part(y, 0, n)) = n /\ \A j \in 1..n : Part(y, 0, n)[j] = y[0 + j]
  <2>1. Text(y) /\ 0 \in Nat /\ n \in Nat /\ 0 + n <= Len(y)
    BY <1>2, <1>4
  <2> HIDE DEF n
  <2> QED BY ONLY <2>1, PartText
<1> HIDE DEF c
<1>11. c = Part(y, 0, n)
  <2> DEFINE w == Part(y, 0, n)
  <2>1. Text(c) /\ Text(w) /\ Len(c) = Len(w) /\ Len(c) = n /\ \A j \in 1..n : c[j] = w[j]
    BY <1>2, <1>9, <1>10
  <2> HIDE DEF w
  <2>2. c = w
    BY <2>1, SameText
  <2> QED BY <2>2 DEF w
<1> QED BY <1>3, <1>11 DEF c, b

LEMMA PrfStep ==
    ASSUME PrfInv, [PrimNext]_primvars
    PROVE  PrfInv'
<1>1. /\ DOMAIN prf = PrfFields /\ PrfComplete
      /\ prf.pc = "loop" => Looping(prf) /\ prf.contexts = 2
  BY DEF PrfInv
<1>2. ASSUME NEW n \in PrfLengths, NEW seed \in ChunkSizes, StartPrf(n, seed)
      PROVE  PrfInv'
  <2> DEFINE p == [NoPrf EXCEPT !.n = n, !.seed = seed, !.buf = Zeros(n)]
             a1 == dtls_hmac_finalize(dtls_hmac_update(dtls_hmac_init(PrfKey), Seed(p)))
  <2>1. n \in Nat /\ seed \in Nat
    BY HmacAssumption, HashAssumption
  <2>2. /\ DOMAIN p = PrfFields /\ p.n = n /\ p.seed = seed /\ p.buf = Zeros(n)
        /\ p.len = 0 /\ p.contexts = 0
    BY DEF NoPrf, PrfFields
  <2>3. \/ prf' = Return(p, 0)
        \/ prf' = Return([p EXCEPT !.A = a1, !.contexts = 1], n)
        \/ prf' = [p EXCEPT !.pc = "loop", !.A = a1, !.contexts = 2]
    BY <1>2 DEF StartPrf
  <2>4. a1 = HmacOf(PrfKey, Seed(p))
    BY <2>1, <2>2, FirstA
  <2> HIDE DEF p, a1
  <2>5. ASSUME NEW q, NEW r, prf' = Return(q, r), q.contexts # 2,
               DOMAIN q = PrfFields, q.n = n, q.buf = Zeros(n)
        PROVE  PrfInv'
    <3>1. /\ DOMAIN prf' = PrfFields /\ prf'.pc = "done" /\ prf'.n = n
          /\ prf'.buf = Zeros(n) /\ prf'.contexts # 2
      BY ONLY <2>5, SMTT(60) DEF Return, PrfFields
    <3> QED BY ONLY <3>1, SMTT(60) DEF PrfInv, PrfComplete
  <2>8. CASE prf' = Return(p, 0)
    BY <2>2, <2>5, <2>8
  <2>9. CASE prf' = Return([p EXCEPT !.A = a1, !.contexts = 1], n)
    <3> DEFINE q == [p EXCEPT !.A = a1, !.contexts = 1]
    <3>1. /\ q.contexts # 2 /\ DOMAIN q = PrfFields /\ q.n = n /\ q.buf = Zeros(n)
      BY ONLY <2>2, SMTT(60) DEF PrfFields
    <3>2. prf' = Return(q, n)
      BY <2>9
    <3> HIDE DEF q
    <3> QED BY <2>5, <3>1, <3>2
  <2>6. CASE prf' = [p EXCEPT !.pc = "loop", !.A = a1, !.contexts = 2]
    <3>1. /\ DOMAIN prf' = PrfFields /\ prf'.pc = "loop" /\ prf'.n = n /\ prf'.seed = seed
          /\ prf'.buf = Zeros(n) /\ prf'.len = 0 /\ prf'.A = a1 /\ prf'.contexts = 2
      BY <2>2, <2>6 DEF PrfFields
    <3>2. Seed(prf') = Seed(p)
      BY <2>2, <3>1 DEF Seed
    <3>3. Looping(prf')
      BY <2>1, <2>4, <3>1, <3>2, StartLooping
    <3> QED BY <3>1, <3>3 DEF PrfInv, PrfComplete
  <2> QED BY <2>3, <2>6, <2>8, <2>9
<1>3. CASE LoopPrf
  <2>1. /\ prf.pc = "loop" /\ MoreBlocks(prf)
        /\ prf' = [prf EXCEPT !.buf = Copy(@, prf.len, Block(prf)),
                              !.len = @ + DigestLength, !.A = NextA(prf)]
    BY <1>3 DEF LoopPrf
  <2>2. /\ DOMAIN prf' = PrfFields /\ prf'.pc = "loop" /\ prf'.n = prf.n
        /\ prf'.seed = prf.seed /\ prf'.buf = Copy(prf.buf, prf.len, Block(prf))
        /\ prf'.len = prf.len + DigestLength /\ prf'.A = NextA(prf)
        /\ prf'.contexts = 2
    BY <1>1, <2>1, SMTT(60) DEF PrfFields
  <2>3. Looping(prf')
    BY <1>1, <2>1, <2>2, NextTurn
  <2> QED BY <2>2, <2>3 DEF PrfInv, PrfComplete
<1>4. CASE LastPrf
  <2> DEFINE b == Copy(prf.buf, prf.len, Part(Block(prf), 0, prf.n - prf.len))
  <2>1. /\ prf.pc = "loop" /\ ~MoreBlocks(prf)
        /\ prf' = Return([prf EXCEPT
               !.buf = Copy(@, prf.len, Part(Block(prf), 0, prf.n - prf.len))],
               prf.n)
    BY <1>4 DEF LastPrf
  <2>2. /\ DOMAIN prf' = PrfFields /\ prf'.pc = "done" /\ prf'.n = prf.n
        /\ prf'.seed = prf.seed /\ prf'.buf = b /\ prf'.ret = prf'.n
        /\ prf'.contexts = 2
    BY <1>1, <2>1, SMTT(60) DEF PrfFields, Return
  <2>3. b = P_hash(PrfKey, Seed(prf), prf.n)
    BY <1>1, <2>1, LastTurn
  <2>4. Seed(prf') = Seed(prf)
    BY <2>2 DEF Seed
  <2> HIDE DEF b
  <2>5. PrfComplete'
    BY ONLY <2>2, <2>3, <2>4, SMTT(60) DEF PrfComplete
  <2> QED BY ONLY <2>2, <2>5, SMTT(60) DEF PrfInv
<1>5. CASE UNCHANGED prf
  BY <1>1, <1>5 DEF PrfInv, PrfComplete
<1>6. PrfNext \/ UNCHANGED prf
  BY DEF PrimNext, primvars, hmacvars, HmacNext, NewHmac, UpdateHmac, FinalizeHmac
<1> QED BY <1>2, <1>3, <1>4, <1>5, <1>6 DEF PrfNext

\* dtls_prf() fills its buffer with exactly the P_hash() of RFC 5246 and returns
\* its length, or leaves it at zero when it did not get both contexts, for every
\* length of output and of digest.
THEOREM PrfIsComplete == PrimSpec => []PrfComplete
<1>1. PrimInit => PrfInv
  BY DEF PrimInit, HmacInit, PrfInv, PrfFields, NoPrf, PrfComplete
<1>2. PrfInv /\ [PrimNext]_primvars => PrfInv'
  BY PrfStep
<1>3. PrfInv => PrfComplete
  BY DEF PrfInv
<1> QED BY <1>1, <1>2, <1>3, PTL DEF PrimSpec


-----------------------------------------------------------------------------
(* CCM: the laws of exclusive or, and AES as a term *)

LEMMA XorAgain ==
    /\ \A a, b : Xor(Xor(a, b), b) = a /\ Xor(a, b) = Xor(b, a)
    /\ \A a : Xor(a, Zero) = a /\ Xor(Zero, a) = a
BY DEF Xor, Zero

LEMMA XorText ==
    ASSUME NEW a, Text(a), NEW b, Text(b), Len(a) <= Len(b)
    PROVE  /\ Text(XorBytes(a, b)) /\ Len(XorBytes(a, b)) = Len(a)
           /\ \A i \in 1..Len(a) : XorBytes(a, b)[i] = Xor(a[i], b[i])
<1> DEFINE s == XorBytes(a, b)
           n == Len(a)
<1>1. n \in Nat /\ DOMAIN a = 1..n /\ Len(b) \in Nat /\ DOMAIN b = 1..Len(b)
  BY TextLength
<1>2. s = [i \in 1..n |-> IF i \in 1..Len(b) THEN Xor(a[i], b[i]) ELSE a[i]]
  BY <1>1 DEF XorBytes
<1>3. \A i \in 1..n : i \in 1..Len(b)
  BY <1>1
<1>4. DOMAIN s = 1..n /\ s = [i \in 1..n |-> s[i]] /\ \A i \in 1..n : s[i] = Xor(a[i], b[i])
  BY <1>2, <1>3
<1> HIDE DEF s, n
<1>5. Text(s) /\ Len(s) = n
  BY <1>1, <1>4, MapIsText
<1> QED BY <1>4, <1>5 DEF s, n

LEMMA BlockSize == CcmBlock \in Nat \ {0} /\ CcmBlock >= 2 /\ M \in Nat /\ 1 <= M /\ M <= CcmBlock
BY CcmAssumption

LEMMA AesText ==
    ASSUME NEW x
    PROVE  /\ Text(Aes(x)) /\ Len(Aes(x)) = CcmBlock
           /\ \A i \in 1..CcmBlock : Aes(x)[i] = {<<"aes", x, i>>}
<1> DEFINE s == Aes(x)
<1>1. /\ DOMAIN s = 1..CcmBlock /\ s = [i \in 1..CcmBlock |-> s[i]]
      /\ \A i \in 1..CcmBlock : s[i] = {<<"aes", x, i>>}
  BY DEF Aes
<1> HIDE DEF s
<1>2. Text(s) /\ Len(s) = CcmBlock
  BY <1>1, BlockSize, MapIsText
<1> QED BY <1>1, <1>2 DEF s

\* Different blocks have different images.
LEMMA AesTerm ==
    ASSUME NEW x, NEW y, NEW i, {<<"aes", x, i>>} = {<<"aes", y, i>>}
    PROVE  x = y
<1>1. <<"aes", x, i>> = <<"aes", y, i>>
  OBVIOUS
<1> QED BY <1>1

\* No byte of the text s has an image of AES in it.
Aesless(s) == \A i \in 1..Len(s) : \A a \in s[i] : a[1] # "aes"

\* An image of AES plus a byte without one tells both.
LEMMA SplitXor ==
    ASSUME NEW x, \A a \in x : a[1] = "aes", NEW y, \A a \in y : a[1] = "aes",
           NEW b, \A a \in b : a[1] # "aes", NEW c, \A a \in c : a[1] # "aes",
           Xor(x, b) = Xor(y, c)
    PROVE  x = y /\ b = c
<1>1. \A a : a \in Xor(x, b) <=> (a \in x \/ a \in b)
  BY DEF Xor
<1>2. \A a : a \in Xor(y, c) <=> (a \in y \/ a \in c)
  BY DEF Xor
<1>3. \A a : (a \in x <=> a \in y) /\ (a \in b <=> a \in c)
  BY <1>1, <1>2
<1> QED BY <1>3

-----------------------------------------------------------------------------
(* The CBC-MAC as a chain *)

\* The values of CbcMac() after the first n blocks.
Linked(f, b, n) ==
    f = [i \in 0..n |-> IF i = 0 THEN Zeros(CcmBlock) ELSE Aes(XorBytes(f[i - 1], b[i]))]

LEMMA LinkedFacts ==
    ASSUME NEW f, NEW b, NEW n \in Nat, Linked(f, b, n)
    PROVE  /\ f[0] = Zeros(CcmBlock)
           /\ \A i \in 1..n : f[i] = Aes(XorBytes(f[i - 1], b[i]))
           /\ \A i \in 0..n : Text(f[i]) /\ Len(f[i]) = CcmBlock
<1> DEFINE g == [i \in 0..n |-> IF i = 0 THEN Zeros(CcmBlock)
                                ELSE Aes(XorBytes(f[i - 1], b[i]))]
<1>1. f = g
  BY DEF Linked
<1>2. g[0] = Zeros(CcmBlock) /\ \A i \in 1..n : g[i] = Aes(XorBytes(f[i - 1], b[i]))
  OBVIOUS
<1> HIDE DEF g
<1>3. f[0] = Zeros(CcmBlock) /\ \A i \in 1..n : f[i] = Aes(XorBytes(f[i - 1], b[i]))
  BY <1>1, <1>2
<1>4. ASSUME NEW i \in 0..n PROVE Text(f[i]) /\ Len(f[i]) = CcmBlock
  <2>1. CASE i = 0
    BY <1>3, <2>1, ZerosText, BlockSize
  <2>2. CASE i # 0
    <3>1. i \in 1..n
      BY <2>2
    <3> QED BY <1>3, <3>1, AesText
  <2> QED BY <2>1, <2>2
<1> QED BY <1>3, <1>4

LEMMA LinkedExists ==
    ASSUME NEW b, NEW n \in Nat
    PROVE  \E f : Linked(f, b, n)
<1> DEFINE z == Zeros(CcmBlock)
           Next1(x, i) == Aes(XorBytes(x, b[i]))
           N == {m \in Nat : ~\E f : Linked(f, b, m)}
<1> SUFFICES N = {}
  OBVIOUS
<1> SUFFICES ASSUME N # {} PROVE FALSE
  OBVIOUS
<1>1. N \in SUBSET Nat
  OBVIOUS
<1> HIDE DEF N
<1>2. PICK m \in N : \A k \in N : m <= k
  BY <1>1, LeastNumber
<1>3. m \in Nat /\ ~\E f : Linked(f, b, m)
  BY DEF N
<1>4. m # 0
  <2> DEFINE g == [i \in 0..0 |-> z]
  <2>1. \A i \in 0..0 : i = 0
    OBVIOUS
  <2>2. g = [i \in 0..0 |-> IF i = 0 THEN z ELSE Next1(g[i - 1], i)]
    BY <2>1
  <2> HIDE DEF g
  <2>3. Linked(g, b, 0)
    BY <2>2 DEF Linked
  <2> QED BY <1>3, <2>3
<1>5. m - 1 \in Nat /\ ~(m - 1 \in N)
  BY <1>2, <1>3, <1>4
<1>6. PICK f : Linked(f, b, m - 1)
  BY <1>5 DEF N
<1> DEFINE g == [i \in 0..m |-> IF i = m THEN Next1(f[m - 1], m) ELSE f[i]]
<1>7. f[0] = z /\ \A i \in 1..(m - 1) : f[i] = Next1(f[i - 1], i)
  BY <1>5, <1>6, LinkedFacts
<1> HIDE DEF z, Next1
<1>8. ASSUME NEW i \in 0..m
      PROVE  g[i] = IF i = 0 THEN z ELSE Next1(g[i - 1], i)
  <2>1. CASE i = m
    <3>1. i - 1 \in 0..m /\ i - 1 # m /\ i # 0
      BY <1>3, <1>4, <2>1
    <3>2. g[i - 1] = f[i - 1]
      BY <3>1
    <3> QED BY <2>1, <3>1, <3>2
  <2>2. CASE i # m /\ i # 0
    <3>1. i - 1 \in 0..m /\ i - 1 # m /\ i \in 1..(m - 1)
      BY <1>3, <2>2
    <3>2. g[i - 1] = f[i - 1] /\ g[i] = f[i]
      BY <2>2, <3>1
    <3> QED BY <1>7, <2>2, <3>1, <3>2
  <2>3. CASE i = 0
    <3>1. g[i] = f[i]
      BY <1>4, <2>3
    <3> QED BY <1>7, <2>3, <3>1
  <2> QED BY <2>1, <2>2, <2>3
<1>9. g = [i \in 0..m |-> IF i = 0 THEN z ELSE Next1(g[i - 1], i)]
  <2>1. g = [i \in 0..m |-> g[i]]
    OBVIOUS
  <2> HIDE DEF g
  <2> QED BY <1>8, <2>1
<1> HIDE DEF g
<1>10. Linked(g, b, m)
  BY <1>9 DEF Linked, z, Next1
<1> QED BY <1>3, <1>10

LEMMA LinkedOnce ==
    ASSUME NEW b, NEW n \in Nat, NEW f, NEW g, Linked(f, b, n), Linked(g, b, n)
    PROVE  f = g
<1>1. /\ f[0] = Zeros(CcmBlock) /\ g[0] = Zeros(CcmBlock)
      /\ \A i \in 1..n : f[i] = Aes(XorBytes(f[i - 1], b[i]))
      /\ \A i \in 1..n : g[i] = Aes(XorBytes(g[i - 1], b[i]))
  BY LinkedFacts
<1>2. f = [i \in 0..n |-> f[i]] /\ g = [i \in 0..n |-> g[i]]
  BY DEF Linked
<1> DEFINE N == {i \in 0..n : f[i] # g[i]}
<1>3. N = {}
  <2> SUFFICES ASSUME N # {} PROVE FALSE
    OBVIOUS
  <2>1. N \in SUBSET Nat
    OBVIOUS
  <2>2. PICK a \in N : \A k \in N : a <= k
    <3> HIDE DEF N
    <3> QED BY <2>1, LeastNumber
  <2>3. a \in 0..n /\ f[a] # g[a]
    OBVIOUS
  <2>4. a # 0
    BY <1>1, <2>3
  <2>5. a \in 1..n /\ a - 1 \in 0..n /\ ~(a - 1 \in N)
    BY <2>2, <2>3, <2>4
  <2>6. f[a - 1] = g[a - 1]
    BY <2>5
  <2>7. f[a] = Aes(XorBytes(f[a - 1], b[a])) /\ g[a] = Aes(XorBytes(g[a - 1], b[a]))
    BY <1>1, <2>5
  <2> QED BY <2>3, <2>6, <2>7
<1>4. \A i \in 0..n : f[i] = g[i]
  BY <1>3
<1> HIDE DEF N
<1> QED BY <1>2, <1>4

LEMMA CbcMacIs ==
    ASSUME NEW b, Text(b), NEW f, Linked(f, b, Len(b))
    PROVE  CbcMac(b) = f[Len(b)]
<1> DEFINE n == Len(b)
           Rec(g) == g = [i \in 0..n |-> IF i = 0 THEN Zeros(CcmBlock)
                                         ELSE Aes(XorBytes(g[i - 1], b[i]))]
<1>1. n \in Nat
  BY TextLength
<1>2. CbcMac(b) = (CHOOSE g : Rec(g))[n]
  BY DEF CbcMac
<1>3. \A g : Rec(g) <=> Linked(g, b, n)
  BY DEF Linked
<1>4. \A g : Rec(g) => g = f
  <2> HIDE DEF Rec, n
  <2> SUFFICES ASSUME NEW g, Rec(g) PROVE g = f
    OBVIOUS
  <2>1. Linked(g, b, n) /\ Linked(f, b, n)
    BY <1>3 DEF n
  <2> QED BY ONLY <1>1, <2>1, LinkedOnce
<1>5. Rec(f)
  BY <1>3
<1> HIDE DEF Rec
<1>6. (CHOOSE g : Rec(g)) = f
  BY <1>4, <1>5
<1> QED BY <1>2, <1>6


-----------------------------------------------------------------------------
(* CCM: what is authenticated *)

LEMMA CutByte ==
    ASSUME NEW n \in Nat \ {0}, NEW s, NEW y, Cut(s, y, n), NEW i \in 1..Len(y)
    PROVE  \E k \in 1..Len(s), j \in 1..n : i = (k - 1) * n + j /\ y[i] = s[k][j]
<1> DEFINE m == Len(s)
           a == i - 1
           x == a \div n
           r == a % n
           k == x + 1
           j == r + 1
<1>1. /\ m \in Nat /\ Len(y) = m * n /\ i \in Nat /\ i >= 1 /\ i <= m * n
      /\ \A h \in 1..m : \A g \in 1..n : y[(h - 1) * n + g] = s[h][g]
  <2>1. m \in Nat /\ Len(y) = m * n /\ Len(y) \in Nat
    BY TextLength DEF Cut
  <2> QED BY <2>1 DEF Cut
<1>2. a \in Int /\ a >= 0 /\ a < m * n
  <2>1. m * n \in Nat
    BY <1>1
  <2> HIDE DEF m
  <2> QED BY <2>1, <1>1
<1>3. a = (n * x) + r /\ r \in 0..(n - 1) /\ x \in Int
  <2> HIDE DEF a
  <2> QED BY <1>2, DivMod
<1> HIDE DEF m, x, r
<1>4. x >= 0
  <2> SUFFICES ASSUME x <= -1 PROVE FALSE
    BY <1>3
  <2>1. n * x <= -n
    BY <1>3
  <2> QED BY <2>1, <1>2, <1>3
<1>5. x < m
  <2> SUFFICES ASSUME x >= m PROVE FALSE
    BY <1>1, <1>3
  <2> DEFINE d == x - m
  <2>1. d \in Nat /\ x = m + d
    BY <1>1, <1>3
  <2> HIDE DEF d
  <2>2. n * x = m * n + n * d /\ n * d \in Nat
    BY <2>1, <1>1
  <2> QED BY <2>2, <1>1, <1>2, <1>3
<1>6. k \in 1..m /\ j \in 1..n /\ k - 1 = x
  BY <1>1, <1>3, <1>4, <1>5
<1>7. i = (k - 1) * n + j
  BY <1>2, <1>3, <1>6
<1>8. y[(k - 1) * n + j] = s[k][j]
  BY <1>1, <1>6
<1> QED BY <1>6, <1>7, <1>8 DEF m

\* A text padded with zeros to whole blocks.
LEMMA PadBlockFacts ==
    ASSUME NEW s, Text(s)
    PROVE  /\ Text(PadBlock(s))
           /\ \E v \in Nat : /\ Len(PadBlock(s)) = v * CcmBlock
                             /\ Len(s) <= v * CcmBlock /\ v * CcmBlock < Len(s) + CcmBlock
           /\ \A i \in 1..Len(s) : PadBlock(s)[i] = s[i]
           /\ \A i \in 1..Len(PadBlock(s)) : i > Len(s) => PadBlock(s)[i] = Zero
<1> DEFINE n == Len(s)
           a == -n
           x == a \div CcmBlock
           r == a % CcmBlock
           z == Zeros(r)
           v == -x
           t == PadBlock(s)
<1>1. n \in Nat /\ CcmBlock \in Nat \ {0} /\ a \in Int
  BY TextLength, BlockSize
<1>2. a = (CcmBlock * x) + r /\ r \in 0..(CcmBlock - 1) /\ x \in Int
  <2> HIDE DEF a
  <2> QED BY <1>1, DivMod
<1>3. t = s \o z
  BY DEF PadBlock
<1> HIDE DEF x, r, n, t
<1>4. Text(z) /\ Len(z) = r /\ r \in Nat /\ \A i \in 1..r : z[i] = Zero
  BY <1>1, <1>2, ZerosText
<1> HIDE DEF z
<1>5. /\ Text(t) /\ Len(t) = n + r
      /\ \A i \in 1..n : t[i] = s[i]
      /\ \A i \in 1..r : t[n + i] = z[i]
  BY <1>3, <1>4, JoinText DEF n
<1>6. v \in Int /\ n + r = v * CcmBlock
  <2>1. v * CcmBlock = -(CcmBlock * x) /\ v \in Int
    BY <1>1, <1>2
  <2> QED BY <2>1, <1>1, <1>2
<1> HIDE DEF v
<1>7. v \in Nat
  <2> SUFFICES ASSUME v <= -1 PROVE FALSE
    BY <1>6
  <2>1. v * CcmBlock <= -CcmBlock
    BY <1>1, <1>6
  <2> QED BY <2>1, <1>1, <1>4, <1>6
<1>8. n <= v * CcmBlock /\ v * CcmBlock < n + CcmBlock
  BY <1>1, <1>2, <1>6
<1>9. ASSUME NEW i \in 1..Len(t), i > n PROVE t[i] = Zero
  <2> DEFINE k == i - n
  <2>1. k \in 1..r /\ i = n + k
    BY <1>1, <1>4, <1>5, <1>9
  <2> HIDE DEF k
  <2> QED BY <2>1, <1>4, <1>5
<1> QED BY <1>5, <1>6, <1>7, <1>8, <1>9 DEF n, t

LEMMA FreshBytes ==
    ASSUME NEW kind, NEW n \in Nat
    PROVE  /\ Text(Fresh(kind, 0, n)) /\ Len(Fresh(kind, 0, n)) = n
           /\ \A i \in 1..n : Fresh(kind, 0, n)[i] = {<<kind, i>>}
<1>1. \A i \in 1..n : Fresh(kind, 0, n)[i] = {<<kind, 0 + i>>}
  BY DEF Fresh
<1>2. \A i \in 1..n : 0 + i = i
  OBVIOUS
<1> QED BY <1>1, <1>2, FreshText

\* The additional data as CbcMac() takes it: its length first.
AuthText(la) == IF la = 0 THEN <<>> ELSE PadBlock(AadLength(la) \o Aad(la))

LEMMA AuthTextFacts ==
    ASSUME NEW la \in Nat
    PROVE  /\ Text(AuthText(la)) /\ \E u \in Nat : Len(AuthText(la)) = u * CcmBlock
           /\ la = 0 => AuthText(la) = <<>>
           /\ la # 0 =>
                /\ la + 2 <= Len(AuthText(la)) /\ Len(AuthText(la)) < la + 2 + CcmBlock
                /\ \A i \in 1..2 : AuthText(la)[i] = {<<"la", la, i>>}
                /\ \A i \in 1..la : AuthText(la)[2 + i] = {<<"a", i>>}
                /\ \A i \in 1..Len(AuthText(la)) : i > la + 2 => AuthText(la)[i] = Zero
<1>1. CASE la = 0
  <2>1. AuthText(la) = <<>> /\ Len(<<>>) = 0 * CcmBlock /\ 0 \in Nat
    BY <1>1, EmptyText, BlockSize DEF AuthText
  <2>2. \E u \in Nat : Len(AuthText(la)) = u * CcmBlock
    BY <2>1
  <2> QED BY <1>1, <2>1, <2>2, EmptyText
<1>2. CASE la # 0
  <2> DEFINE d == AadLength(la)
             e == Aad(la)
             s == d \o e
             t == AuthText(la)
  <2>1. Text(d) /\ Len(d) = 2 /\ \A i \in 1..2 : d[i] = {<<"la", la, i>>}
    <3>1. DOMAIN d = 1..2 /\ d = [i \in 1..2 |-> d[i]] /\ \A i \in 1..2 : d[i] = {<<"la", la, i>>}
      BY DEF AadLength
    <3> HIDE DEF d
    <3> QED BY <3>1, 2 \in Nat, MapIsText
  <2>2. Text(e) /\ Len(e) = la /\ \A i \in 1..la : e[i] = {<<"a", i>>}
    BY FreshBytes DEF Aad
  <2>3. t = PadBlock(s)
    BY <1>2 DEF AuthText
  <2> HIDE DEF d, e, t
  <2>4. /\ Text(s) /\ Len(s) = 2 + la
        /\ \A i \in 1..2 : s[i] = d[i]
        /\ \A i \in 1..la : s[2 + i] = e[i]
    <3>1. Text(d) /\ Text(e)
      BY <2>1, <2>2
    <3>2. /\ Text(s) /\ Len(s) = Len(d) + Len(e) /\ \A i \in 1..Len(d) : s[i] = d[i]
          /\ \A i \in 1..Len(e) : s[Len(d) + i] = e[i]
      BY ONLY <3>1, JoinText
    <3> HIDE DEF s
    <3> QED BY <3>2, <2>1, <2>2
  <2> HIDE DEF s
  <2>5. /\ Text(t)
        /\ \E v \in Nat : /\ Len(t) = v * CcmBlock
                          /\ Len(s) <= v * CcmBlock /\ v * CcmBlock < Len(s) + CcmBlock
        /\ \A i \in 1..Len(s) : t[i] = s[i]
        /\ \A i \in 1..Len(t) : i > Len(s) => t[i] = Zero
    BY <2>3, <2>4, PadBlockFacts
  <2>6. la + 2 <= Len(t) /\ Len(t) < la + 2 + CcmBlock /\ la + 2 = Len(s)
    BY <2>4, <2>5
  <2>7. \A i \in 1..2 : t[i] = {<<"la", la, i>>}
    BY <2>1, <2>4, <2>5
  <2>8. ASSUME NEW i \in 1..la PROVE t[2 + i] = {<<"a", i>>}
    <3>1. 2 + i \in 1..Len(s)
      BY <2>4
    <3> QED BY <3>1, <2>2, <2>4, <2>5
  <2>9. \E u \in Nat : Len(t) = u * CcmBlock
    BY <2>5
  <2> QED BY <1>2, <2>5, <2>6, <2>7, <2>8, <2>9 DEF t
<1> QED BY <1>1, <1>2

LEMMA AuthAesless ==
    ASSUME NEW la \in Nat
    PROVE  Aesless(AuthText(la))
<1> DEFINE t == AuthText(la)
<1>1. CASE la = 0
  <2>1. Len(t) = 0
    BY <1>1, AuthTextFacts, EmptyText
  <2> QED BY <2>1 DEF Aesless
<1>2. CASE la # 0
  <2>1. /\ \A i \in 1..2 : t[i] = {<<"la", la, i>>}
        /\ \A i \in 1..la : t[2 + i] = {<<"a", i>>}
        /\ \A i \in 1..Len(t) : i > la + 2 => t[i] = Zero
    BY <1>2, AuthTextFacts
  <2>2. ASSUME NEW i \in 1..Len(t), NEW a \in t[i] PROVE a[1] # "aes"
    <3>1. CASE i <= 2
      <4>1. a = <<"la", la, i>>
        BY <3>1, <2>1, <2>2
      <4> QED BY <4>1
    <3>2. CASE i > 2 /\ i <= la + 2
      <4> DEFINE k == i - 2
      <4>1. k \in 1..la /\ i = 2 + k
        BY <3>2
      <4> HIDE DEF k
      <4>2. a = <<"a", k>>
        BY <4>1, <2>1, <2>2
      <4> QED BY <4>2
    <3>3. CASE i > la + 2
      BY <3>3, <2>1, <2>2 DEF Zero
    <3> QED BY <3>1, <3>2, <3>3
  <2> QED BY <2>2 DEF Aesless
<1> QED BY <1>1, <1>2

\* The first block.
LEMMA Block0Facts ==
    ASSUME NEW la, NEW n
    PROVE  /\ Text(block0(la, n)) /\ Len(block0(la, n)) = CcmBlock
           /\ block0(la, n)[1] = {<<"flags", la > 0>>}
           /\ Aesless(block0(la, n))
<1> DEFINE a == <<{<<"flags", la > 0>>}>>
           b == Nonce
           c == [i \in 1..L |-> {<<"length", n, i>>}]
           k == CcmBlock - L - 1
<1>1. k \in Nat /\ L \in Nat /\ 1 + k + L = CcmBlock
  BY CcmAssumption
<1>2. Text(a) /\ Len(a) = 1 /\ a[1] = {<<"flags", la > 0>>}
  BY OneText
<1>3. Text(b) /\ Len(b) = k /\ \A i \in 1..k : b[i] = {<<"n", i>>}
  <2> HIDE DEF k
  <2>1. b = Fresh("n", 0, k)
    BY DEF Nonce, k
  <2> QED BY <2>1, <1>1, FreshBytes
<1>4. Text(c) /\ Len(c) = L /\ \A i \in 1..L : c[i] = {<<"length", n, i>>}
  <2>1. DOMAIN c = 1..L /\ c = [i \in 1..L |-> c[i]] /\ \A i \in 1..L : c[i] = {<<"length", n, i>>}
    OBVIOUS
  <2> HIDE DEF c
  <2> QED BY <2>1, <1>1, MapIsText
<1> DEFINE d == a \o b
           t == d \o c
<1>5. block0(la, n) = t
  BY DEF block0
<1> HIDE DEF a, b, c, k
<1>6. /\ Text(d) /\ Len(d) = 1 + k /\ d[1] = a[1]
      /\ \A i \in 1..k : d[1 + i] = b[i]
  <2>1. Text(a) /\ Text(b)
    BY <1>2, <1>3
  <2>2. /\ Text(d) /\ Len(d) = Len(a) + Len(b) /\ \A i \in 1..Len(a) : d[i] = a[i]
        /\ \A i \in 1..Len(b) : d[Len(a) + i] = b[i]
    BY ONLY <2>1, JoinText
  <2> HIDE DEF d
  <2> QED BY <2>2, <1>2, <1>3
<1> HIDE DEF d
<1>7. /\ Text(t) /\ Len(t) = (1 + k) + L
      /\ \A i \in 1..(1 + k) : t[i] = d[i]
      /\ \A i \in 1..L : t[(1 + k) + i] = c[i]
  BY <1>6, <1>4, JoinText
<1> HIDE DEF t
<1>8. t[1] = a[1]
  BY <1>1, <1>6, <1>7
<1>9. ASSUME NEW i \in 1..Len(t), NEW x \in t[i] PROVE x[1] # "aes"
  <2>1. CASE i = 1
    <3>1. x = <<"flags", la > 0>>
      BY <2>1, <1>2, <1>8, <1>9
    <3> QED BY <3>1
  <2>2. CASE i > 1 /\ i <= 1 + k
    <3> DEFINE j == i - 1
    <3>1. j \in 1..k /\ i = 1 + j /\ i \in 1..(1 + k)
      BY <2>2, <1>1
    <3> HIDE DEF j
    <3>2. x = <<"n", j>>
      BY <3>1, <1>3, <1>6, <1>7, <1>9
    <3> QED BY <3>2
  <2>3. CASE i > 1 + k
    <3> DEFINE j == i - (1 + k)
    <3>1. j \in 1..L /\ i = (1 + k) + j
      BY <2>3, <1>1, <1>7
    <3> HIDE DEF j
    <3>2. x = <<"length", n, j>>
      BY <3>1, <1>4, <1>7, <1>9
    <3> QED BY <3>2
  <2>4. i \in Nat /\ i >= 1
    BY <1>1, <1>7
  <2> QED BY <2>1, <2>2, <2>3, <2>4, <1>1
<1>10. Len(t) = CcmBlock
  BY <1>1, <1>7
<1> QED BY <1>2, <1>5, <1>7, <1>8, <1>9, <1>10 DEF Aesless


TagBlocks(la, m) ==
    <<block0(la, Len(m))>> \o Pieces(AuthText(la) \o PadBlock(m), CcmBlock)

\* The text s is v whole blocks.
InBlocks(s, v) == v \in Nat /\ Text(s) /\ Len(s) = v * CcmBlock

\* Where the additional data and the message are among the blocks b.
Laid(b, la, m, u, v) ==
    /\ Text(b) /\ Len(b) = 1 + u + v /\ b[1] = block0(la, Len(m))
    /\ \A k \in 1..1+u+v : Text(b[k]) /\ Len(b[k]) = CcmBlock
    /\ \A t \in 0..u-1 : \A i \in 1..CcmBlock :
           b[t + 2][i] = AuthText(la)[t * CcmBlock + i]
    /\ \A j \in 0..v-1 : \A i \in 1..CcmBlock :
           b[u + j + 2][i] = PadBlock(m)[j * CcmBlock + i]

LEMMA TagBlocksFacts ==
    ASSUME NEW la \in Nat, NEW m, Text(m), NEW u \in Nat, InBlocks(AuthText(la), u),
           NEW v \in Nat, InBlocks(PadBlock(m), v)
    PROVE  Laid(TagBlocks(la, m), la, m, u, v)
<1>0. /\ u \in Nat /\ Len(AuthText(la)) = u * CcmBlock
      /\ v \in Nat /\ Len(PadBlock(m)) = v * CcmBlock
  BY DEF InBlocks
<1> DEFINE a == AuthText(la)
           p == PadBlock(m)
           x == a \o p
           s == Pieces(x, CcmBlock)
           h == <<block0(la, Len(m))>>
           b == TagBlocks(la, m)
           w == u + v
<1>1. Text(a) /\ Text(p) /\ w \in Nat /\ CcmBlock \in Nat \ {0}
  BY <1>0, AuthTextFacts, PadBlockFacts, BlockSize
<1>2. Len(a) = u * CcmBlock /\ Len(p) = v * CcmBlock
  BY <1>0
<1>3. b = h \o s
  BY DEF TagBlocks
<1> HIDE DEF a, p, b
<1>4. /\ Text(x) /\ Len(x) = Len(a) + Len(p) /\ \A i \in 1..Len(a) : x[i] = a[i]
      /\ \A i \in 1..Len(p) : x[Len(a) + i] = p[i]
  BY ONLY <1>1, JoinText
<1> HIDE DEF x
<1>5. Len(x) = w * CcmBlock
  BY <1>1, <1>2, <1>4
<1>6. Cut(s, x, CcmBlock) /\ Len(s) = w
  <2> HIDE DEF w
  <2> QED BY <1>1, <1>4, <1>5, CutPieces
<1> HIDE DEF s
<1>7. /\ Text(s) /\ \A k \in 1..w : Text(s[k]) /\ Len(s[k]) = CcmBlock
      /\ \A k \in 1..w : \A i \in 1..CcmBlock : x[(k - 1) * CcmBlock + i] = s[k][i]
  BY <1>6 DEF Cut
<1>8. Text(h) /\ Len(h) = 1 /\ h[1] = block0(la, Len(m))
  BY OneText
<1> HIDE DEF h
<1>9. /\ Text(b) /\ Len(b) = 1 + w /\ b[1] = h[1] /\ \A k \in 1..w : b[1 + k] = s[k]
  <2>1. /\ Text(b) /\ Len(b) = Len(h) + Len(s) /\ \A k \in 1..Len(h) : b[k] = h[k]
        /\ \A k \in 1..Len(s) : b[Len(h) + k] = s[k]
    <3>1. Text(h) /\ Text(s)
      BY <1>7, <1>8
    <3> QED BY ONLY <3>1, <1>3, JoinText
  <2> QED BY <2>1, <1>6, <1>8
<1>10. ASSUME NEW k \in 1..1+u+v
       PROVE  Text(b[k]) /\ Len(b[k]) = CcmBlock
  <2>1. CASE k = 1
    BY <2>1, <1>8, <1>9, Block0Facts
  <2>2. CASE k # 1
    <3> DEFINE g == k - 1
    <3>1. g \in 1..w /\ k = 1 + g
      BY <2>2, <1>1
    <3> HIDE DEF g, w
    <3> QED BY <3>1, <1>7, <1>9
  <2> QED BY <2>1, <2>2
<1>11. ASSUME NEW t \in 0..u-1, NEW i \in 1..CcmBlock
       PROVE  b[t + 2][i] = a[t * CcmBlock + i]
  <2> DEFINE k == t + 1
  <2>1. k \in 1..w /\ k - 1 = t /\ t + 2 = 1 + k /\ k \in 1..u
    OBVIOUS
  <2>2. b[1 + k][i] = x[(k - 1) * CcmBlock + i]
    <3> HIDE DEF k, w
    <3> QED BY <2>1, <1>7, <1>9
  <2>3. (k - 1) * CcmBlock + i \in 1..Len(a)
    <3> HIDE DEF k
    <3>1. /\ (k - 1) * CcmBlock \in Nat /\ k * CcmBlock = (k - 1) * CcmBlock + CcmBlock
          /\ k * CcmBlock <= u * CcmBlock
      BY <2>1, <1>1, Within
    <3> QED BY <3>1, <1>1, <1>2
  <2>4. x[(k - 1) * CcmBlock + i] = a[(k - 1) * CcmBlock + i]
    BY <2>3, <1>4
  <2> HIDE DEF w
  <2> QED BY <2>1, <2>2, <2>4
<1>12. ASSUME NEW j \in 0..v-1, NEW i \in 1..CcmBlock
       PROVE  b[u + j + 2][i] = p[j * CcmBlock + i]
  <2> DEFINE k == u + j + 1
             e == j * CcmBlock
  <2>1. k \in 1..w /\ k - 1 = u + j /\ u + j + 2 = 1 + k /\ j \in Nat /\ j + 1 \in 1..v
    OBVIOUS
  <2>2. b[1 + k][i] = x[(k - 1) * CcmBlock + i]
    <3> HIDE DEF k, w
    <3> QED BY <2>1, <1>7, <1>9
  <2>3. e + i \in 1..Len(p) /\ e \in Nat
    <3> DEFINE g == j + 1
    <3>1. g \in 1..v /\ g - 1 = j
      BY <2>1
    <3> HIDE DEF g
    <3>2. /\ (g - 1) * CcmBlock \in Nat /\ g * CcmBlock = (g - 1) * CcmBlock + CcmBlock
          /\ g * CcmBlock <= v * CcmBlock
      BY <3>1, <1>1, Within
    <3>3. /\ e \in Nat /\ g * CcmBlock = e + CcmBlock /\ g * CcmBlock <= v * CcmBlock
      BY <3>1, <3>2
    <3> HIDE DEF e
    <3> QED BY <3>3, <1>1, <1>2
  <2>4. (k - 1) * CcmBlock = Len(a) + e
    <3>1. (u + j) * CcmBlock = u * CcmBlock + j * CcmBlock
      BY <1>1, <2>1
    <3> QED BY <3>1, <2>1, <1>2
  <2>5. (k - 1) * CcmBlock + i = Len(a) + (e + i)
    <3>1. Len(a) \in Nat
      BY <1>1, TextLength
    <3> HIDE DEF e, k
    <3> QED BY <3>1, <2>3, <2>4
  <2>6. x[Len(a) + (e + i)] = p[e + i]
    BY <2>3, <1>4
  <2> HIDE DEF w, k, e
  <2>7. b[1 + k][i] = p[e + i]
    BY <2>2, <2>5, <2>6
  <2> QED BY <2>7, <2>1 DEF e
<1>13. 1 + w = 1 + u + v
  BY <1>0
<1>14. /\ Text(b) /\ Len(b) = 1 + u + v /\ b[1] = block0(la, Len(m))
       /\ \A k \in 1..1+u+v : Text(b[k]) /\ Len(b[k]) = CcmBlock
  BY <1>8, <1>9, <1>10, <1>13
<1> QED BY <1>11, <1>12, <1>14 DEF Laid, a, b, p

LEMMA TagIs ==
    ASSUME NEW la \in Nat, NEW m, Text(m), NEW n \in Nat, Len(TagBlocks(la, m)) = n,
           Text(TagBlocks(la, m)), NEW f, Linked(f, TagBlocks(la, m), n)
    PROVE  Tag(Aad(la), m) = f[n]
<1>1. Len(Aad(la)) = la /\ Text(Aad(la))
  BY FreshBytes DEF Aad
<1>2. Aad(la) = <<>> <=> la = 0
  BY <1>1, EmptyText
<1>3. Tag(Aad(la), m) = CbcMac(TagBlocks(la, m))
  <2> DEFINE a == Aad(la)
  <2>1. Tag(a, m) = CbcMac(<<block0(la, Len(m))>> \o
            Pieces((IF a = <<>> THEN <<>> ELSE PadBlock(AadLength(la) \o a))
                   \o PadBlock(m), CcmBlock))
    BY <1>1 DEF Tag
  <2>2. (IF a = <<>> THEN <<>> ELSE PadBlock(AadLength(la) \o a)) = AuthText(la)
    BY <1>2 DEF AuthText
  <2> HIDE DEF a
  <2> QED BY <2>1, <2>2 DEF TagBlocks, a
<1>4. CbcMac(TagBlocks(la, m)) = f[n]
  BY CbcMacIs
<1> QED BY <1>3, <1>4

\* From 0 up to n.
LEMMA AllUpTo ==
    ASSUME NEW n \in Nat, NEW P, 0 \in P, \A k \in 1..n : k - 1 \in P => k \in P
    PROVE  \A k \in 0..n : k \in P
<1> DEFINE N == {k \in 0..n : k \notin P}
<1> SUFFICES N = {}
  OBVIOUS
<1> SUFFICES ASSUME N # {} PROVE FALSE
  OBVIOUS
<1>1. N \in SUBSET Nat
  OBVIOUS
<1>2. PICK a \in N : \A b \in N : a <= b
  <2> HIDE DEF N
  <2> QED BY <1>1, LeastNumber
<1>3. a \in 0..n /\ a \notin P
  OBVIOUS
<1>4. a # 0
  BY <1>3
<1>5. a \in 1..n /\ a - 1 \in 0..n /\ ~(a - 1 \in N)
  BY <1>2, <1>3, <1>4
<1> QED BY <1>3, <1>5

\* As far as AES is one to one, so is the CBC-MAC: from the end backwards the
\* last block and the value before it can be told from the value.
LEMMA CbcMacTells ==
    ASSUME NEW b, NEW c, NEW n \in Nat, NEW k \in Nat,
           \A i \in 1..n : Text(b[i]) /\ Len(b[i]) = CcmBlock /\ Aesless(b[i]),
           \A i \in 1..k : Text(c[i]) /\ Len(c[i]) = CcmBlock /\ Aesless(c[i]),
           NEW f, NEW g, Linked(f, b, n), Linked(g, c, k), f[n] = g[k]
    PROVE  n = k /\ \A i \in 1..n : b[i] = c[i]
<1> DEFINE P == {j \in 0..n : /\ j <= k /\ f[n - j] = g[k - j]
                              /\ \A i \in 0..j-1 : b[n - i] = c[k - i]}
<1>1. /\ f[0] = Zeros(CcmBlock) /\ \A i \in 1..n : f[i] = Aes(XorBytes(f[i - 1], b[i]))
      /\ \A i \in 0..n : Text(f[i]) /\ Len(f[i]) = CcmBlock
  BY LinkedFacts
<1>2. /\ g[0] = Zeros(CcmBlock) /\ \A i \in 1..k : g[i] = Aes(XorBytes(g[i - 1], c[i]))
      /\ \A i \in 0..k : Text(g[i]) /\ Len(g[i]) = CcmBlock
  BY LinkedFacts
<1>3. \A x : Aes(x) # Zeros(CcmBlock)
  <2> SUFFICES ASSUME NEW x, Aes(x) = Zeros(CcmBlock) PROVE FALSE
    OBVIOUS
  <2>1. 1 \in 1..CcmBlock
    BY BlockSize
  <2>2. Aes(x)[1] = {<<"aes", x, 1>>}
    BY <2>1, AesText
  <2>3. Zeros(CcmBlock)[1] = {}
    BY <2>1, BlockSize, ZerosText DEF Zero
  <2> QED BY <2>2, <2>3
<1>4. \A i \in 0..n : \A h \in 1..CcmBlock : \A a \in f[i][h] : a[1] = "aes"
  <2> SUFFICES ASSUME NEW i \in 0..n, NEW h \in 1..CcmBlock, NEW a \in f[i][h]
               PROVE  a[1] = "aes"
    OBVIOUS
  <2>1. CASE i = 0
    <3>1. f[i][h] = {}
      BY <2>1, <1>1, BlockSize, ZerosText DEF Zero
    <3> QED BY <3>1
  <2>2. CASE i # 0
    <3> DEFINE x == XorBytes(f[i - 1], b[i])
    <3>1. f[i] = Aes(x)
      BY <2>2, <1>1
    <3> HIDE DEF x
    <3>2. a = <<"aes", x, h>>
      BY <3>1, AesText
    <3> QED BY <3>2
  <2> QED BY <2>1, <2>2
<1>5. \A i \in 0..k : \A h \in 1..CcmBlock : \A a \in g[i][h] : a[1] = "aes"
  <2> SUFFICES ASSUME NEW i \in 0..k, NEW h \in 1..CcmBlock, NEW a \in g[i][h]
               PROVE  a[1] = "aes"
    OBVIOUS
  <2>1. CASE i = 0
    <3>1. g[i][h] = {}
      BY <2>1, <1>2, BlockSize, ZerosText DEF Zero
    <3> QED BY <3>1
  <2>2. CASE i # 0
    <3> DEFINE x == XorBytes(g[i - 1], c[i])
    <3>1. g[i] = Aes(x)
      BY <2>2, <1>2
    <3> HIDE DEF x
    <3>2. a = <<"aes", x, h>>
      BY <3>1, AesText
    <3> QED BY <3>2
  <2> QED BY <2>1, <2>2
<1>6. 0 \in P
  <2>1. n - 0 = n /\ k - 0 = k /\ 0 <= k /\ 0 \in 0..n /\ 0..0-1 = {}
    OBVIOUS
  <2> QED BY <2>1
<1>7. ASSUME NEW j \in 1..n, j - 1 \in P PROVE j \in P
  <2> DEFINE d == n - (j - 1)
             e == k - (j - 1)
  <2>1. d \in 1..n /\ d - 1 = n - j /\ d - 1 \in 0..n /\ j \in 0..n
    OBVIOUS
  <2>2. e \in 0..k /\ f[d] = g[e] /\ \A i \in 0..j-2 : b[n - i] = c[k - i]
    <3>1. j - 1 <= k /\ f[d] = g[e] /\ \A i \in 0..(j-1)-1 : b[n - i] = c[k - i]
      BY <1>7
    <3>2. (j - 1) - 1 = j - 2
      OBVIOUS
    <3> QED BY <3>1, <3>2
  <2>3. e # 0
    <3> SUFFICES ASSUME e = 0 PROVE FALSE
      OBVIOUS
    <3>1. g[e] = Zeros(CcmBlock) /\ f[d] = Aes(XorBytes(f[d - 1], b[d]))
      BY <1>1, <1>2, <2>1
    <3> HIDE DEF d, e
    <3> QED BY <3>1, <2>2, <1>3
  <2>4. e \in 1..k /\ e - 1 = k - j /\ e - 1 \in 0..k /\ j <= k
    BY <2>2, <2>3
  <2> DEFINE x == XorBytes(f[d - 1], b[d])
             y == XorBytes(g[e - 1], c[e])
  <2> HIDE DEF d, e
  <2>5. f[d] = Aes(x) /\ g[e] = Aes(y)
    BY <1>1, <1>2, <2>1, <2>4
  <2>6. x = y
    <3> HIDE DEF x, y
    <3>1. 1 \in 1..CcmBlock
      BY BlockSize
    <3>2. Aes(x) = Aes(y)
      BY <2>2, <2>5
    <3>3. Aes(x)[1] = {<<"aes", x, 1>>} /\ Aes(y)[1] = {<<"aes", y, 1>>}
      BY <3>1, AesText
    <3>4. {<<"aes", x, 1>>} = {<<"aes", y, 1>>}
      BY <3>2, <3>3
    <3> QED BY <3>4, AesTerm
  <2>7. /\ Text(f[d - 1]) /\ Len(f[d - 1]) = CcmBlock /\ Text(g[e - 1])
        /\ Len(g[e - 1]) = CcmBlock
    BY <1>1, <1>2, <2>1, <2>4
  <2>8. /\ Text(b[d]) /\ Len(b[d]) = CcmBlock /\ Text(c[e])
        /\ Len(c[e]) = CcmBlock /\ Aesless(b[d]) /\ Aesless(c[e])
    BY <2>1, <2>4
  <2>9. /\ \A h \in 1..CcmBlock : x[h] = Xor(f[d - 1][h], b[d][h])
        /\ \A h \in 1..CcmBlock : y[h] = Xor(g[e - 1][h], c[e][h])
    <3>1. CcmBlock <= CcmBlock
      BY BlockSize
    <3> QED BY <3>1, <2>7, <2>8, XorText
  <2> HIDE DEF x, y
  <2>10. ASSUME NEW h \in 1..CcmBlock
         PROVE  f[d - 1][h] = g[e - 1][h] /\ b[d][h] = c[e][h]
    <3> DEFINE p1 == f[d - 1][h]
               p2 == g[e - 1][h]
               p3 == b[d][h]
               p4 == c[e][h]
    <3>1. Xor(p1, p3) = Xor(p2, p4)
      BY <2>6, <2>9
    <3>2. (\A a \in p1 : a[1] = "aes") /\ (\A a \in p2 : a[1] = "aes")
      BY <1>4, <1>5, <2>1, <2>4
    <3>3. (\A a \in p3 : a[1] # "aes") /\ (\A a \in p4 : a[1] # "aes")
      BY <2>8 DEF Aesless
    <3> HIDE DEF p1, p2, p3, p4
    <3>4. p1 = p2 /\ p3 = p4
      BY ONLY <3>1, <3>2, <3>3, SplitXor
    <3> QED BY <3>4 DEF p1, p2, p3, p4
  <2>11. f[d - 1] = g[e - 1] /\ b[d] = c[e]
    BY <2>7, <2>8, <2>10, SameText
  <2>12. f[n - j] = g[k - j]
    BY <2>11, <2>1, <2>4
  <2>13. ASSUME NEW i \in 0..j-1 PROVE b[n - i] = c[k - i]
    <3>1. CASE i = j - 1
      BY <3>1, <2>11 DEF d, e
    <3>2. CASE i # j - 1
      <4>1. i \in 0..j-2
        BY <3>2
      <4> QED BY <4>1, <2>2
    <3> QED BY <3>1, <3>2
  <2> QED BY <2>1, <2>4, <2>12, <2>13
<1>8. n \in P
  <2> HIDE DEF P
  <2>1. \A j \in 0..n : j \in P
    BY ONLY <1>6, <1>7, AllUpTo, n \in Nat
  <2> QED BY <2>1
<1>9. n <= k /\ f[0] = g[k - n] /\ \A i \in 0..n-1 : b[n - i] = c[k - i]
  <2>1. n - n = 0
    OBVIOUS
  <2> QED BY <1>8, <2>1
<1>10. n = k
  <2> SUFFICES ASSUME n # k PROVE FALSE
    OBVIOUS
  <2> DEFINE e == k - n
  <2>1. e \in 1..k
    BY <1>9
  <2>2. g[e] = Aes(XorBytes(g[e - 1], c[e])) /\ g[e] = Zeros(CcmBlock)
    <3>1. g[e] = f[0]
      BY <1>9
    <3> HIDE DEF e
    <3> QED BY <3>1, <2>1, <1>1, <1>2
  <2> QED BY <2>2, <1>3
<1>11. ASSUME NEW i \in 1..n PROVE b[i] = c[i]
  <2> DEFINE h == n - i
  <2>1. h \in 0..n-1 /\ n - h = i /\ k - h = i
    BY <1>10
  <2> HIDE DEF h
  <2>2. b[n - h] = c[k - h]
    BY <2>1, <1>9
  <2> QED BY <2>1, <2>2
<1> QED BY <1>10, <1>11


LEMMA PadAesless ==
    ASSUME NEW m, Text(m), Aesless(m)
    PROVE  Aesless(PadBlock(m))
<1> DEFINE p == PadBlock(m)
<1>1. /\ \A i \in 1..Len(m) : p[i] = m[i]
      /\ \A i \in 1..Len(p) : i > Len(m) => p[i] = Zero
      /\ Len(m) \in Nat
  BY PadBlockFacts, TextLength
<1> HIDE DEF p
<1>2. ASSUME NEW i \in 1..Len(p), NEW a \in p[i] PROVE a[1] # "aes"
  <2>1. CASE i <= Len(m)
    BY <2>1, <1>1, <1>2 DEF Aesless
  <2>2. CASE i > Len(m)
    BY <2>2, <1>1, <1>2 DEF Zero
  <2> QED BY <2>1, <2>2, <1>1
<1> QED BY <1>2 DEF Aesless, p

LEMMA BlocksAesless ==
    ASSUME NEW la \in Nat, NEW m, Text(m), Aesless(m)
    PROVE  LET b == TagBlocks(la, m)
           IN  /\ Text(b) /\ Len(b) \in Nat /\ Len(b) >= 1
               /\ \A k \in 1..Len(b) : Text(b[k]) /\ Len(b[k]) = CcmBlock /\ Aesless(b[k])
<1> DEFINE b == TagBlocks(la, m)
           a == AuthText(la)
           p == PadBlock(m)
<1>1. PICK u \in Nat : InBlocks(a, u)
  BY AuthTextFacts DEF InBlocks
<1>2. PICK v \in Nat : InBlocks(p, v)
  BY PadBlockFacts DEF InBlocks
<1>0. Laid(b, la, m, u, v)
  BY <1>1, <1>2, TagBlocksFacts
<1>3. /\ Text(b) /\ Len(b) = 1 + u + v
      /\ b[1] = block0(la, Len(m))
      /\ \A k \in 1..1+u+v : Text(b[k]) /\ Len(b[k]) = CcmBlock
      /\ \A t \in 0..u-1 : \A i \in 1..CcmBlock : b[t + 2][i] = a[t * CcmBlock + i]
      /\ \A j \in 0..v-1 : \A i \in 1..CcmBlock : b[u + j + 2][i] = p[j * CcmBlock + i]
      /\ u \in Nat /\ v \in Nat /\ Len(a) = u * CcmBlock /\ Len(p) = v * CcmBlock
  BY <1>0, <1>1, <1>2 DEF Laid, InBlocks
<1>4. Aesless(a) /\ Aesless(p) /\ Aesless(block0(la, Len(m))) /\ CcmBlock \in Nat \ {0}
  BY AuthAesless, PadAesless, Block0Facts, BlockSize
<1> HIDE DEF a, p, b
<1>5. ASSUME NEW k \in 1..1+u+v
      PROVE  Aesless(b[k])
  <2>1. CASE k = 1
    BY <2>1, <1>3, <1>4
  <2>2. CASE k # 1 /\ k - 2 < u
    <3> DEFINE t == k - 2
               e == t * CcmBlock
               g == t + 1
    <3>1. t \in 0..u-1 /\ k = t + 2 /\ g \in 1..u /\ g - 1 = t
      BY <2>2, <1>3
    <3> HIDE DEF g
    <3>2. /\ (g - 1) * CcmBlock \in Nat /\ g * CcmBlock = (g - 1) * CcmBlock + CcmBlock
          /\ g * CcmBlock <= u * CcmBlock
      BY <3>1, <1>4, Within
    <3>3. e \in Nat /\ e + CcmBlock <= Len(a) /\ Len(a) \in Nat
      BY <3>1, <3>2, <1>3
    <3>4. \A i \in 1..CcmBlock : b[k][i] = a[e + i]
      BY <3>1, <1>3
    <3> HIDE DEF t, e
    <3>5. \A i \in 1..CcmBlock : e + i \in 1..Len(a)
      BY <3>3, <1>4
    <3> QED BY <3>4, <3>5, <1>3, <1>4 DEF Aesless
  <2>3. CASE k # 1 /\ ~(k - 2 < u)
    <3> DEFINE t == k - 2 - u
               e == t * CcmBlock
               g == t + 1
    <3>1. t \in 0..v-1 /\ k = u + t + 2 /\ g \in 1..v /\ g - 1 = t
      BY <2>3, <1>3
    <3> HIDE DEF g
    <3>2. /\ (g - 1) * CcmBlock \in Nat /\ g * CcmBlock = (g - 1) * CcmBlock + CcmBlock
          /\ g * CcmBlock <= v * CcmBlock
      BY <3>1, <1>4, Within
    <3>3. e \in Nat /\ e + CcmBlock <= Len(p) /\ Len(p) \in Nat
      BY <3>1, <3>2, <1>3
    <3>4. \A i \in 1..CcmBlock : b[k][i] = p[e + i]
      <4> HIDE DEF t
      <4> QED BY <3>1, <1>3
    <3> HIDE DEF t, e
    <3>5. \A i \in 1..CcmBlock : e + i \in 1..Len(p)
      BY <3>3, <1>4
    <3> QED BY <3>4, <3>5, <1>3, <1>4 DEF Aesless
  <2> QED BY <2>1, <2>2, <2>3
<1> QED BY <1>3, <1>5 DEF b

\* A tag is the last value of the chain: an image of AES.
LEMMA TagEnds ==
    ASSUME NEW la \in Nat, NEW m, Text(m), Aesless(m)
    PROVE  LET b == TagBlocks(la, m)
               n == Len(b)
           IN  \E f, x : /\ Linked(f, b, n) /\ f[n] = Aes(x) /\ Tag(Aad(la), m) = Aes(x)
<1> DEFINE b == TagBlocks(la, m)
           n == Len(b)
<1>1. Text(b) /\ n \in Nat /\ n >= 1
  BY BlocksAesless
<1>2. PICK f : Linked(f, b, n)
  BY <1>1, LinkedExists
<1>3. Tag(Aad(la), m) = f[n]
  BY <1>1, <1>2, TagIs
<1> HIDE DEF b, n
<1>4. f[n] = Aes(XorBytes(f[n - 1], b[n]))
  BY <1>1, <1>2, LinkedFacts
<1> QED BY <1>2, <1>3, <1>4 DEF b, n

\* The first byte of the tag tells the additional data and the message.
LEMMA TagTells ==
    ASSUME NEW la \in Nat, NEW lb \in Nat, NEW m, Text(m), Aesless(m),
           NEW d, Text(d), Aesless(d), Len(m) = Len(d),
           Tag(Aad(la), m)[1] = Tag(Aad(lb), d)[1]
    PROVE  la = lb /\ m = d
<1> DEFINE b == TagBlocks(la, m)
           c == TagBlocks(lb, d)
           n == Len(b)
           k == Len(c)
<1>1. PICK f, x : Linked(f, b, n) /\ f[n] = Aes(x) /\ Tag(Aad(la), m) = Aes(x)
  BY TagEnds
<1>2. PICK g, y : Linked(g, c, k) /\ g[k] = Aes(y) /\ Tag(Aad(lb), d) = Aes(y)
  BY TagEnds
<1>3. x = y
  <2>1. 1 \in 1..CcmBlock
    BY BlockSize
  <2>2. Aes(x)[1] = {<<"aes", x, 1>>} /\ Aes(y)[1] = {<<"aes", y, 1>>}
    BY <2>1, AesText
  <2>3. {<<"aes", x, 1>>} = {<<"aes", y, 1>>}
    BY <1>1, <1>2, <2>2
  <2> QED BY <2>3, AesTerm
<1>4. /\ n \in Nat /\ k \in Nat
      /\ \A i \in 1..n : Text(b[i]) /\ Len(b[i]) = CcmBlock /\ Aesless(b[i])
      /\ \A i \in 1..k : Text(c[i]) /\ Len(c[i]) = CcmBlock /\ Aesless(c[i])
  BY BlocksAesless
<1>5. f[n] = g[k]
  BY <1>1, <1>2, <1>3
<1>6. n = k /\ \A i \in 1..n : b[i] = c[i]
  <2>1. Linked(f, b, n) /\ Linked(g, c, k)
    BY <1>1, <1>2
  <2> HIDE DEF b, c, n, k
  <2> QED BY ONLY <1>4, <1>5, <2>1, CbcMacTells, SMTT(60)
<1>7. PICK u \in Nat : InBlocks(AuthText(la), u)
  BY AuthTextFacts DEF InBlocks
<1>8. PICK w \in Nat : InBlocks(AuthText(lb), w)
  BY AuthTextFacts DEF InBlocks
<1>9. PICK v \in Nat : InBlocks(PadBlock(m), v)
  BY PadBlockFacts DEF InBlocks
<1>10. PICK z \in Nat : InBlocks(PadBlock(d), z)
  BY PadBlockFacts DEF InBlocks
<1>21. Laid(b, la, m, u, v) /\ Laid(c, lb, d, w, z)
  BY <1>7, <1>8, <1>9, <1>10, TagBlocksFacts
<1>22. /\ u \in Nat /\ Len(AuthText(la)) = u * CcmBlock
       /\ w \in Nat /\ Len(AuthText(lb)) = w * CcmBlock
       /\ v \in Nat /\ Len(PadBlock(m)) = v * CcmBlock
       /\ z \in Nat /\ Len(PadBlock(d)) = z * CcmBlock
  BY <1>7, <1>8, <1>9, <1>10 DEF InBlocks
<1>11. /\ n = 1 + u + v /\ b[1] = block0(la, Len(m))
       /\ \A t \in 0..u-1 : \A i \in 1..CcmBlock : b[t + 2][i] = AuthText(la)[t * CcmBlock + i]
       /\ \A j \in 0..v-1 : \A i \in 1..CcmBlock :
              b[u + j + 2][i] = PadBlock(m)[j * CcmBlock + i]
  BY <1>21 DEF Laid
<1>12. /\ k = 1 + w + z /\ c[1] = block0(lb, Len(d))
       /\ \A t \in 0..w-1 : \A i \in 1..CcmBlock : c[t + 2][i] = AuthText(lb)[t * CcmBlock + i]
       /\ \A j \in 0..z-1 : \A i \in 1..CcmBlock :
              c[w + j + 2][i] = PadBlock(d)[j * CcmBlock + i]
  BY <1>21 DEF Laid
<1> HIDE DEF b, c, n, k
<1>13. (la > 0) = (lb > 0)
  <2>1. block0(la, Len(m)) = block0(lb, Len(d))
    <3>1. 1 \in 1..n
      BY <1>11, <1>22
    <3> QED BY <3>1, <1>6, <1>11, <1>12
  <2>2. {<<"flags", la > 0>>} = {<<"flags", lb > 0>>}
    BY <2>1, Block0Facts
  <2>3. <<"flags", la > 0>> = <<"flags", lb > 0>>
    BY <2>2
  <2> QED BY <2>3
<1>14. la = lb
  <2>1. CASE la = 0
    BY <2>1, <1>13
  <2>2. CASE la # 0
    <3>1. lb # 0
      BY <2>2, <1>13
    <3>2. /\ la + 2 <= Len(AuthText(la)) /\ AuthText(la)[1] = {<<"la", la, 1>>}
          /\ lb + 2 <= Len(AuthText(lb)) /\ AuthText(lb)[1] = {<<"la", lb, 1>>}
      <4>1. la + 2 <= Len(AuthText(la)) /\ \A i \in 1..2 : AuthText(la)[i] = {<<"la", la, i>>}
        BY <2>2, AuthTextFacts
      <4>2. lb + 2 <= Len(AuthText(lb)) /\ \A i \in 1..2 : AuthText(lb)[i] = {<<"la", lb, i>>}
        BY <3>1, AuthTextFacts
      <4>3. 1 \in 1..2
        OBVIOUS
      <4> QED BY <4>1, <4>2, <4>3
    <3>3. u # 0 /\ w # 0
      <4>1. 0 * CcmBlock = 0
        BY BlockSize
      <4> QED BY <4>1, <3>2, <1>22
    <3>4. 0 \in 0..u-1 /\ 0 \in 0..w-1 /\ 1 \in 1..CcmBlock /\ 0 + 2 \in 1..n
          /\ 0 * CcmBlock + 1 = 1
      <4>1. 0 \in 0..u-1 /\ 0 \in 0..w-1
        BY <3>3, <1>22
      <4>2. 0 + 2 \in 1..n
        BY <3>3, <1>11, <1>22
      <4>3. 1 \in 1..CcmBlock /\ 0 * CcmBlock = 0
        BY BlockSize
      <4> QED BY <4>1, <4>2, <4>3
    <3>5. b[0 + 2][1] = AuthText(la)[1] /\ c[0 + 2][1] = AuthText(lb)[1]
      BY <3>4, <1>11, <1>12
    <3>6. {<<"la", la, 1>>} = {<<"la", lb, 1>>}
      BY <3>2, <3>4, <3>5, <1>6
    <3>7. <<"la", la, 1>> = <<"la", lb, 1>>
      BY <3>6
    <3> QED BY <3>7
  <2> QED BY <2>1, <2>2
<1>15. u = w /\ v = z
  <2>1. u * CcmBlock = w * CcmBlock
    BY <1>14, <1>22
  <2> DEFINE e == u - w
  <2>2. CcmBlock * e = 0 /\ e \in Int /\ CcmBlock \in Nat \ {0}
    BY <2>1, <1>22, BlockSize
  <2> HIDE DEF e
  <2>3. e = 0
    <3>1. CcmBlock * e < CcmBlock /\ -CcmBlock < CcmBlock * e
      BY <2>2
    <3> QED BY <3>1, <2>2, SmallMultiple
  <2>4. u = w
    BY <2>3, <1>22 DEF e
  <2>5. 1 + u + v = 1 + w + z
    BY <1>6, <1>11, <1>12
  <2> QED BY <2>4, <2>5, <1>22
<1>16. m = d
  <2> DEFINE p == PadBlock(m)
             q == PadBlock(d)
  <2>1. /\ Text(p) /\ Len(m) <= v * CcmBlock /\ \A i \in 1..Len(m) : p[i] = m[i]
        /\ \A i \in 1..Len(d) : q[i] = d[i]
    BY <1>22, PadBlockFacts
  <2>2. Len(p) = v * CcmBlock /\ v \in Nat
    BY <1>22
  <2> DEFINE s == Pieces(p, CcmBlock)
  <2>3. Cut(s, p, CcmBlock) /\ Len(s) = v
    BY <2>1, <2>2, BlockSize, CutPieces
  <2>4. \A j \in 0..v-1 : \A i \in 1..CcmBlock : b[u + j + 2][i] = p[j * CcmBlock + i]
    BY <1>11
  <2>5. \A j \in 0..v-1 : \A i \in 1..CcmBlock : c[u + j + 2][i] = q[j * CcmBlock + i]
    <3> HIDE DEF q
    <3>1. \A j \in 0..z-1 : \A i \in 1..CcmBlock : c[w + j + 2][i] = q[j * CcmBlock + i]
      BY <1>12 DEF q
    <3> QED BY <3>1, <1>15
  <2> HIDE DEF p, q, s
  <2>6. ASSUME NEW i \in 1..Len(m) PROVE m[i] = d[i]
    <3>1. i \in 1..Len(p) /\ Len(m) \in Nat /\ Len(d) \in Nat
      BY <2>1, <2>2, TextLength
    <3>2. PICK j \in 1..v, h \in 1..CcmBlock : i = (j - 1) * CcmBlock + h
      <4>1. CcmBlock \in Nat \ {0} /\ Cut(s, p, CcmBlock) /\ i \in 1..Len(p)
        BY <3>1, <2>3, BlockSize
      <4>2. \E j \in 1..Len(s), h \in 1..CcmBlock : i = (j - 1) * CcmBlock + h /\ p[i] = s[j][h]
        <5> DEFINE o == CcmBlock
        <5>1. o \in Nat \ {0} /\ Cut(s, p, o) /\ i \in 1..Len(p)
          BY <4>1
        <5> HIDE DEF o
        <5>2. \E j \in 1..Len(s), h \in 1..o : i = (j - 1) * o + h /\ p[i] = s[j][h]
          BY ONLY <5>1, CutByte
        <5> QED BY <5>2 DEF o
      <4> QED BY <4>2, <2>3
    <3> DEFINE e == j - 1
    <3>3. e \in 0..v-1 /\ u + e + 2 \in 1..n /\ i = e * CcmBlock + h
      BY <3>2, <1>11, <1>22
    <3> HIDE DEF e
    <3>4. b[u + e + 2] = c[u + e + 2]
      BY <3>3, <1>6
    <3>5. p[e * CcmBlock + h] = q[e * CcmBlock + h]
      <4>1. b[u + e + 2][h] = p[e * CcmBlock + h] /\ c[u + e + 2][h] = q[e * CcmBlock + h]
        BY <3>3, <2>4, <2>5
      <4> QED BY <4>1, <3>4
    <3>6. p[i] = q[i]
      BY <3>3, <3>5
    <3> QED BY <3>6, <2>1
  <2> QED BY <2>6, SameText
<1> QED BY <1>14, <1>16


-----------------------------------------------------------------------------
(* CCM: what is sealed, byte by byte *)

LEMMA XorSwap ==
    ASSUME NEW a, Text(a), NEW b, Text(b), Len(a) = Len(b)
    PROVE  XorBytes(a, b) = XorBytes(b, a)
<1> DEFINE s == XorBytes(a, b)
           t == XorBytes(b, a)
<1>1. Len(a) \in Nat /\ Len(b) \in Nat /\ Len(a) <= Len(b) /\ Len(b) <= Len(a)
  BY TextLength
<1>2. /\ Text(s) /\ Len(s) = Len(a) /\ \A i \in 1..Len(a) : s[i] = Xor(a[i], b[i])
  BY <1>1, XorText
<1>3. /\ Text(t) /\ Len(t) = Len(b) /\ \A i \in 1..Len(b) : t[i] = Xor(b[i], a[i])
  BY <1>1, XorText
<1> HIDE DEF s, t
<1>4. \A i \in 1..Len(s) : s[i] = t[i]
  BY <1>2, <1>3, XorAgain
<1>5. s = t
  BY <1>2, <1>3, <1>4, SameText
<1> QED BY <1>5 DEF s, t

\* Byte i of the key stream.
KByte(i) == Aes(CounterBlock(((i - 1) \div CcmBlock) + 1))[((i - 1) % CcmBlock) + 1]

LEMMA KByteIs ==
    ASSUME NEW j \in Nat, NEW i \in 1..CcmBlock
    PROVE  KByte(j * CcmBlock + i) = Aes(CounterBlock(j + 1))[i]
<1> DEFINE e == j * CcmBlock
           a == (e + i) - 1
           r == i - 1
<1>1. CcmBlock \in Nat \ {0} /\ e \in Nat
  BY BlockSize
<1>2. e = CcmBlock * j
  BY <1>1
<1>3. r \in 0..(CcmBlock - 1) /\ a \in Int /\ a = (CcmBlock * j) + r /\ r + 1 = i
  <2> HIDE DEF e
  <2>1. r \in 0..(CcmBlock - 1) /\ a \in Int /\ a = e + r /\ r + 1 = i
    BY <1>1
  <2> QED BY <2>1, <1>2
<1>4. KByte(e + i) = Aes(CounterBlock((a \div CcmBlock) + 1))[(a % CcmBlock) + 1]
  BY DEF KByte
<1> HIDE DEF a, r
<1>5. a \div CcmBlock = j /\ a % CcmBlock = r
  BY <1>1, <1>3, Unique
<1>6. KByte(e + i) = Aes(CounterBlock(j + 1))[i]
  BY <1>3, <1>4, <1>5
<1> QED BY <1>6 DEF e

\* Where byte i is among the blocks.
LEMMA BytePlace ==
    ASSUME NEW i \in Nat \ {0}
    PROVE  \E j \in Nat, h \in 1..CcmBlock : i = j * CcmBlock + h
<1> DEFINE a == i - 1
           x == a \div CcmBlock
           r == a % CcmBlock
           h == r + 1
<1>1. CcmBlock \in Nat \ {0} /\ a \in Int /\ a >= 0
  BY BlockSize
<1>2. a = (CcmBlock * x) + r /\ r \in 0..(CcmBlock - 1) /\ x \in Int
  <2> HIDE DEF a
  <2> QED BY <1>1, DivMod
<1> HIDE DEF x, r
<1>3. x >= 0
  <2> SUFFICES ASSUME x <= -1 PROVE FALSE
    BY <1>2
  <2>1. CcmBlock * x <= -CcmBlock
    BY <1>1, <1>2
  <2> QED BY <2>1, <1>1, <1>2
<1>4. h \in 1..CcmBlock /\ i = x * CcmBlock + h /\ x \in Nat
  <2>1. x * CcmBlock = CcmBlock * x
    BY <1>1, <1>2
  <2> QED BY <2>1, <1>1, <1>2, <1>3
<1> QED BY <1>4

LEMMA KByteAes ==
    ASSUME NEW i \in Nat \ {0}, NEW a \in KByte(i)
    PROVE  a[1] = "aes"
<1>1. PICK j \in Nat, h \in 1..CcmBlock : i = j * CcmBlock + h
  BY BytePlace
<1>2. KByte(i) = Aes(CounterBlock(j + 1))[h]
  BY <1>1, KByteIs
<1> DEFINE x == CounterBlock(j + 1)
<1> HIDE DEF x
<1>3. KByte(i) = {<<"aes", x, h>>}
  BY <1>2, AesText DEF x
<1>4. a = <<"aes", x, h>>
  BY <1>3
<1> QED BY <1>4

LEMMA KeystreamFacts ==
    ASSUME NEW n \in Nat
    PROVE  /\ Text(Part(Keystream(n), 0, n)) /\ Len(Part(Keystream(n), 0, n)) = n
           /\ \A i \in 1..n : Part(Keystream(n), 0, n)[i] = KByte(i)
<1> DEFINE s == [i \in 1..n |-> Aes(CounterBlock(i))]
           k == Keystream(n)
<1>1. DOMAIN s = 1..n /\ s = [i \in 1..n |-> s[i]] /\ \A i \in 1..n : s[i] = Aes(CounterBlock(i))
  OBVIOUS
<1>2. k = FlattenSeq(s)
  BY DEF Keystream
<1> HIDE DEF s, k
<1>3. Text(s) /\ Len(s) = n
  BY <1>1, MapIsText
<1>4. \A i \in 1..Len(s) : Text(s[i]) /\ Len(s[i]) = CcmBlock
  BY <1>1, <1>3, AesText
<1>5. CcmBlock \in Nat \ {0}
  BY BlockSize
<1>6. PICK y : Cut(s, y, CcmBlock)
  BY <1>3, <1>4, <1>5, PiecesJoin
<1>7. k = y
  BY <1>2, <1>5, <1>6, FlattenCut
<1>8. Text(y) /\ Len(y) = n * CcmBlock
  BY <1>3, <1>6 DEF Cut
<1>9. n <= Len(y)
  <2> DEFINE d == CcmBlock - 1
  <2>1. d \in Nat /\ CcmBlock = d + 1
    BY <1>5
  <2> HIDE DEF d
  <2>2. n * CcmBlock = n * d + n /\ n * d \in Nat
    BY <2>1
  <2> QED BY <2>2, <1>8
<1> DEFINE p == Part(k, 0, n)
<1>10. Text(p) /\ Len(p) = n /\ \A i \in 1..n : p[i] = y[0 + i]
  <2>1. 0 \in Nat /\ 0 + n <= Len(k) /\ Text(k)
    BY <1>7, <1>8, <1>9
  <2>2. Text(p) /\ Len(p) = n /\ \A i \in 1..n : p[i] = k[0 + i]
    BY <2>1, PartText
  <2> QED BY <2>2, <1>7
<1> HIDE DEF p
<1>11. ASSUME NEW i \in 1..n PROVE p[i] = KByte(i)
  <2>1. p[i] = y[i] /\ i \in 1..Len(y)
    <3>1. 0 + i = i
      OBVIOUS
    <3>2. i \in 1..Len(y)
      <4>1. Len(y) \in Nat
        BY <1>8, TextLength
      <4> QED BY <4>1, <1>9
    <3> QED BY <3>1, <3>2, <1>10
  <2>2. PICK g \in 1..Len(s), h \in 1..CcmBlock : i = (g - 1) * CcmBlock + h /\ y[i] = s[g][h]
    <3> DEFINE o == CcmBlock
    <3>1. o \in Nat \ {0} /\ Cut(s, y, o) /\ i \in 1..Len(y)
      BY <1>5, <1>6, <2>1
    <3> HIDE DEF o
    <3>2. \E g \in 1..Len(s), h \in 1..o : i = (g - 1) * o + h /\ y[i] = s[g][h]
      BY ONLY <3>1, CutByte
    <3> QED BY <3>2 DEF o
  <2> DEFINE j == g - 1
  <2>3. j \in Nat /\ j + 1 = g /\ g \in 1..n
    BY <1>3
  <2>4. i = j * CcmBlock + h
    BY <2>2
  <2> HIDE DEF j
  <2>5. KByte(j * CcmBlock + h) = Aes(CounterBlock(j + 1))[h]
    BY <2>3, KByteIs
  <2>6. y[i] = Aes(CounterBlock(g))[h]
    BY <2>2, <2>3, <1>1
  <2> QED BY <2>1, <2>3, <2>4, <2>5, <2>6
<1> QED BY <1>10, <1>11 DEF p, k

\* The text m is sealed as s.
Sealed(s, la, m) ==
    /\ Text(s) /\ Len(s) = Len(m) + M
    /\ \A i \in 1..Len(m) : s[i] = Xor(m[i], KByte(i))
    /\ \A i \in 1..M : s[Len(m) + i] = Xor(Tag(Aad(la), m)[i], Aes(CounterBlock(0))[i])

LEMMA TagText ==
    ASSUME NEW la \in Nat, NEW m, Text(m), Aesless(m)
    PROVE  Text(Tag(Aad(la), m)) /\ Len(Tag(Aad(la), m)) = CcmBlock
<1>1. PICK f, x : Tag(Aad(la), m) = Aes(x)
  BY TagEnds
<1> QED BY <1>1, AesText

LEMMA SealIsSealed ==
    ASSUME NEW la \in Nat, NEW m, Text(m), Aesless(m)
    PROVE  Sealed(Seal(Aad(la), m), la, m)
<1> DEFINE n == Len(m)
           k == Part(Keystream(n), 0, n)
           x == XorBytes(m, k)
           t == Tag(Aad(la), m)
           o == Aes(CounterBlock(0))
           y == XorBytes(t, o)
           z == Part(y, 0, M)
           s == Seal(Aad(la), m)
<1>1. n \in Nat
  BY TextLength
<1>2. s = x \o z
  BY DEF Seal
<1>3. Text(k) /\ Len(k) = n /\ \A i \in 1..n : k[i] = KByte(i)
  <2> HIDE DEF n
  <2> QED BY <1>1, KeystreamFacts
<1>4. Text(t) /\ Len(t) = CcmBlock /\ Text(o) /\ Len(o) = CcmBlock
  BY TagText, AesText
<1> HIDE DEF k, t, o, s
<1>5. Text(x) /\ Len(x) = n /\ \A i \in 1..n : x[i] = Xor(m[i], k[i])
  <2>1. n <= Len(k)
    BY <1>1, <1>3
  <2> QED BY <2>1, <1>3, XorText
<1>6. Text(y) /\ Len(y) = CcmBlock /\ \A i \in 1..CcmBlock : y[i] = Xor(t[i], o[i])
  <2>1. Len(t) <= Len(o)
    BY <1>4, BlockSize
  <2> QED BY <2>1, <1>4, XorText
<1> HIDE DEF x, y, n
<1>7. Text(z) /\ Len(z) = M /\ \A i \in 1..M : z[i] = y[i]
  <2>1. 0 \in Nat /\ M \in Nat /\ 0 + M <= Len(y)
    BY <1>6, BlockSize
  <2>2. Text(z) /\ Len(z) = M /\ \A i \in 1..M : z[i] = y[0 + i]
    BY <2>1, <1>6, PartText
  <2>3. \A i \in 1..M : 0 + i = i
    BY BlockSize
  <2> QED BY <2>2, <2>3
<1> HIDE DEF z
<1>8. /\ Text(s) /\ Len(s) = n + M /\ \A i \in 1..n : s[i] = x[i]
      /\ \A i \in 1..M : s[n + i] = z[i]
  <2>1. Text(x) /\ Text(z)
    BY <1>5, <1>7
  <2>2. /\ Text(s) /\ Len(s) = Len(x) + Len(z) /\ \A i \in 1..Len(x) : s[i] = x[i]
        /\ \A i \in 1..Len(z) : s[Len(x) + i] = z[i]
    BY ONLY <2>1, <1>2, JoinText
  <2> QED BY <2>2, <1>5, <1>7
<1>9. \A i \in 1..n : s[i] = Xor(m[i], KByte(i))
  BY <1>3, <1>5, <1>8
<1>10. ASSUME NEW i \in 1..M
       PROVE  s[n + i] = Xor(t[i], o[i])
  <2>1. i \in 1..CcmBlock
    BY BlockSize
  <2> QED BY <2>1, <1>6, <1>7, <1>8
<1> QED BY <1>8, <1>9, <1>10 DEF Sealed, s, n, t, o

LEMMA SealedIsSeal ==
    ASSUME NEW la \in Nat, NEW m, Text(m), Aesless(m), NEW s, Sealed(s, la, m)
    PROVE  s = Seal(Aad(la), m)
<1> DEFINE t == Seal(Aad(la), m)
           n == Len(m)
<1>1. Sealed(t, la, m)
  BY SealIsSealed
<1> HIDE DEF t
<1>2. n \in Nat /\ M \in Nat
  BY TextLength, BlockSize
<1>3. /\ Text(s) /\ Len(s) = n + M /\ Text(t) /\ Len(t) = n + M
      /\ \A i \in 1..n : s[i] = t[i]
      /\ \A i \in 1..M : s[n + i] = t[n + i]
  BY <1>1 DEF Sealed
<1> HIDE DEF n
<1>4. ASSUME NEW i \in 1..Len(s) PROVE s[i] = t[i]
  <2>1. CASE i <= n
    BY <2>1, <1>2, <1>3
  <2>2. CASE i > n
    <3> DEFINE h == i - n
    <3>1. h \in 1..M /\ i = n + h
      BY <2>2, <1>2, <1>3
    <3> HIDE DEF h
    <3> QED BY <3>1, <1>3
  <2> QED BY <2>1, <2>2, <1>2, <1>3
<1> QED BY <1>3, <1>4, SameText DEF t


-----------------------------------------------------------------------------
(* CCM: what is opened *)

LEMMA TagAes ==
    ASSUME NEW la \in Nat, NEW m, Text(m), Aesless(m), NEW i \in 1..CcmBlock,
           NEW a \in Tag(Aad(la), m)[i]
    PROVE  a[1] = "aes"
<1>1. PICK f, x : Tag(Aad(la), m) = Aes(x)
  BY TagEnds
<1>2. Tag(Aad(la), m)[i] = {<<"aes", x, i>>}
  BY <1>1, AesText
<1>3. a = <<"aes", x, i>>
  BY <1>2
<1> QED BY <1>3

LEMMA PlainFacts ==
    ASSUME NEW n \in Nat
    PROVE  /\ Text(Plain(n)) /\ Len(Plain(n)) = n /\ Aesless(Plain(n))
           /\ \A i \in 1..n : Plain(n)[i] = {<<"m", i>>}
<1> DEFINE s == Plain(n)
<1>1. Text(s) /\ Len(s) = n /\ \A i \in 1..n : s[i] = {<<"m", i>>}
  BY FreshBytes DEF Plain
<1> HIDE DEF s
<1>2. ASSUME NEW i \in 1..n, NEW a \in s[i] PROVE a[1] # "aes"
  <2>1. a = <<"m", i>>
    BY <1>1
  <2> QED BY <2>1
<1> QED BY <1>1, <1>2 DEF Aesless, s

LEMMA DeliveredFacts ==
    ASSUME NEW s, Text(s), NEW r \in Delivered(s)
    PROVE  /\ Text(r)
           /\ \/ r = s
              \/ \E p \in 1..Len(s) :
                    /\ Len(r) = Len(s) /\ r[p] = Xor(s[p], {<<"flip">>})
                    /\ \A i \in 1..Len(s) : i # p => r[i] = s[i]
              \/ Len(r) < Len(s) /\ \A i \in 1..Len(r) : r[i] = s[i]
<1> DEFINE n == Len(s)
<1>1. n \in Nat /\ DOMAIN s = 1..n
  BY TextLength
<1>2. CASE r = s
  BY <1>2
<1>3. CASE r \in {[s EXCEPT ![i] = Xor(@, {<<"flip">>})] : i \in DOMAIN s}
  <2>1. PICK p \in 1..n : r = [s EXCEPT ![p] = Xor(s[p], {<<"flip">>})]
    BY <1>1, <1>3
  <2>2. r = [i \in 1..n |-> IF i = p THEN Xor(s[p], {<<"flip">>}) ELSE s[i]]
    BY <2>1, <1>1
  <2> HIDE DEF n
  <2>3. /\ DOMAIN r = 1..n /\ r = [i \in 1..n |-> r[i]]
        /\ r[p] = Xor(s[p], {<<"flip">>}) /\ \A i \in 1..n : i # p => r[i] = s[i]
    BY <2>2
  <2>4. Text(r) /\ Len(r) = n
    BY <2>3, <1>1, MapIsText
  <2> QED BY <2>3, <2>4 DEF n
<1>4. CASE r \in {Part(s, 0, k) : k \in 0..(Len(s) - 1)}
  <2>1. PICK k \in 0..n-1 : r = Part(s, 0, k)
    BY <1>4
  <2>2. 0 \in Nat /\ k \in Nat /\ 0 + k <= Len(s)
    BY <1>1
  <2>3. Text(r) /\ Len(r) = k /\ \A i \in 1..k : r[i] = s[0 + i]
    BY <2>1, <2>2, PartText
  <2>4. Len(r) < n /\ \A i \in 1..Len(r) : r[i] = s[i]
    BY <2>2, <2>3, <1>1
  <2> QED BY <2>3, <2>4
<1> QED BY <1>2, <1>3, <1>4 DEF Delivered

\* The MAC at the end of the record r is that of the text m.
Matches(r, lb, m) ==
    \A i \in 1..M : Tag(Aad(lb), m)[i] = Xor(r[Len(m) + i], Aes(CounterBlock(0))[i])

LEMMA XorFlip ==
    /\ \A a, b, c : Xor(Xor(Xor(a, b), c), b) = Xor(a, c)
    /\ \A a : Xor(a, {<<"flip">>}) # a
<1>1. \A a, b, c : Xor(Xor(Xor(a, b), c), b) = Xor(a, c)
  BY DEF Xor
<1>2. \A a, x : Xor(a, {x}) # a
  BY DEF Xor
<1> QED BY <1>1, <1>2

\* The text that is found in a record, and when its MAC matches.
LEMMA Verdict ==
    ASSUME NEW la \in Nat, NEW lb \in Nat, NEW n \in Nat, NEW s, Sealed(s, la, Plain(n)),
           NEW r \in Delivered(s), NEW m, Text(m), Len(r) = Len(m) + M,
           \A i \in 1..Len(m) : m[i] = Xor(r[i], KByte(i))
    PROVE  /\ Aesless(m)
           /\ Matches(r, lb, m) <=> (r = s /\ lb = la)
           /\ r = s => m = Plain(n)
<1> DEFINE k == Len(m)
           p == Plain(n)
           o == Aes(CounterBlock(0))
           T(x, y) == Tag(Aad(x), y)
           flip == {<<"flip">>}
<1>1. k \in Nat /\ M \in Nat /\ CcmBlock \in Nat /\ 1 \in 1..M /\ M <= CcmBlock /\ 1 \in 1..CcmBlock
  BY TextLength, BlockSize
<1>2. Text(p) /\ Len(p) = n /\ Aesless(p) /\ \A i \in 1..n : p[i] = {<<"m", i>>}
  BY PlainFacts
<1>3. /\ Text(s) /\ Len(s) = n + M
      /\ \A i \in 1..n : s[i] = Xor(p[i], KByte(i))
      /\ \A i \in 1..M : s[n + i] = Xor(T(la, p)[i], o[i])
  <2> HIDE DEF p
  <2> QED BY <1>2 DEF Sealed, p
<1>4. \A x : Text(x) /\ Aesless(x) => \A i \in 1..M : \A a \in T(lb, x)[i] : a[1] = "aes"
  <2> SUFFICES ASSUME NEW x, Text(x), Aesless(x), NEW i \in 1..M, NEW a \in T(lb, x)[i]
               PROVE  a[1] = "aes"
    OBVIOUS
  <2>1. i \in 1..CcmBlock /\ a \in Tag(Aad(lb), x)[i]
    BY <1>1
  <2> QED BY <2>1, TagAes
<1>5. \A i \in 1..M : \A a \in T(la, p)[i] : a[1] = "aes"
  <2> SUFFICES ASSUME NEW i \in 1..M, NEW a \in T(la, p)[i] PROVE a[1] = "aes"
    OBVIOUS
  <2>1. i \in 1..CcmBlock /\ a \in Tag(Aad(la), p)[i]
    BY <1>1
  <2> HIDE DEF p
  <2> QED BY <2>1, <1>2, TagAes
<1>6. \A i \in 1..M : \A a \in o[i] : a[1] = "aes"
  <2> SUFFICES ASSUME NEW i \in 1..M, NEW a \in o[i] PROVE a[1] = "aes"
    OBVIOUS
  <2> DEFINE x == CounterBlock(0)
  <2>1. a \in Aes(x)[i]
    OBVIOUS
  <2>3. i \in 1..CcmBlock
    BY <1>1
  <2> HIDE DEF x
  <2>2. a = <<"aes", x, i>>
    BY <2>1, <2>3, AesText
  <2> QED BY <2>2
<1>7. ASSUME Aesless(m), k = n, T(lb, m)[1] = T(la, p)[1]
      PROVE  lb = la /\ m = p
  <2> HIDE DEF p
  <2>1. /\ lb \in Nat /\ la \in Nat /\ Text(m) /\ Aesless(m) /\ Text(p) /\ Aesless(p)
        /\ Len(m) = Len(p) /\ Tag(Aad(lb), m)[1] = Tag(Aad(la), p)[1]
    BY <1>2, <1>7
  <2> QED BY ONLY <2>1, TagTells
<1>8. /\ Text(r)
      /\ \/ r = s
         \/ \E g \in 1..Len(s) :
               /\ Len(r) = Len(s) /\ r[g] = Xor(s[g], flip)
               /\ \A i \in 1..Len(s) : i # g => r[i] = s[i]
         \/ Len(r) < Len(s) /\ \A i \in 1..Len(r) : r[i] = s[i]
  BY <1>3, DeliveredFacts
<1>9. Matches(r, lb, m) <=> \A i \in 1..M : T(lb, m)[i] = Xor(r[k + i], o[i])
  BY DEF Matches
<1> HIDE DEF p, o, T, flip, k
<1>10. CASE r = s
  <2>1. k = n
    BY <1>1, <1>3, <1>10 DEF k
  <2>2. ASSUME NEW i \in 1..n PROVE m[i] = p[i]
    <3>1. m[i] = Xor(Xor(p[i], KByte(i)), KByte(i))
      BY <1>3, <1>10, <2>1 DEF k
    <3> QED BY <3>1, XorAgain
  <2>3. m = p
    BY <2>1, <2>2, <1>2, SameText DEF k
  <2>4. \A i \in 1..M : Xor(r[k + i], o[i]) = T(la, p)[i]
    BY <1>3, <1>10, <2>1, XorAgain
  <2>5. lb = la => Matches(r, lb, m)
    BY <1>9, <2>3, <2>4
  <2>6. Matches(r, lb, m) => lb = la
    <3> SUFFICES ASSUME Matches(r, lb, m) PROVE lb = la
      OBVIOUS
    <3>1. T(lb, m)[1] = T(la, p)[1]
      BY <1>1, <1>9, <2>4
    <3> QED BY <3>1, <1>2, <1>7, <2>1, <2>3
  <2> QED BY <1>2, <1>10, <2>3, <2>5, <2>6 DEF p
<1>11. CASE \E g \in 1..Len(s) :
               /\ Len(r) = Len(s) /\ r[g] = Xor(s[g], flip)
               /\ \A i \in 1..Len(s) : i # g => r[i] = s[i]
  <2>1. PICK g \in 1..(n + M) :
               /\ Len(r) = Len(s) /\ r[g] = Xor(s[g], flip)
               /\ \A i \in 1..(n + M) : i # g => r[i] = s[i]
    BY <1>3, <1>11
  <2>2. k = n
    BY <1>1, <1>3, <2>1 DEF k
  <2>3. r # s
    BY <2>1, XorFlip DEF flip
  <2>4. ASSUME NEW i \in 1..n
        PROVE  m[i] = IF i = g THEN Xor(p[i], flip) ELSE p[i]
    <3>1. m[i] = Xor(r[i], KByte(i)) /\ s[i] = Xor(p[i], KByte(i)) /\ i \in 1..(n + M)
      BY <1>1, <1>3, <2>2 DEF k
    <3>2. CASE i = g
      <4>1. m[i] = Xor(Xor(Xor(p[i], KByte(i)), flip), KByte(i))
        BY <2>1, <3>1, <3>2
      <4> QED BY <4>1, <3>2, XorFlip
    <3>3. CASE i # g
      BY <2>1, <3>1, <3>3, XorAgain
    <3> QED BY <3>2, <3>3
  <2>5. Aesless(m)
    <3> SUFFICES ASSUME NEW i \in 1..n, NEW a \in m[i] PROVE a[1] # "aes"
      BY <2>2 DEF Aesless, k
    <3>1. a \in p[i] \/ a \in flip
      BY <2>4 DEF Xor
    <3>2. a = <<"m", i>> \/ a = <<"flip">>
      BY <3>1, <1>2 DEF flip
    <3> QED BY <3>2
  <2>6. ~Matches(r, lb, m)
    <3> SUFFICES ASSUME Matches(r, lb, m) PROVE FALSE
      OBVIOUS
    <3>1. CASE g <= n
      <4>1. n + 1 \in 1..(n + M) /\ n + 1 # g
        BY <1>1, <3>1
      <4>2. r[n + 1] = Xor(T(la, p)[1], o[1])
        BY <4>1, <1>1, <1>3, <2>1
      <4>3. T(lb, m)[1] = T(la, p)[1]
        BY <4>2, <1>1, <1>9, <2>2, XorAgain
      <4>4. m = p
        BY <4>3, <1>7, <2>2, <2>5
      <4>5. g \in 1..n
        BY <3>1
      <4>6. m[g] = Xor(p[g], flip)
        BY <4>5, <2>4
      <4> QED BY <4>4, <4>6, XorFlip DEF flip
    <3>2. CASE g > n
      <4> DEFINE h == g - n
      <4>1. h \in 1..M /\ g = n + h
        BY <1>1, <3>2
      <4> HIDE DEF h
      <4>2. T(lb, m)[h] = Xor(Xor(Xor(T(la, p)[h], o[h]), flip), o[h])
        BY <4>1, <1>3, <1>9, <2>1, <2>2
      <4>3. T(lb, m)[h] = Xor(T(la, p)[h], flip)
        BY <4>2, XorFlip
      <4>4. <<"flip">>[1] # "aes"
        OBVIOUS
      <4>5. <<"flip">> \notin T(la, p)[h] /\ <<"flip">> \notin T(lb, m)[h]
        BY <4>1, <4>4, <1>4, <1>5, <2>5
      <4>6. <<"flip">> \in Xor(T(la, p)[h], flip)
        BY <4>5 DEF Xor, flip
      <4> QED BY <4>3, <4>5, <4>6
    <3> QED BY <3>1, <3>2
  <2> QED BY <2>3, <2>5, <2>6
<1>12. CASE Len(r) < Len(s) /\ \A i \in 1..Len(r) : r[i] = s[i]
  <2>1. k < n /\ Len(r) = k + M /\ r # s
    BY <1>1, <1>3, <1>12 DEF k
  <2>2. ASSUME NEW i \in 1..k PROVE m[i] = p[i]
    <3>1. i \in 1..Len(r) /\ i \in 1..n
      BY <1>1, <2>1
    <3>2. m[i] = Xor(Xor(p[i], KByte(i)), KByte(i))
      BY <3>1, <1>3, <1>12 DEF k
    <3> QED BY <3>2, XorAgain
  <2>3. Aesless(m)
    <3> SUFFICES ASSUME NEW i \in 1..k, NEW a \in m[i] PROVE a[1] # "aes"
      BY DEF Aesless, k
    <3>1. i \in 1..n
      BY <1>1, <2>1
    <3>2. a = <<"m", i>>
      BY <3>1, <2>2, <1>2
    <3> QED BY <3>2
  <2>4. ~Matches(r, lb, m)
    <3> SUFFICES ASSUME Matches(r, lb, m) PROVE FALSE
      OBVIOUS
    <3> DEFINE g == k + 1
    <3>1. g \in 1..n /\ g \in 1..Len(r) /\ g \in Nat \ {0}
      BY <1>1, <2>1
    <3>2. T(lb, m)[1] = Xor(r[g], o[1])
      BY <1>1, <1>9
    <3> HIDE DEF g
    <3>3. r[g] = Xor({<<"m", g>>}, KByte(g))
      BY <3>1, <1>2, <1>3, <1>12
    <3>4. <<"m", g>>[1] # "aes"
      OBVIOUS
    <3>5. <<"m", g>> \notin KByte(g)
      BY <3>1, <3>4, KByteAes
    <3>6. <<"m", g>> \notin o[1] /\ <<"m", g>> \notin T(lb, m)[1]
      BY <3>4, <1>1, <1>4, <1>6, <2>3
    <3>7. <<"m", g>> \in Xor(r[g], o[1])
      BY <3>3, <3>5, <3>6 DEF Xor
    <3> QED BY <3>2, <3>6, <3>7
  <2> QED BY <2>1, <2>3, <2>4
<1> QED BY <1>8, <1>10, <1>11, <1>12 DEF p


-----------------------------------------------------------------------------
(* CCM: the chain of values, block by block *)

\* x is the value of the CBC-MAC after the first k blocks.
Value(la, m, k, x) ==
    \E f : /\ Linked(f, TagBlocks(la, m), Len(TagBlocks(la, m)))
           /\ k \in 0..Len(TagBlocks(la, m)) /\ x = f[k]

\* The additional data is u blocks and the message v.
Sized(la, m, u, v) ==
    /\ la \in Nat /\ Text(m) /\ u \in Nat /\ v \in Nat
    /\ InBlocks(AuthText(la), u) /\ InBlocks(PadBlock(m), v)

LEMMA SizedFacts ==
    ASSUME NEW la, NEW m, NEW u, NEW v, Sized(la, m, u, v)
    PROVE  /\ Laid(TagBlocks(la, m), la, m, u, v)
           /\ la \in Nat /\ Text(m) /\ u \in Nat /\ v \in Nat
           /\ Text(TagBlocks(la, m)) /\ Len(TagBlocks(la, m)) = 1 + u + v
           /\ Text(AuthText(la)) /\ Len(AuthText(la)) = u * CcmBlock
           /\ Text(PadBlock(m)) /\ Len(PadBlock(m)) = v * CcmBlock
<1>1. /\ la \in Nat /\ Text(m) /\ u \in Nat /\ v \in Nat
      /\ InBlocks(AuthText(la), u) /\ InBlocks(PadBlock(m), v)
  BY DEF Sized
<1>2. Laid(TagBlocks(la, m), la, m, u, v)
  BY ONLY <1>1, TagBlocksFacts
<1> QED BY <1>1, <1>2 DEF Laid, InBlocks

LEMMA ValueFacts ==
    ASSUME NEW la, NEW m, NEW u, NEW v, Sized(la, m, u, v), NEW k, NEW x, Value(la, m, k, x)
    PROVE  Text(x) /\ Len(x) = CcmBlock
<1> DEFINE b == TagBlocks(la, m)
           n == Len(b)
<1>1. n \in Nat
  <2>1. n = 1 + u + v /\ u \in Nat /\ v \in Nat
    BY SizedFacts
  <2> QED BY <2>1
<1>2. PICK f : Linked(f, b, n) /\ k \in 0..n /\ x = f[k]
  BY DEF Value
<1> HIDE DEF b, n
<1> QED BY <1>1, <1>2, LinkedFacts

LEMMA ValueNext ==
    ASSUME NEW la, NEW m, NEW u, NEW v, Sized(la, m, u, v), NEW k \in 0..u+v, NEW x,
           Value(la, m, k, x)
    PROVE  Value(la, m, k + 1, Aes(XorBytes(x, TagBlocks(la, m)[k + 1])))
<1> DEFINE b == TagBlocks(la, m)
           n == Len(b)
           h == k + 1
<1>1. n \in Nat /\ h \in 1..n /\ h \in 0..n /\ h - 1 = k
  <2>1. n = 1 + u + v /\ u \in Nat /\ v \in Nat
    BY SizedFacts
  <2> QED BY <2>1
<1>2. PICK f : Linked(f, b, n) /\ x = f[k]
  BY DEF Value
<1>3. Aes(XorBytes(x, b[h])) = f[h]
  <2> HIDE DEF b, n, h
  <2>1. f[h] = Aes(XorBytes(f[h - 1], b[h]))
    BY <1>1, <1>2, LinkedFacts
  <2> QED BY <1>1, <1>2, <2>1
<1>4. Value(la, m, h, f[h])
  BY <1>1, <1>2 DEF Value
<1> QED BY <1>3, <1>4

LEMMA ValueFirst ==
    ASSUME NEW la, NEW m, NEW u, NEW v, Sized(la, m, u, v)
    PROVE  Value(la, m, 1, Aes(block0(la, Len(m))))
<1> DEFINE b == TagBlocks(la, m)
           n == Len(b)
           z == Zeros(CcmBlock)
           o == block0(la, Len(m))
<1>1. n \in Nat /\ b[1] = o /\ u \in Nat /\ v \in Nat
  <2>1. n = 1 + u + v /\ u \in Nat /\ v \in Nat /\ b[1] = o
    BY SizedFacts DEF Laid
  <2> QED BY <2>1
<1>2. PICK f : Linked(f, b, n)
  BY <1>1, LinkedExists
<1>3. f[0] = z
  <2> HIDE DEF b, n
  <2> QED BY <1>1, <1>2, LinkedFacts
<1>4. Value(la, m, 0, z)
  <2>1. 0 \in 0..n
    BY <1>1
  <2> QED BY <1>2, <1>3, <2>1 DEF Value
<1>5. 0 \in 0..u+v /\ 0 + 1 = 1
  BY <1>1
<1>6. Value(la, m, 1, Aes(XorBytes(z, b[1])))
  BY <1>4, <1>5, ValueNext
<1>7. XorBytes(z, o) = o
  <2> DEFINE s == XorBytes(z, o)
  <2>1. Text(z) /\ Len(z) = CcmBlock /\ \A i \in 1..CcmBlock : z[i] = Zero
    BY BlockSize, ZerosText
  <2>2. Text(o) /\ Len(o) = CcmBlock
    BY Block0Facts
  <2>3. Text(s) /\ Len(s) = CcmBlock /\ \A i \in 1..CcmBlock : s[i] = Xor(z[i], o[i])
    <3> HIDE DEF z, o
    <3>1. Len(z) <= Len(o)
      BY <2>1, <2>2, BlockSize
    <3> QED BY <2>1, <2>2, <3>1, XorText
  <2> HIDE DEF z, o, s
  <2>4. \A i \in 1..Len(s) : s[i] = o[i]
    BY <2>1, <2>3, XorAgain
  <2>5. s = o
    BY <2>2, <2>3, <2>4, SameText
  <2> QED BY <2>5 DEF s
<1> HIDE DEF b, z, o
<1>8. Value(la, m, 1, Aes(o))
  BY <1>1, <1>6, <1>7
<1> QED BY <1>8 DEF o

LEMMA ValueLast ==
    ASSUME NEW la, NEW m, NEW u, NEW v, Sized(la, m, u, v), NEW x,
           Value(la, m, 1 + u + v, x)
    PROVE  x = Tag(Aad(la), m)
<1> DEFINE b == TagBlocks(la, m)
           n == Len(b)
<1>1. /\ n = 1 + u + v /\ u \in Nat /\ v \in Nat /\ Text(b) /\ la \in Nat /\ Text(m)
  BY SizedFacts
<1>2. n \in Nat
  BY <1>1
<1>3. PICK f : Linked(f, b, n) /\ x = f[1 + u + v]
  BY DEF Value
<1>4. Tag(Aad(la), m) = f[n]
  BY <1>1, <1>2, <1>3, TagIs
<1> QED BY <1>1, <1>3, <1>4

\* The next block of the additional data is y.
LEMMA ValueAuth ==
    ASSUME NEW la, NEW m, NEW u, NEW v, Sized(la, m, u, v), NEW t \in 0..u-1, NEW x,
           Value(la, m, t + 1, x), NEW y, Text(y), Len(y) = CcmBlock,
           \A i \in 1..CcmBlock : y[i] = AuthText(la)[t * CcmBlock + i]
    PROVE  /\ Value(la, m, t + 2, Aes(XorBytes(x, y)))
           /\ XorBytes(x, y) = XorBytes(y, x)
           /\ Text(XorBytes(x, y)) /\ Len(XorBytes(x, y)) = CcmBlock
<1> DEFINE b == TagBlocks(la, m)
           k == t + 1
           h == t + 2
<1>1. /\ u \in Nat /\ v \in Nat
      /\ \A g \in 1..1+u+v : Text(b[g]) /\ Len(b[g]) = CcmBlock
      /\ \A g \in 0..u-1 : \A i \in 1..CcmBlock :
             b[g + 2][i] = AuthText(la)[g * CcmBlock + i]
  BY SizedFacts DEF Laid
<1>2. k \in 0..u+v /\ k + 1 = h /\ h \in 1..1+u+v
  BY <1>1
<1>3. Value(la, m, k + 1, Aes(XorBytes(x, b[k + 1])))
  <2> HIDE DEF b
  <2>1. Value(la, m, k, x)
    OBVIOUS
  <2> HIDE DEF k, h
  <2> QED BY <1>2, <2>1, ValueNext DEF b
<1>4. \A i \in 1..CcmBlock : b[h][i] = AuthText(la)[t * CcmBlock + i]
  <2> HIDE DEF b
  <2> QED BY <1>1
<1> HIDE DEF b, k
<1>5. b[h] = y
  <2> DEFINE w == b[h]
  <2>1. Text(w) /\ Len(w) = CcmBlock /\ \A i \in 1..CcmBlock : w[i] = y[i]
    <3> HIDE DEF h
    <3> QED BY <1>1, <1>2, <1>4
  <2> HIDE DEF w
  <2>2. w = y
    BY <2>1, SameText
  <2> QED BY <2>2 DEF w
<1>6. Text(x) /\ Len(x) = CcmBlock
  BY ValueFacts
<1>7. Len(x) <= Len(y) /\ Len(x) = Len(y)
  BY <1>6, BlockSize
<1>8. XorBytes(x, y) = XorBytes(y, x)
  BY <1>6, <1>7, XorSwap
<1>9. Text(XorBytes(x, y)) /\ Len(XorBytes(x, y)) = CcmBlock
  BY <1>6, <1>7, XorText
<1> QED BY <1>2, <1>3, <1>5, <1>8, <1>9

\* The next block of the message is in y.
LEMMA ValueMessage ==
    ASSUME NEW la, NEW m, NEW u, NEW v, Sized(la, m, u, v), NEW j \in 0..v-1, NEW x,
           Value(la, m, u + j + 1, x), NEW y, Text(y), Len(y) = CcmBlock,
           \A i \in 1..CcmBlock : y[i] = Xor(PadBlock(m)[j * CcmBlock + i], x[i])
    PROVE  Value(la, m, u + j + 2, Aes(y))
<1> DEFINE b == TagBlocks(la, m)
           k == u + j + 1
           h == u + j + 2
           s == XorBytes(x, b[h])
<1>1. /\ u \in Nat /\ v \in Nat
      /\ \A g \in 1..1+u+v : Text(b[g]) /\ Len(b[g]) = CcmBlock
      /\ \A g \in 0..v-1 : \A i \in 1..CcmBlock :
             b[u + g + 2][i] = PadBlock(m)[g * CcmBlock + i]
  BY SizedFacts DEF Laid
<1>2. k \in 0..u+v /\ k + 1 = h /\ h \in 1..1+u+v
  BY <1>1
<1>3. Value(la, m, k + 1, Aes(XorBytes(x, b[k + 1])))
  <2> HIDE DEF b
  <2>1. Value(la, m, k, x)
    OBVIOUS
  <2> HIDE DEF k, h
  <2> QED BY <1>2, <2>1, ValueNext DEF b
<1>4. \A i \in 1..CcmBlock : b[h][i] = PadBlock(m)[j * CcmBlock + i]
  <2> HIDE DEF b
  <2> QED BY <1>1
<1> HIDE DEF b, k
<1>5. Text(x) /\ Len(x) = CcmBlock
  BY ValueFacts
<1>6. Text(s) /\ Len(s) = CcmBlock /\ \A i \in 1..CcmBlock : s[i] = Xor(x[i], b[h][i])
  <2> HIDE DEF h
  <2>1. Len(x) <= Len(b[h]) /\ Text(b[h])
    BY <1>1, <1>2, <1>5, BlockSize
  <2> QED BY <1>5, <2>1, XorText
<1> HIDE DEF s
<1>7. ASSUME NEW i \in 1..CcmBlock PROVE s[i] = y[i]
  <2>1. b[h][i] = PadBlock(m)[j * CcmBlock + i] /\ s[i] = Xor(x[i], b[h][i])
    <3> HIDE DEF h
    <3> QED BY <1>4, <1>6
  <2>2. y[i] = Xor(PadBlock(m)[j * CcmBlock + i], x[i])
    OBVIOUS
  <2> HIDE DEF h
  <2> QED BY <2>1, <2>2, XorAgain
<1>8. s = y
  BY <1>6, <1>7, SameText
<1> HIDE DEF h
<1>9. Value(la, m, h, Aes(s))
  BY <1>2, <1>3 DEF s
<1> QED BY <1>8, <1>9 DEF h


-----------------------------------------------------------------------------
(* CCM: what the code does *)

CcmFields == {"pc", "op", "aad", "msg", "pos", "lm", "counter", "B", "X", "ok",
              "la", "n", "in", "lb"}

\* What no turn of a loop changes.
Same(c, d) ==
    /\ DOMAIN c = CcmFields /\ DOMAIN d = CcmFields
    /\ d.op = c.op /\ d.ok = c.ok /\ d.la = c.la /\ d.n = c.n /\ d.in = c.in /\ d.lb = c.lb

\* The message in a buffer that is sealed, or opened.
PlainOf(op, raw, n) ==
    [i \in 1..n |-> IF op = "enc" THEN raw[i] ELSE Xor(raw[i], KByte(i))]

LEMMA PlainOfFacts ==
    ASSUME NEW op, NEW raw, NEW n \in Nat
    PROVE  /\ Text(PlainOf(op, raw, n)) /\ Len(PlainOf(op, raw, n)) = n
           /\ \A i \in 1..n : PlainOf(op, raw, n)[i] =
                                  IF op = "enc" THEN raw[i] ELSE Xor(raw[i], KByte(i))
<1> DEFINE s == PlainOf(op, raw, n)
<1>1. /\ DOMAIN s = 1..n /\ s = [i \in 1..n |-> s[i]]
      /\ \A i \in 1..n : s[i] = IF op = "enc" THEN raw[i] ELSE Xor(raw[i], KByte(i))
  BY DEF PlainOf
<1> HIDE DEF s
<1>2. Text(s) /\ Len(s) = n
  BY <1>1, MapIsText
<1> QED BY <1>1, <1>2 DEF s

\* The buffer msg: the first pos bytes are done.
Done(msg, raw, pos, total) ==
    /\ Text(raw) /\ Len(raw) = total /\ Text(msg) /\ Len(msg) = total
    /\ \A i \in 1..pos : msg[i] = Xor(raw[i], KByte(i))
    /\ \A i \in 1..total : i > pos => msg[i] = raw[i]

LEMMA MacFacts ==
    ASSUME NEW c, DOMAIN c = CcmFields, Text(c.msg), Text(c.B), Len(c.B) = CcmBlock,
           Text(c.X), Len(c.X) = CcmBlock, NEW k \in 1..CcmBlock, c.pos \in Nat,
           c.pos + k <= Len(c.msg), NEW q, q = Mac(c, k)
    PROVE  /\ Same(c, q) /\ q.pc = c.pc /\ q.aad = c.aad /\ q.pos = c.pos /\ q.lm = c.lm
           /\ q.counter = c.counter /\ q.msg = c.msg
           /\ q.X = Aes(q.B) /\ Text(q.B) /\ Len(q.B) = CcmBlock
           /\ \A i \in 1..k : q.B[i] = Xor(c.msg[c.pos + i], c.X[i])
           /\ \A i \in 1..CcmBlock : i > k => q.B[i] = c.B[i]
<1> DEFINE p == Part(c.msg, c.pos, k)
           x == Part(c.X, 0, k)
           y == XorBytes(p, x)
           b == Copy(c.B, 0, y)
<1>1. CcmBlock \in Nat /\ k \in Nat /\ 0 \in Nat /\ 0 + k <= Len(c.X)
  BY BlockSize
<1>2. q = [c EXCEPT !.B = b, !.X = Aes(b)]
  BY DEF Mac
<1>3. Text(p) /\ Len(p) = k /\ \A i \in 1..k : p[i] = c.msg[c.pos + i]
  BY <1>1, PartText
<1>4. Text(x) /\ Len(x) = k /\ \A i \in 1..k : x[i] = c.X[i]
  <2>1. Text(x) /\ Len(x) = k /\ \A i \in 1..k : x[i] = c.X[0 + i]
    BY <1>1, PartText
  <2>2. \A i \in 1..k : 0 + i = i
    OBVIOUS
  <2> HIDE DEF x
  <2> QED BY <2>1, <2>2
<1> HIDE DEF p, x
<1>5. Text(y) /\ Len(y) = k /\ \A i \in 1..k : y[i] = Xor(p[i], x[i])
  <2>1. Len(p) <= Len(x)
    BY <1>1, <1>3, <1>4
  <2> QED BY <2>1, <1>3, <1>4, XorText
<1> HIDE DEF y
<1>6. /\ Text(b) /\ Len(b) = CcmBlock /\ \A i \in 1..k : b[i] = y[i]
      /\ \A i \in 1..CcmBlock : i > k => b[i] = c.B[i]
  <2>1. 0 + Len(y) <= Len(c.B)
    BY <1>1, <1>5
  <2>2. /\ Text(b) /\ Len(b) = Len(c.B)
        /\ \A i \in 1..Len(y) : b[0 + i] = y[i]
        /\ \A i \in 1..Len(c.B) : i > 0 + Len(y) => b[i] = c.B[i]
    <3> DEFINE a == c.B
    <3>1. Text(a) /\ 0 \in Nat /\ Text(y) /\ 0 + Len(y) <= Len(a)
      BY <1>1, <1>5, <2>1
    <3> HIDE DEF a
    <3>2. /\ Text(Copy(a, 0, y)) /\ Len(Copy(a, 0, y)) = Len(a)
          /\ \A i \in 1..Len(y) : Copy(a, 0, y)[0 + i] = y[i]
          /\ \A i \in 1..Len(a) : i > 0 + Len(y) => Copy(a, 0, y)[i] = a[i]
      BY ONLY <3>1, CopyText
    <3> QED BY <3>2 DEF a
  <2>3. 0 + k = k /\ \A i \in 1..k : 0 + i = i
    OBVIOUS
  <2> HIDE DEF b
  <2> QED BY <2>2, <2>3, <1>5
<1> HIDE DEF b
<1>7. /\ Same(c, q) /\ q.pc = c.pc /\ q.aad = c.aad /\ q.pos = c.pos /\ q.lm = c.lm
      /\ q.counter = c.counter /\ q.msg = c.msg /\ q.B = b /\ q.X = Aes(b)
  BY <1>2 DEF Same, CcmFields
<1> QED BY <1>3, <1>4, <1>5, <1>6, <1>7

LEMMA EncryptFacts ==
    ASSUME NEW c, DOMAIN c = CcmFields, NEW k \in 1..CcmBlock, NEW j \in Nat,
           c.pos = j * CcmBlock, c.counter = j + 1, NEW raw, NEW total,
           Done(c.msg, raw, c.pos, total), c.pos + k <= total, NEW q, q = Encrypt(c, k)
    PROVE  /\ Same(c, q) /\ q.pc = c.pc /\ q.aad = c.aad /\ q.pos = c.pos /\ q.lm = c.lm
           /\ q.counter = c.counter /\ q.B = c.B /\ q.X = c.X
           /\ Done(q.msg, raw, c.pos + k, total)
<1> DEFINE pos == c.pos
           p == Part(c.msg, pos, k)
           o == Aes(CounterBlock(c.counter))
           x == Part(o, 0, k)
           y == XorBytes(p, x)
           b == Copy(c.msg, pos, y)
<1>1. /\ CcmBlock \in Nat /\ k \in Nat /\ 0 \in Nat /\ pos \in Nat /\ k <= CcmBlock
  BY BlockSize
<1>2. q = [c EXCEPT !.msg = b]
  BY DEF Encrypt
<1>3. Text(o) /\ Len(o) = CcmBlock /\ \A i \in 1..CcmBlock : o[i] = KByte(pos + i)
  BY AesText, KByteIs
<1>4. /\ Text(raw) /\ Len(raw) = total /\ Text(c.msg) /\ Len(c.msg) = total
      /\ \A i \in 1..pos : c.msg[i] = Xor(raw[i], KByte(i))
      /\ \A i \in 1..total : i > pos => c.msg[i] = raw[i]
  BY DEF Done
<1>5. total \in Nat /\ pos + k <= Len(c.msg)
  BY <1>4, TextLength
<1> HIDE DEF o, pos
<1>6. Text(p) /\ Len(p) = k /\ \A i \in 1..k : p[i] = c.msg[pos + i]
  BY <1>1, <1>4, <1>5, PartText
<1>7. Text(x) /\ Len(x) = k /\ \A i \in 1..k : x[i] = o[i]
  <2>0. 0 + k <= Len(o)
    BY <1>1, <1>3
  <2>1. Text(x) /\ Len(x) = k /\ \A i \in 1..k : x[i] = o[0 + i]
    BY <2>0, <1>1, <1>3, PartText
  <2>2. \A i \in 1..k : 0 + i = i
    OBVIOUS
  <2> HIDE DEF x
  <2> QED BY <2>1, <2>2
<1> HIDE DEF p, x
<1>8. Text(y) /\ Len(y) = k /\ \A i \in 1..k : y[i] = Xor(p[i], x[i])
  <2>1. Len(p) <= Len(x)
    BY <1>1, <1>6, <1>7
  <2> QED BY <2>1, <1>6, <1>7, XorText
<1> HIDE DEF y
<1>9. /\ Text(b) /\ Len(b) = total /\ \A i \in 1..pos : b[i] = c.msg[i]
      /\ \A i \in 1..k : b[pos + i] = y[i]
      /\ \A i \in 1..total : i > pos + k => b[i] = c.msg[i]
  <2>1. pos + Len(y) <= Len(c.msg)
    BY <1>5, <1>8
  <2>2. /\ Text(b) /\ Len(b) = Len(c.msg) /\ \A i \in 1..pos : b[i] = c.msg[i]
        /\ \A i \in 1..Len(y) : b[pos + i] = y[i]
        /\ \A i \in 1..Len(c.msg) : i > pos + Len(y) => b[i] = c.msg[i]
    <3> DEFINE a == c.msg
    <3>1. Text(a) /\ pos \in Nat /\ Text(y) /\ pos + Len(y) <= Len(a)
      BY <1>1, <1>4, <1>8, <2>1
    <3> HIDE DEF a
    <3>2. /\ Text(Copy(a, pos, y)) /\ Len(Copy(a, pos, y)) = Len(a)
          /\ \A i \in 1..pos : Copy(a, pos, y)[i] = a[i]
          /\ \A i \in 1..Len(y) : Copy(a, pos, y)[pos + i] = y[i]
          /\ \A i \in 1..Len(a) : i > pos + Len(y) => Copy(a, pos, y)[i] = a[i]
      BY ONLY <3>1, CopyText
    <3> QED BY <3>2 DEF a
  <2> HIDE DEF b
  <2> QED BY <2>2, <1>4, <1>8
<1> HIDE DEF b
<1>10. /\ Same(c, q) /\ q.pc = c.pc /\ q.aad = c.aad /\ q.pos = c.pos /\ q.lm = c.lm
       /\ q.counter = c.counter /\ q.B = c.B /\ q.X = c.X /\ q.msg = b
  BY <1>2 DEF Same, CcmFields
<1>11. ASSUME NEW i \in 1..pos + k PROVE b[i] = Xor(raw[i], KByte(i))
  <2>1. CASE i <= pos
    BY <2>1, <1>1, <1>4, <1>9
  <2>2. CASE i > pos
    <3> DEFINE h == i - pos
    <3>1. h \in 1..k /\ i = pos + h /\ h \in 1..CcmBlock /\ i \in 1..total
      <4>1. c.pos + k <= total
        OBVIOUS
      <4> QED BY <4>1, <2>2, <1>1, <1>5 DEF pos
    <3> HIDE DEF h
    <3>2. b[i] = Xor(c.msg[i], o[h])
      BY <3>1, <1>6, <1>7, <1>8, <1>9
    <3>3. c.msg[i] = raw[i] /\ o[h] = KByte(i)
      BY <3>1, <2>2, <1>3, <1>4
    <3> QED BY <3>2, <3>3
  <2> QED BY <2>1, <2>2, <1>1
<1>12. ASSUME NEW i \in 1..total, i > pos + k PROVE b[i] = raw[i]
  <2>1. i > pos
    BY <1>1, <1>5, <1>12
  <2> QED BY <2>1, <1>4, <1>9, <1>12
<1>13. Done(b, raw, pos + k, total)
  BY <1>4, <1>9, <1>11, <1>12 DEF Done
<1> QED BY <1>10, <1>13 DEF pos

\* q is c after one turn, for k bytes of the message at pos.
Turned(c, q, raw, n, k) ==
    /\ Same(c, q) /\ q.pc = c.pc /\ q.aad = c.aad /\ q.pos = c.pos /\ q.lm = c.lm
    /\ q.counter = c.counter
    /\ Done(q.msg, raw, c.pos + k, n + M)
    /\ q.X = Aes(q.B) /\ Text(q.B) /\ Len(q.B) = CcmBlock
    /\ \A i \in 1..k : q.B[i] = Xor(PlainOf(c.op, raw, n)[c.pos + i], c.X[i])
    /\ \A i \in 1..CcmBlock : i > k => q.B[i] = c.B[i]

LEMMA BothFacts ==
    ASSUME NEW c, DOMAIN c = CcmFields, c.op \in {"enc", "dec"},
           Text(c.B), Len(c.B) = CcmBlock, Text(c.X), Len(c.X) = CcmBlock,
           NEW k \in 1..CcmBlock, NEW j \in Nat, c.pos = j * CcmBlock, c.counter = j + 1,
           NEW raw, NEW n \in Nat, Done(c.msg, raw, c.pos, n + M), c.pos + k <= n,
           NEW q, q = Both(c, k)
    PROVE  Turned(c, q, raw, n, k)
<1> DEFINE pos == c.pos
           total == n + M
<1>1. /\ CcmBlock \in Nat /\ k \in Nat /\ pos \in Nat /\ total \in Nat /\ M \in Nat
      /\ pos + k <= total /\ \A i \in 1..k : pos + i \in 1..n /\ pos + i \in 1..total
  <2>1. CcmBlock \in Nat /\ M \in Nat
    BY BlockSize
  <2>2. pos \in Nat
    BY <2>1
  <2> HIDE DEF pos
  <2>3. pos + k <= n
    BY DEF pos
  <2> QED BY <2>1, <2>2, <2>3
<1>2. \A i \in 1..n : PlainOf(c.op, raw, n)[i] =
          IF c.op = "enc" THEN raw[i] ELSE Xor(raw[i], KByte(i))
  BY PlainOfFacts
<1>3. CASE c.op = "enc"
  <2> DEFINE h == Mac(c, k)
  <2>1. q = Encrypt(h, k)
    BY <1>3 DEF Both
  <2>2. Text(c.msg) /\ Len(c.msg) = total /\ \A i \in 1..total : i > pos => c.msg[i] = raw[i]
    BY DEF Done
  <2> HIDE DEF total
  <2>3. /\ Same(c, h) /\ h.pc = c.pc /\ h.aad = c.aad /\ h.pos = c.pos /\ h.lm = c.lm
        /\ h.counter = c.counter /\ h.msg = c.msg
        /\ h.X = Aes(h.B) /\ Text(h.B) /\ Len(h.B) = CcmBlock
        /\ \A i \in 1..k : h.B[i] = Xor(c.msg[pos + i], c.X[i])
        /\ \A i \in 1..CcmBlock : i > k => h.B[i] = c.B[i]
    <3>1. /\ DOMAIN c = CcmFields /\ Text(c.msg) /\ Text(c.B) /\ Len(c.B) = CcmBlock
          /\ Text(c.X) /\ Len(c.X) = CcmBlock /\ k \in 1..CcmBlock /\ c.pos \in Nat
          /\ c.pos + k <= Len(c.msg) /\ h = Mac(c, k)
      BY <2>2, <1>1 DEF total
    <3> HIDE DEF h, pos
    <3>2. /\ Same(c, h) /\ h.pc = c.pc /\ h.aad = c.aad /\ h.pos = c.pos /\ h.lm = c.lm
          /\ h.counter = c.counter /\ h.msg = c.msg
          /\ h.X = Aes(h.B) /\ Text(h.B) /\ Len(h.B) = CcmBlock
          /\ \A i \in 1..k : h.B[i] = Xor(c.msg[c.pos + i], c.X[i])
          /\ \A i \in 1..CcmBlock : i > k => h.B[i] = c.B[i]
      <4> DEFINE g == h
      <4>1. g = Mac(c, k)
        BY <3>1
      <4> HIDE DEF g
      <4> SUFFICES /\ Same(c, g) /\ g.pc = c.pc /\ g.aad = c.aad /\ g.pos = c.pos /\ g.lm = c.lm
                   /\ g.counter = c.counter /\ g.msg = c.msg
                   /\ g.X = Aes(g.B) /\ Text(g.B) /\ Len(g.B) = CcmBlock
                   /\ \A i \in 1..k : g.B[i] = Xor(c.msg[c.pos + i], c.X[i])
                   /\ \A i \in 1..CcmBlock : i > k => g.B[i] = c.B[i]
        BY DEF g
      <4> QED BY ONLY <3>1, <4>1, MacFacts, SMTT(60)
    <3> QED BY <3>2 DEF pos
  <2> HIDE DEF h
  <2>4. /\ Same(h, q) /\ q.pc = h.pc /\ q.aad = h.aad /\ q.pos = h.pos /\ q.lm = h.lm
        /\ q.counter = h.counter /\ q.B = h.B /\ q.X = h.X
        /\ Done(q.msg, raw, h.pos + k, total)
    <3>1. DOMAIN h = CcmFields /\ h.pos = j * CcmBlock /\ h.counter = j + 1
      BY <2>3 DEF Same
    <3>2. Done(h.msg, raw, h.pos, total) /\ h.pos + k <= total
      BY <2>3, <1>1 DEF total
    <3> QED BY <2>1, <3>1, <3>2, EncryptFacts
  <2>5. ASSUME NEW i \in 1..k
        PROVE  h.B[i] = Xor(PlainOf(c.op, raw, n)[pos + i], c.X[i])
    <3>1. pos + i \in 1..n /\ pos + i \in 1..total /\ pos + i > pos
      BY <1>1
    <3>2. PlainOf(c.op, raw, n)[pos + i] = raw[pos + i] /\ c.msg[pos + i] = raw[pos + i]
      BY <3>1, <1>2, <1>3, <2>2
    <3> QED BY <3>2, <2>3
  <2>6. Same(c, q)
    BY <2>3, <2>4 DEF Same
  <2> QED BY <2>3, <2>4, <2>5, <2>6 DEF Turned, total
<1>4. CASE c.op # "enc"
  <2> DEFINE h == Encrypt(c, k)
  <2>1. q = Mac(h, k)
    BY <1>4 DEF Both
  <2> HIDE DEF total
  <2>2. /\ Same(c, h) /\ h.pc = c.pc /\ h.aad = c.aad /\ h.pos = c.pos /\ h.lm = c.lm
        /\ h.counter = c.counter /\ h.B = c.B /\ h.X = c.X
        /\ Done(h.msg, raw, pos + k, total)
    <3>1. Done(c.msg, raw, c.pos, total) /\ c.pos + k <= total
      BY <1>1 DEF total
    <3> QED BY <3>1, EncryptFacts
  <2> HIDE DEF h
  <2>3. /\ Text(h.msg) /\ Len(h.msg) = total
        /\ \A i \in 1..pos + k : h.msg[i] = Xor(raw[i], KByte(i))
    BY <2>2 DEF Done
  <2>4. /\ Same(h, q) /\ q.pc = h.pc /\ q.aad = h.aad /\ q.pos = h.pos /\ q.lm = h.lm
        /\ q.counter = h.counter /\ q.msg = h.msg
        /\ q.X = Aes(q.B) /\ Text(q.B) /\ Len(q.B) = CcmBlock
        /\ \A i \in 1..k : q.B[i] = Xor(h.msg[h.pos + i], h.X[i])
        /\ \A i \in 1..CcmBlock : i > k => q.B[i] = h.B[i]
    <3>1. /\ DOMAIN h = CcmFields /\ h.pos \in Nat /\ h.pos + k <= Len(h.msg)
          /\ Text(h.B) /\ Len(h.B) = CcmBlock /\ Text(h.X) /\ Len(h.X) = CcmBlock
      BY <1>1, <2>2, <2>3 DEF Same
    <3>2. Text(h.msg) /\ k \in 1..CcmBlock /\ q = Mac(h, k)
      BY <2>1, <2>3
    <3> QED BY ONLY <3>1, <3>2, MacFacts, SMTT(60)
  <2>5. ASSUME NEW i \in 1..k
        PROVE  q.B[i] = Xor(PlainOf(c.op, raw, n)[pos + i], c.X[i])
    <3>1. pos + i \in 1..n /\ pos + i \in 1..pos + k
      BY <1>1
    <3>2. PlainOf(c.op, raw, n)[pos + i] = h.msg[pos + i]
      BY <3>1, <1>2, <1>4, <2>3
    <3> QED BY <3>2, <2>2, <2>4
  <2>6. Same(c, q)
    BY <2>2, <2>4 DEF Same
  <2> QED BY <2>2, <2>4, <2>5, <2>6 DEF Turned, total
<1> QED BY <1>3, <1>4


-----------------------------------------------------------------------------
(* CCM: the additional data that is left *)

LEMMA Multiples ==
    ASSUME NEW P \in Nat \ {0}, NEW a \in Nat, NEW b \in Nat
    PROVE  /\ a * P < b * P => a < b
           /\ a * P = b * P => a = b
           /\ (a + 1) * P = a * P + P /\ a * P \in Nat /\ b * P \in Nat
<1>1. a * P \in Nat /\ b * P \in Nat /\ (a + 1) * P = a * P + P
  OBVIOUS
<1>2. ASSUME a >= b PROVE a * P >= b * P
  <2> DEFINE d == a - b
  <2>1. d \in Nat /\ a = b + d
    BY <1>2
  <2> HIDE DEF d
  <2>2. a * P = b * P + d * P /\ d * P \in Nat
    BY <2>1
  <2> QED BY <2>2, <1>1
<1>3. ASSUME a < b PROVE a * P < b * P
  <2> DEFINE d == b - (a + 1)
  <2>1. d \in Nat /\ b = (a + 1) + d
    BY <1>3
  <2> HIDE DEF d
  <2>2. b * P = (a + 1) * P + d * P /\ d * P \in Nat
    BY <2>1
  <2> QED BY <2>2, <1>1
<1>4. ASSUME b < a PROVE b * P < a * P
  <2> DEFINE d == a - (b + 1)
  <2>1. d \in Nat /\ a = (b + 1) + d
    BY <1>4
  <2> HIDE DEF d
  <2>2. a * P = (b + 1) * P + d * P /\ d * P \in Nat /\ (b + 1) * P = b * P + P
    BY <2>1
  <2> QED BY <2>2, <1>1
<1>5. a * P < b * P => a < b
  <2> SUFFICES ASSUME a * P < b * P, ~(a < b) PROVE FALSE
    OBVIOUS
  <2>1. a * P >= b * P
    BY <1>2
  <2> QED BY <2>1, <1>1
<1>6. a * P = b * P => a = b
  <2> SUFFICES ASSUME a * P = b * P, a # b PROVE FALSE
    OBVIOUS
  <2>1. a < b \/ b < a
    OBVIOUS
  <2>2. a * P < b * P \/ b * P < a * P
    BY <2>1, <1>3, <1>4
  <2> QED BY <2>2, <1>1
<1> QED BY <1>1, <1>5, <1>6

\* r is what is left of the additional data after t blocks.
Left(r, la, t) ==
    /\ Text(r) /\ t * CcmBlock + Len(r) <= Len(AuthText(la))
    /\ Len(AuthText(la)) < t * CcmBlock + Len(r) + CcmBlock
    /\ \A i \in 1..Len(r) : AuthText(la)[t * CcmBlock + i] = r[i]
    /\ \A i \in 1..Len(AuthText(la)) : i > t * CcmBlock + Len(r) => AuthText(la)[i] = Zero

LEMMA LeftBounds ==
    ASSUME NEW la, NEW t \in Nat, NEW u \in Nat, NEW r, Left(r, la, t),
           Len(AuthText(la)) = u * CcmBlock
    PROVE  /\ r = <<>> => t = u
           /\ r # <<>> => t \in 0..u-1
           /\ r # <<>> /\ Len(r) <= CcmBlock => u = t + 1
<1> DEFINE e == t * CcmBlock
           w == u * CcmBlock
           n == Len(r)
           t1 == t + 1
           t2 == t1 + 1
<1>1. /\ Text(r) /\ e + n <= w /\ w < e + n + CcmBlock
  BY DEF Left
<1>2. n \in Nat /\ CcmBlock \in Nat \ {0} /\ (r = <<>> <=> n = 0)
  BY <1>1, TextLength, BlockSize, EmptyText
<1>3. /\ t1 \in Nat /\ t2 \in Nat /\ e \in Nat /\ w \in Nat
      /\ t1 * CcmBlock = e + CcmBlock
      /\ t2 * CcmBlock = t1 * CcmBlock + CcmBlock
      /\ e < w => t < u
      /\ w < t1 * CcmBlock => u < t1
      /\ w < t2 * CcmBlock => u < t2
      /\ w < e => u < t
  <2>1. t1 \in Nat /\ t2 \in Nat
    OBVIOUS
  <2>2. (e < w => t < u) /\ t1 * CcmBlock = e + CcmBlock /\ e \in Nat /\ w \in Nat
    BY <1>2, Multiples
  <2> HIDE DEF t1
  <2>3. (w < t1 * CcmBlock => u < t1) /\ t2 * CcmBlock = t1 * CcmBlock + CcmBlock
    BY <1>2, <2>1, Multiples
  <2> HIDE DEF t2
  <2>4. w < t2 * CcmBlock => u < t2
    BY <1>2, <2>1, Multiples
  <2>5. w < e => u < t
    BY <1>2, Multiples
  <2> QED BY <2>1, <2>2, <2>3, <2>4, <2>5
<1> DEFINE w1 == t1 * CcmBlock
           w2 == t2 * CcmBlock
<1>4. /\ w1 = e + CcmBlock /\ w2 = w1 + CcmBlock /\ (e < w => t < u)
      /\ (w < w1 => u < t1) /\ (w < w2 => u < t2)
  BY <1>3
<1>5. e = w => t = u
  BY <1>2, Multiples
<1> HIDE DEF e, w, n, w1, w2
<1>6. n = 0 => t = u
  <2> SUFFICES ASSUME n = 0 PROVE t = u
    OBVIOUS
  <2>1. e <= w /\ w < w1
    BY <1>1, <1>2, <1>3, <1>4
  <2>2. e = w \/ e < w
    BY <2>1, <1>3
  <2> QED BY <2>1, <2>2, <1>4, <1>5
<1>7. n # 0 => t < u
  BY <1>1, <1>2, <1>3, <1>4
<1>8. n # 0 /\ n <= CcmBlock => u < t2
  <2> SUFFICES ASSUME n # 0, n <= CcmBlock PROVE w < w2
    BY <1>4
  <2> QED BY <1>1, <1>2, <1>3, <1>4
<1> QED BY <1>2, <1>6, <1>7, <1>8 DEF n

\* p is block t of the additional data, from 0.
IsBlock(p, la, t) ==
    /\ Text(p) /\ Len(p) = CcmBlock
    /\ \A i \in 1..CcmBlock : p[i] = AuthText(la)[t * CcmBlock + i]

LEMMA LeftNext ==
    ASSUME NEW la, NEW t \in Nat, NEW r, Left(r, la, t), Len(r) > CcmBlock
    PROVE  /\ Left(Part(r, CcmBlock, Len(r) - CcmBlock), la, t + 1)
           /\ IsBlock(Part(r, 0, CcmBlock), la, t)
<1> DEFINE e == t * CcmBlock
           e1 == (t + 1) * CcmBlock
           n == Len(r)
           k == n - CcmBlock
           s == Part(r, CcmBlock, k)
           p == Part(r, 0, CcmBlock)
           A == AuthText(la)
<1>1. /\ Text(r) /\ e + n <= Len(A) /\ Len(A) < e + n + CcmBlock
      /\ \A i \in 1..n : A[e + i] = r[i]
      /\ \A i \in 1..Len(A) : i > e + n => A[i] = Zero
  BY DEF Left
<1>2. n \in Nat /\ CcmBlock \in Nat \ {0} /\ n > CcmBlock
  BY <1>1, TextLength, BlockSize
<1>3. e1 = e + CcmBlock /\ e \in Nat
  BY <1>2, Multiples
<1> HIDE DEF e, e1, A
<1>4. k \in Nat /\ k + CcmBlock = n
  BY <1>2
<1> HIDE DEF n, k
<1>5. Text(s) /\ Len(s) = k /\ \A i \in 1..k : s[i] = r[CcmBlock + i]
  <2>1. CcmBlock \in Nat /\ CcmBlock + k <= Len(r)
    BY <1>2, <1>4 DEF n
  <2> QED BY <2>1, <1>1, <1>4, PartText
<1>6. Text(p) /\ Len(p) = CcmBlock /\ \A i \in 1..CcmBlock : p[i] = r[i]
  <2>1. 0 \in Nat /\ CcmBlock \in Nat /\ 0 + CcmBlock <= Len(r)
    BY <1>2 DEF n
  <2>2. Text(p) /\ Len(p) = CcmBlock /\ \A i \in 1..CcmBlock : p[i] = r[0 + i]
    BY <2>1, <1>1, PartText
  <2>3. \A i \in 1..CcmBlock : 0 + i = i
    BY <1>2
  <2> HIDE DEF p
  <2> QED BY <2>2, <2>3
<1> HIDE DEF s, p
<1>7. e1 + k = e + n
  BY <1>2, <1>3, <1>4
<1>8. ASSUME NEW i \in 1..k PROVE A[e1 + i] = s[i]
  <2> DEFINE h == CcmBlock + i
  <2>1. h \in 1..n /\ e1 + i = e + h
    BY <1>2, <1>3, <1>4
  <2>2. s[i] = r[h]
    BY <1>5
  <2> HIDE DEF h
  <2> QED BY <2>1, <2>2, <1>1
<1>9. Left(s, la, t + 1)
  BY <1>1, <1>5, <1>7, <1>8 DEF Left, e1, A
<1>10. \A i \in 1..CcmBlock : p[i] = A[e + i]
  <2>1. \A i \in 1..CcmBlock : i \in 1..n
    BY <1>2
  <2> QED BY <2>1, <1>1, <1>6
<1>11. IsBlock(p, la, t)
  BY <1>6, <1>10 DEF IsBlock, e, A
<1> QED BY <1>9, <1>11 DEF n, k, s, p

LEMMA LeftLast ==
    ASSUME NEW la, NEW t \in Nat, NEW r, Left(r, la, t), Len(r) <= CcmBlock,
           (t + 1) * CcmBlock <= Len(AuthText(la)), Text(AuthText(la))
    PROVE  LET b == Copy(Zeros(CcmBlock), 0, r)
           IN  /\ Text(b) /\ Len(b) = CcmBlock
               /\ \A i \in 1..CcmBlock : b[i] = AuthText(la)[t * CcmBlock + i]
<1> DEFINE e == t * CcmBlock
           n == Len(r)
           A == AuthText(la)
           z == Zeros(CcmBlock)
           b == Copy(z, 0, r)
<1>1. /\ Text(r) /\ e + n <= Len(A)
      /\ \A i \in 1..n : A[e + i] = r[i]
      /\ \A i \in 1..Len(A) : i > e + n => A[i] = Zero
  BY DEF Left
<1>2. n \in Nat /\ CcmBlock \in Nat \ {0} /\ n <= CcmBlock /\ Len(A) \in Nat
  BY <1>1, TextLength, BlockSize
<1>3. e + CcmBlock <= Len(A) /\ e \in Nat
  BY <1>2, Multiples
<1>4. Text(z) /\ Len(z) = CcmBlock /\ \A i \in 1..CcmBlock : z[i] = Zero
  BY <1>2, ZerosText
<1> HIDE DEF e, A, z
<1>5. /\ Text(b) /\ Len(b) = CcmBlock /\ \A i \in 1..n : b[i] = r[i]
      /\ \A i \in 1..CcmBlock : i > n => b[i] = Zero
  <2>1. Text(z) /\ 0 \in Nat /\ Text(r) /\ 0 + Len(r) <= Len(z)
    BY <1>1, <1>2, <1>4
  <2>2. /\ Text(b) /\ Len(b) = Len(z) /\ \A i \in 1..Len(r) : b[0 + i] = r[i]
        /\ \A i \in 1..Len(z) : i > 0 + Len(r) => b[i] = z[i]
    BY ONLY <2>1, CopyText
  <2>3. 0 + n = n /\ \A i \in 1..n : 0 + i = i
    BY <1>2
  <2> HIDE DEF b
  <2> QED BY <2>2, <2>3, <1>4
<1> HIDE DEF b
<1>6. ASSUME NEW i \in 1..CcmBlock PROVE b[i] = A[e + i]
  <2>1. CASE i <= n
    BY <2>1, <1>1, <1>2, <1>5
  <2>2. CASE i > n
    <3>1. e + i \in 1..Len(A) /\ e + i > e + n
      BY <2>2, <1>2, <1>3
    <3> QED BY <2>2, <3>1, <1>1, <1>5
  <2> QED BY <2>1, <2>2, <1>2
<1> QED BY <1>5, <1>6 DEF b, z, e, A

\* The first block takes the length and the first bytes.
LEMMA LeftFirst ==
    ASSUME NEW la \in Nat, la # 0, NEW g \in Nat, g + 2 <= CcmBlock, g <= la,
           g + 2 = CcmBlock \/ g = la
    PROVE  LET b == Copy(Zeros(CcmBlock), 0, AadLength(la) \o Part(Aad(la), 0, g))
           IN  /\ Left(Part(Aad(la), g, la - g), la, 1)
               /\ Text(b) /\ Len(b) = CcmBlock
               /\ \A i \in 1..CcmBlock : b[i] = AuthText(la)[0 * CcmBlock + i]
<1> DEFINE A == AuthText(la)
           a == Aad(la)
           d == AadLength(la)
           k == la - g
           p == Part(a, 0, g)
           r == Part(a, g, k)
           x == d \o p
           z == Zeros(CcmBlock)
           b == Copy(z, 0, x)
<1>1. /\ Text(A) /\ la + 2 <= Len(A) /\ Len(A) < la + 2 + CcmBlock
      /\ \A i \in 1..2 : A[i] = {<<"la", la, i>>}
      /\ \A i \in 1..la : A[2 + i] = {<<"a", i>>}
      /\ \A i \in 1..Len(A) : i > la + 2 => A[i] = Zero
  BY AuthTextFacts
<1>2. PICK u \in Nat : Len(A) = u * CcmBlock
  BY AuthTextFacts
<1>3. CcmBlock \in Nat \ {0} /\ Len(A) \in Nat /\ k \in Nat /\ g + k = la
  BY <1>1, TextLength, BlockSize
<1>4. CcmBlock <= Len(A)
  <2> SUFFICES ASSUME Len(A) < CcmBlock PROVE FALSE
    BY <1>3
  <2>1. u * CcmBlock < 1 * CcmBlock
    <3>1. 1 * CcmBlock = CcmBlock
      BY <1>3
    <3> QED BY <1>2, <3>1
  <2>2. u < 1
    BY <2>1, <1>3, 1 \in Nat, Multiples
  <2>3. u = 0
    BY <2>2
  <2>4. 0 * CcmBlock = 0
    BY <1>3
  <2> QED BY <2>3, <2>4, <1>1, <1>2
<1>5. Text(d) /\ Len(d) = 2 /\ \A i \in 1..2 : d[i] = {<<"la", la, i>>}
  <2>1. DOMAIN d = 1..2 /\ d = [i \in 1..2 |-> d[i]] /\ \A i \in 1..2 : d[i] = {<<"la", la, i>>}
    BY DEF AadLength
  <2> HIDE DEF d
  <2> QED BY <2>1, 2 \in Nat, MapIsText
<1>6. Text(a) /\ Len(a) = la /\ \A i \in 1..la : a[i] = {<<"a", i>>}
  BY FreshBytes DEF Aad
<1> HIDE DEF A, a, d
<1>7. Text(p) /\ Len(p) = g /\ \A i \in 1..g : p[i] = a[i]
  <2>1. 0 \in Nat /\ 0 + g <= Len(a)
    BY <1>6
  <2>2. Text(p) /\ Len(p) = g /\ \A i \in 1..g : p[i] = a[0 + i]
    BY <2>1, <1>6, PartText
  <2>3. \A i \in 1..g : 0 + i = i
    OBVIOUS
  <2> HIDE DEF p
  <2> QED BY <2>2, <2>3
<1> HIDE DEF k
<1>8. Text(r) /\ Len(r) = k /\ \A i \in 1..k : r[i] = a[g + i]
  <2>1. g + k <= Len(a)
    BY <1>3, <1>6
  <2>2. Text(a) /\ g \in Nat /\ k \in Nat
    BY <1>3, <1>6
  <2> QED BY ONLY <2>1, <2>2, PartText
<1> HIDE DEF p, r
<1>9. /\ Text(x) /\ Len(x) = 2 + g /\ \A i \in 1..2 : x[i] = d[i]
      /\ \A i \in 1..g : x[2 + i] = p[i]
  <2>1. Text(d) /\ Text(p)
    BY <1>5, <1>7
  <2>2. /\ Text(x) /\ Len(x) = Len(d) + Len(p) /\ \A i \in 1..Len(d) : x[i] = d[i]
        /\ \A i \in 1..Len(p) : x[Len(d) + i] = p[i]
    BY ONLY <2>1, JoinText
  <2> HIDE DEF x
  <2> QED BY <2>2, <1>5, <1>7
<1> HIDE DEF x
<1>10. Text(z) /\ Len(z) = CcmBlock /\ \A i \in 1..CcmBlock : z[i] = Zero
  BY <1>3, ZerosText
<1> HIDE DEF z
<1>11. /\ Text(b) /\ Len(b) = CcmBlock /\ \A i \in 1..g+2 : b[i] = x[i]
       /\ \A i \in 1..CcmBlock : i > g + 2 => b[i] = Zero
  <2>1. Text(z) /\ 0 \in Nat /\ Text(x) /\ 0 + Len(x) <= Len(z)
    BY <1>3, <1>9, <1>10
  <2>2. /\ Text(b) /\ Len(b) = Len(z) /\ \A i \in 1..Len(x) : b[0 + i] = x[i]
        /\ \A i \in 1..Len(z) : i > 0 + Len(x) => b[i] = z[i]
    BY ONLY <2>1, CopyText
  <2>3. 0 + Len(x) = g + 2 /\ Len(x) = g + 2 /\ \A i \in 1..g+2 : 0 + i = i
    BY <1>9
  <2> HIDE DEF b
  <2> QED BY <2>2, <2>3, <1>10
<1> HIDE DEF b
<1>12. ASSUME NEW i \in 1..CcmBlock PROVE b[i] = A[i]
  <2>1. CASE i <= 2
    <3>1. i \in 1..2 /\ i \in 1..g+2
      BY <2>1
    <3> QED BY <3>1, <1>1, <1>5, <1>9, <1>11
  <2>2. CASE i > 2 /\ i <= g + 2
    <3> DEFINE h == i - 2
    <3>1. h \in 1..g /\ h \in 1..la /\ i = 2 + h /\ i \in 1..g+2
      BY <2>2
    <3> HIDE DEF h
    <3> QED BY <3>1, <1>1, <1>6, <1>7, <1>9, <1>11, ZenonT(60)
  <2>3. CASE i > g + 2
    <3>1. i > la + 2 /\ i \in 1..Len(A)
      BY <2>3, <1>3, <1>4
    <3> QED BY <2>3, <3>1, <1>1, <1>11
  <2> QED BY <2>1, <2>2, <2>3
<1>13. ASSUME NEW i \in 1..k PROVE A[CcmBlock + i] = r[i]
  <2> DEFINE h == g + i
  <2>1. h \in 1..la /\ CcmBlock + i = 2 + h
    BY <1>3
  <2>2. r[i] = a[h]
    BY <1>8
  <2> HIDE DEF h
  <2> QED BY <2>1, <2>2, <1>1, <1>6
<1>14. ASSUME NEW i \in 1..Len(A), i > CcmBlock + k PROVE A[i] = Zero
  <2>1. i > la + 2
    BY <1>3, <1>14
  <2> QED BY <2>1, <1>1
<1>15. CcmBlock + k <= Len(A) /\ Len(A) < CcmBlock + k + CcmBlock
  BY <1>1, <1>3, <1>4
<1>16. 1 * CcmBlock = CcmBlock /\ 0 * CcmBlock = 0
  BY <1>3
<1>17. Left(r, la, 1)
  BY <1>8, <1>13, <1>14, <1>15, <1>16 DEF Left, A
<1>18. \A i \in 1..CcmBlock : 0 * CcmBlock + i = i
  BY <1>3, <1>16
<1> QED BY <1>11, <1>12, <1>17, <1>18 DEF b, z, x, r, p, k, a, d, A


-----------------------------------------------------------------------------
(* CCM: the two phases *)

LEMMA SizedExists ==
    ASSUME NEW la \in Nat, NEW m, Text(m)
    PROVE  \E u, v : Sized(la, m, u, v)
<1>1. PICK u \in Nat : InBlocks(AuthText(la), u)
  BY AuthTextFacts DEF InBlocks
<1>2. PICK v \in Nat : InBlocks(PadBlock(m), v)
  BY PadBlockFacts DEF InBlocks
<1> QED BY <1>1, <1>2 DEF Sized

\* The record c seals, or opens, the buffer raw with n bytes of message.
Ongoing(c, raw, la, n) ==
    /\ DOMAIN c = CcmFields /\ c.op \in {"enc", "dec"} /\ c.ok = FALSE
    /\ la \in Nat /\ n \in Nat /\ Text(c.B) /\ Len(c.B) = CcmBlock
    /\ Done(c.msg, raw, c.pos, n + M)

AuthPhase(c, raw, la, n) ==
    /\ Ongoing(c, raw, la, n) /\ c.pos = 0 /\ c.lm = n /\ c.counter = 1
    /\ \E t \in Nat : /\ Left(c.aad, la, t)
                      /\ Value(la, PlainOf(c.op, raw, n), t + 1, c.X)

\* After j blocks of the message.
AfterBlocks(c, raw, la, n, j, u, v) ==
    /\ Ongoing(c, raw, la, n) /\ j \in Nat
    /\ c.pos = j * CcmBlock /\ c.lm \in Nat /\ c.pos + c.lm = n /\ c.counter = j + 1
    /\ Sized(la, PlainOf(c.op, raw, n), u, v)
    /\ Value(la, PlainOf(c.op, raw, n), u + j + 1, c.X)

BlocksPhase(c, raw, la, n) == \E j, u, v : AfterBlocks(c, raw, la, n, j, u, v)

\* q is c with the buffer raw, of n bytes of message, up to add_auth_data().
Starts(c, op, raw, la, n, q) ==
    /\ DOMAIN c = CcmFields /\ c.ok = FALSE /\ op \in {"enc", "dec"}
    /\ la \in Nat /\ n \in Nat /\ Text(raw) /\ Len(raw) = n + M
    /\ q = Start(c, op, Aad(la), raw, n)

Started(c, op, raw, la, n, q) ==
    /\ AuthPhase(q, raw, la, n) /\ q.pc = "auth" /\ q.op = op
    /\ q.la = c.la /\ q.n = c.n /\ q.in = c.in /\ q.lb = c.lb

LEMMA StartPhase ==
    ASSUME NEW c, NEW op, NEW raw, NEW la, NEW n, NEW q, Starts(c, op, raw, la, n, q)
    PROVE  Started(c, op, raw, la, n, q)
<1> SUFFICES ASSUME DOMAIN c = CcmFields, c.ok = FALSE, op \in {"enc", "dec"},
                    la \in Nat, n \in Nat, Text(raw), Len(raw) = n + M,
                    q = Start(c, op, Aad(la), raw, n)
             PROVE  /\ AuthPhase(q, raw, la, n) /\ q.pc = "auth" /\ q.op = op
                    /\ q.la = c.la /\ q.n = c.n /\ q.in = c.in /\ q.lb = c.lb
  BY DEF Starts, Started
<1> DEFINE a == Aad(la)
           o == block0(la, n)
           m == PlainOf(op, raw, n)
           h == [c EXCEPT !.op = op, !.aad = a, !.msg = raw, !.lm = n, !.pos = 0,
                          !.counter = 1, !.B = block0(Len(a), n)]
           A == AuthText(la)
<1>1. Text(a) /\ Len(a) = la /\ (a = <<>> <=> la = 0)
  <2>1. Text(a) /\ Len(a) = la
    BY FreshBytes DEF Aad
  <2> HIDE DEF a
  <2> QED BY <2>1, EmptyText
<1>2. q = Authenticated(h)
  BY DEF Start
<1>3. /\ DOMAIN h = CcmFields /\ h.op = op /\ h.aad = a /\ h.msg = raw /\ h.lm = n
      /\ h.pos = 0 /\ h.counter = 1 /\ h.B = o /\ h.ok = FALSE
      /\ h.la = c.la /\ h.n = c.n /\ h.in = c.in /\ h.lb = c.lb
  <2> HIDE DEF a
  <2> QED BY <1>1 DEF CcmFields
<1>4. Text(m) /\ Len(m) = n
  BY PlainOfFacts
<1> HIDE DEF m, h, a
<1>5. PICK u, v : Sized(la, m, u, v)
  BY <1>4, SizedExists
<1>6. Value(la, m, 1, Aes(o))
  BY <1>4, <1>5, ValueFirst
<1>7. CcmBlock \in Nat \ {0} /\ CcmBlock >= 2 /\ M \in Nat /\ 0 * CcmBlock = 0
  BY BlockSize
<1>8. Done(raw, raw, 0, n + M)
  BY DEF Done
<1> HIDE DEF o
<1>9. CASE a = <<>>
  <2>1. /\ q = [h EXCEPT !.B = Zeros(CcmBlock), !.X = Aes(o), !.pc = "auth"]
    BY <1>2, <1>3, <1>9 DEF Authenticated
  <2>2. /\ DOMAIN q = CcmFields /\ q.op = op /\ q.aad = <<>> /\ q.msg = raw /\ q.lm = n
        /\ q.pos = 0 /\ q.counter = 1 /\ q.B = Zeros(CcmBlock) /\ q.X = Aes(o) /\ q.ok = FALSE
        /\ q.pc = "auth" /\ q.la = c.la /\ q.n = c.n /\ q.in = c.in /\ q.lb = c.lb
    BY <2>1, <1>3, <1>9 DEF CcmFields
  <2>3. Text(Zeros(CcmBlock)) /\ Len(Zeros(CcmBlock)) = CcmBlock
    BY <1>7, ZerosText
  <2>4. Ongoing(q, raw, la, n)
    BY <2>2, <2>3, <1>8 DEF Ongoing
  <2>5. Left(<<>>, la, 0)
    <3>1. A = <<>> /\ Len(<<>>) = 0 /\ Text(<<>>)
      BY <1>1, <1>9, AuthTextFacts, EmptyText
    <3>2. /\ 0 * CcmBlock + 0 <= 0 /\ 0 < 0 * CcmBlock + 0 + CcmBlock /\ 1..0 = {}
      BY <1>7
    <3> QED BY <3>1, <3>2 DEF Left
  <2>6. 0 + 1 = 1 /\ 0 \in Nat
    OBVIOUS
  <2>7. AuthPhase(q, raw, la, n)
    BY <2>2, <2>4, <2>5, <2>6, <1>6 DEF AuthPhase, m
  <2> QED BY <2>2, <2>7
<1>10. CASE a # <<>>
  <2> DEFINE g == Least(CcmBlock - 2, la)
             b == Copy(Zeros(CcmBlock), 0, AadLength(la) \o Part(a, 0, g))
             y == XorBytes(b, Aes(o))
             r == Part(a, g, la - g)
  <2>1. q = [h EXCEPT !.B = y, !.X = Aes(y), !.aad = r, !.pc = "auth"]
    BY <1>1, <1>2, <1>3, <1>10 DEF Authenticated
  <2>2. /\ g \in Nat /\ g + 2 <= CcmBlock /\ g <= la /\ (g + 2 = CcmBlock \/ g = la)
        /\ la # 0
    BY <1>1, <1>7, <1>10 DEF Least
  <2> HIDE DEF g
  <2>3. /\ Left(r, la, 1) /\ Text(b) /\ Len(b) = CcmBlock
        /\ \A i \in 1..CcmBlock : b[i] = A[0 * CcmBlock + i]
    BY <2>2, LeftFirst DEF a
  <2> HIDE DEF b, r, A
  <2>4. /\ DOMAIN q = CcmFields /\ q.op = op /\ q.aad = r /\ q.msg = raw /\ q.lm = n
        /\ q.pos = 0 /\ q.counter = 1 /\ q.B = y /\ q.X = Aes(y) /\ q.ok = FALSE
        /\ q.pc = "auth" /\ q.la = c.la /\ q.n = c.n /\ q.in = c.in /\ q.lb = c.lb
    <3> HIDE DEF y
    <3> QED BY <2>1, <1>3 DEF CcmFields
  <2>5. 0 \in 0..u-1
    <3>1. u \in Nat /\ Len(A) = u * CcmBlock /\ la + 2 <= Len(A)
      BY <1>5, <2>2, SizedFacts, AuthTextFacts DEF A
    <3>2. u # 0
      BY <3>1, <1>7
    <3> QED BY <3>1, <3>2
  <2> DEFINE x == Aes(o)
  <2>6. /\ Value(la, m, 0 + 2, Aes(XorBytes(x, b))) /\ XorBytes(x, b) = XorBytes(b, x)
        /\ Text(XorBytes(x, b)) /\ Len(XorBytes(x, b)) = CcmBlock
    <3>1. Value(la, m, 0 + 1, x) /\ \A i \in 1..CcmBlock : b[i] = AuthText(la)[0 * CcmBlock + i]
      BY <1>6, <2>3 DEF A
    <3> HIDE DEF x
    <3> QED BY <1>5, <2>3, <2>5, <3>1, ValueAuth
  <2>7. Value(la, m, 1 + 1, Aes(y)) /\ Text(y) /\ Len(y) = CcmBlock /\ 1 \in Nat
    BY <2>6
  <2> HIDE DEF y
  <2>8. Ongoing(q, raw, la, n)
    BY <2>4, <2>7, <1>8 DEF Ongoing
  <2>9. AuthPhase(q, raw, la, n)
    BY <2>3, <2>4, <2>7, <2>8 DEF AuthPhase, m
  <2> QED BY <2>4, <2>9
<1> QED BY <1>9, <1>10

\* q is c after a whole block of additional data.
Authenticates(c, q, b) ==
    /\ Len(c.aad) > CcmBlock /\ b = XorBytes(c.X, Part(c.aad, 0, CcmBlock))
    /\ q = [c EXCEPT !.B = b, !.X = Aes(b),
                     !.aad = Part(c.aad, CcmBlock, Len(c.aad) - CcmBlock)]

LEMMA AuthStep ==
    ASSUME NEW c, NEW raw, NEW la, NEW n, AuthPhase(c, raw, la, n),
           NEW b, NEW q, Authenticates(c, q, b)
    PROVE  AuthPhase(q, raw, la, n) /\ Same(c, q) /\ q.pc = c.pc
<1> SUFFICES ASSUME Len(c.aad) > CcmBlock, b = XorBytes(c.X, Part(c.aad, 0, CcmBlock)),
                    q = [c EXCEPT !.B = b, !.X = Aes(b),
                                  !.aad = Part(c.aad, CcmBlock, Len(c.aad) - CcmBlock)]
             PROVE  AuthPhase(q, raw, la, n) /\ Same(c, q) /\ q.pc = c.pc
  BY DEF Authenticates
<1> DEFINE m == PlainOf(c.op, raw, n)
           r == c.aad
           s == Part(r, CcmBlock, Len(r) - CcmBlock)
           p == Part(r, 0, CcmBlock)
<1>1. /\ DOMAIN c = CcmFields /\ c.op \in {"enc", "dec"} /\ c.ok = FALSE
      /\ la \in Nat /\ n \in Nat /\ Text(c.B) /\ Len(c.B) = CcmBlock
      /\ Done(c.msg, raw, c.pos, n + M) /\ c.pos = 0 /\ c.lm = n /\ c.counter = 1
  BY DEF AuthPhase, Ongoing
<1>2. PICK t \in Nat : Left(r, la, t) /\ Value(la, m, t + 1, c.X)
  BY DEF AuthPhase
<1>3. Text(m)
  BY <1>1, PlainOfFacts
<1> HIDE DEF m
<1>4. PICK u, v : Sized(la, m, u, v)
  BY <1>1, <1>3, SizedExists
<1>5. /\ Left(s, la, t + 1) /\ Text(p) /\ Len(p) = CcmBlock
      /\ \A i \in 1..CcmBlock : p[i] = AuthText(la)[t * CcmBlock + i]
  <2>1. t \in Nat /\ Left(r, la, t) /\ Len(r) > CcmBlock
    BY <1>2
  <2> HIDE DEF r
  <2>2. /\ Left(Part(r, CcmBlock, Len(r) - CcmBlock), la, t + 1)
        /\ IsBlock(Part(r, 0, CcmBlock), la, t)
    BY ONLY <2>1, LeftNext
  <2> QED BY <2>2 DEF IsBlock
<1>6. t \in 0..u-1
  <2>1. u \in Nat /\ Len(AuthText(la)) = u * CcmBlock
    BY <1>4, SizedFacts
  <2>2. r # <<>>
    BY BlockSize, EmptyText
  <2> QED BY <1>2, <2>1, <2>2, LeftBounds
<1>7. DOMAIN q = CcmFields /\ q.B = b /\ q.X = Aes(b) /\ q.aad = s /\ Same(c, q)
      /\ q.pc = c.pc /\ q.pos = c.pos /\ q.lm = c.lm /\ q.counter = c.counter
      /\ q.msg = c.msg
  BY <1>1 DEF CcmFields, Same
<1> HIDE DEF p, s, r
<1>8. Value(la, m, t + 2, Aes(b)) /\ Text(b) /\ Len(b) = CcmBlock
  <2>1. b = XorBytes(c.X, p)
    BY DEF p, r
  <2> DEFINE x == c.X
  <2>2. Value(la, m, t + 1, x)
    BY <1>2
  <2> HIDE DEF x
  <2>3. /\ Value(la, m, t + 2, Aes(XorBytes(x, p)))
        /\ Text(XorBytes(x, p)) /\ Len(XorBytes(x, p)) = CcmBlock
    BY <1>4, <1>5, <1>6, <2>2, ValueAuth
  <2> QED BY <2>1, <2>3 DEF x
<1>9. t + 1 \in Nat /\ (t + 1) + 1 = t + 2
  OBVIOUS
<1>10. q.op = c.op /\ q.ok = c.ok
  BY <1>7 DEF Same
<1>11. Ongoing(q, raw, la, n)
  BY <1>1, <1>7, <1>8, <1>10 DEF Ongoing
<1>12. Value(la, PlainOf(q.op, raw, n), (t + 1) + 1, q.X)
  BY <1>7, <1>8, <1>9, <1>10 DEF m
<1>13. Left(q.aad, la, t + 1)
  BY <1>5, <1>7
<1>14. AuthPhase(q, raw, la, n)
  BY <1>1, <1>7, <1>9, <1>11, <1>12, <1>13 DEF AuthPhase
<1> QED BY <1>7, <1>14

LEMMA AuthEnd ==
    ASSUME NEW c, NEW raw, NEW la, NEW n, AuthPhase(c, raw, la, n),
           Len(c.aad) <= CcmBlock, NEW b, b = XorBytes(Copy(Zeros(CcmBlock), 0, c.aad), c.X),
           NEW q, q = IF c.aad = <<>> THEN [c EXCEPT !.pc = "blocks"]
                      ELSE [c EXCEPT !.pc = "blocks", !.B = b, !.X = Aes(b), !.aad = <<>>]
    PROVE  BlocksPhase(q, raw, la, n) /\ Same(c, q) /\ q.pc = "blocks"
<1> DEFINE m == PlainOf(c.op, raw, n)
           r == c.aad
           p == Copy(Zeros(CcmBlock), 0, r)
<1>1. /\ DOMAIN c = CcmFields /\ c.op \in {"enc", "dec"} /\ c.ok = FALSE
      /\ la \in Nat /\ n \in Nat /\ Text(c.B) /\ Len(c.B) = CcmBlock
      /\ Done(c.msg, raw, c.pos, n + M) /\ c.pos = 0 /\ c.lm = n /\ c.counter = 1
  BY DEF AuthPhase, Ongoing
<1>2. PICK t \in Nat : Left(r, la, t) /\ Value(la, m, t + 1, c.X)
  BY DEF AuthPhase
<1>3. Text(m)
  BY <1>1, PlainOfFacts
<1> HIDE DEF m
<1>4. PICK u, v : Sized(la, m, u, v)
  BY <1>1, <1>3, SizedExists
<1>5. /\ u \in Nat /\ Len(AuthText(la)) = u * CcmBlock /\ Text(AuthText(la))
  BY <1>4, SizedFacts
<1>6. /\ r = <<>> => t = u
      /\ r # <<>> => t \in 0..u-1
      /\ r # <<>> /\ Len(r) <= CcmBlock => u = t + 1
  BY <1>2, <1>5, LeftBounds
<1>7. /\ Same(c, q) /\ q.pc = "blocks" /\ q.pos = c.pos /\ q.lm = c.lm
      /\ q.counter = c.counter /\ q.msg = c.msg
  BY <1>1 DEF CcmFields, Same
<1>8. Value(la, m, u + 1, q.X) /\ Text(q.B) /\ Len(q.B) = CcmBlock
  <2>1. CASE r = <<>>
    <3>1. q.X = c.X /\ q.B = c.B
      BY <2>1, <1>1 DEF CcmFields
    <3> QED BY <2>1, <3>1, <1>1, <1>2, <1>6
  <2>2. CASE r # <<>>
    <3>1. q.X = Aes(b) /\ q.B = b
      BY <2>2, <1>1 DEF CcmFields
    <3>2. u = t + 1 /\ t \in 0..u-1
      BY <2>2, <1>6
    <3>3. /\ Text(p) /\ Len(p) = CcmBlock
          /\ \A i \in 1..CcmBlock : p[i] = AuthText(la)[t * CcmBlock + i]
      <4>1. (t + 1) * CcmBlock <= Len(AuthText(la))
        BY <3>2, <1>5, BlockSize, Multiples
      <4>2. Len(r) <= CcmBlock
        OBVIOUS
      <4> HIDE DEF r
      <4> QED BY <4>1, <4>2, <1>2, <1>5, LeftLast
    <3>4. b = XorBytes(p, c.X)
      OBVIOUS
    <3> DEFINE x == c.X
    <3>5. Value(la, m, t + 1, x)
      BY <1>2
    <3> HIDE DEF x, p, r
    <3>6. /\ Value(la, m, t + 2, Aes(XorBytes(x, p))) /\ XorBytes(x, p) = XorBytes(p, x)
          /\ Text(XorBytes(x, p)) /\ Len(XorBytes(x, p)) = CcmBlock
      BY <1>4, <3>2, <3>3, <3>5, ValueAuth
    <3>7. b = XorBytes(x, p)
      BY <3>4, <3>6 DEF x
    <3>8. t + 2 = u + 1
      BY <3>2
    <3> QED BY <3>1, <3>6, <3>7, <3>8
  <2> QED BY <2>1, <2>2
<1>9. q.op = c.op /\ q.ok = c.ok /\ DOMAIN q = CcmFields
  BY <1>7 DEF Same
<1>10. Ongoing(q, raw, la, n)
  BY <1>1, <1>7, <1>8, <1>9 DEF Ongoing
<1>11. /\ 0 \in Nat /\ q.pos = 0 * CcmBlock /\ q.lm \in Nat /\ q.pos + q.lm = n
       /\ q.counter = 0 + 1 /\ u + 0 + 1 = u + 1
  BY <1>1, <1>5, <1>7, BlockSize
<1>12. Value(la, PlainOf(q.op, raw, n), u + 0 + 1, q.X) /\ Sized(la, PlainOf(q.op, raw, n), u, v)
  BY <1>4, <1>8, <1>9, <1>11 DEF m
<1>13. BlocksPhase(q, raw, la, n)
  BY <1>10, <1>11, <1>12 DEF BlocksPhase, AfterBlocks
<1> QED BY <1>7, <1>13


LEMMA AfterBlocksFacts ==
    ASSUME NEW c, NEW raw, NEW la, NEW n, NEW j, NEW u, NEW v,
           AfterBlocks(c, raw, la, n, j, u, v)
    PROVE  /\ DOMAIN c = CcmFields /\ c.op \in {"enc", "dec"} /\ c.ok = FALSE
           /\ la \in Nat /\ n \in Nat /\ Text(c.B) /\ Len(c.B) = CcmBlock
           /\ Done(c.msg, raw, c.pos, n + M) /\ j \in Nat /\ u \in Nat /\ v \in Nat
           /\ c.pos = j * CcmBlock /\ c.lm \in Nat /\ c.pos + c.lm = n /\ c.counter = j + 1
           /\ Sized(la, PlainOf(c.op, raw, n), u, v)
           /\ Value(la, PlainOf(c.op, raw, n), u + j + 1, c.X)
           /\ Text(c.X) /\ Len(c.X) = CcmBlock
           /\ CcmBlock \in Nat \ {0} /\ c.pos \in Nat
<1>1. /\ DOMAIN c = CcmFields /\ c.op \in {"enc", "dec"} /\ c.ok = FALSE
      /\ la \in Nat /\ n \in Nat /\ Text(c.B) /\ Len(c.B) = CcmBlock
      /\ Done(c.msg, raw, c.pos, n + M) /\ j \in Nat
      /\ c.pos = j * CcmBlock /\ c.lm \in Nat /\ c.pos + c.lm = n /\ c.counter = j + 1
      /\ Sized(la, PlainOf(c.op, raw, n), u, v)
      /\ Value(la, PlainOf(c.op, raw, n), u + j + 1, c.X)
  BY DEF AfterBlocks, Ongoing
<1>2. u \in Nat /\ v \in Nat
  BY <1>1, SizedFacts
<1>3. Text(c.X) /\ Len(c.X) = CcmBlock
  BY <1>1, ValueFacts
<1>4. CcmBlock \in Nat \ {0} /\ c.pos \in Nat
  BY <1>1, BlockSize
<1> QED BY <1>1, <1>2, <1>3, <1>4

\* Where the blocks of the padded message end.
LEMMA PaddedEnd ==
    ASSUME NEW la, NEW m, NEW u, NEW v, Sized(la, m, u, v), NEW j \in Nat,
           j * CcmBlock <= Len(m)
    PROVE  /\ j * CcmBlock = Len(m) => j = v
           /\ j * CcmBlock < Len(m) => j \in 0..v-1
           /\ Len(m) < j * CcmBlock + CcmBlock /\ j * CcmBlock < Len(m) => v = j + 1
           /\ \A i \in 1..CcmBlock :
                 j * CcmBlock < Len(m) =>
                    PadBlock(m)[j * CcmBlock + i] =
                        IF j * CcmBlock + i <= Len(m) THEN m[j * CcmBlock + i] ELSE Zero
<1> DEFINE n == Len(m)
           e == j * CcmBlock
           w == v * CcmBlock
           p == PadBlock(m)
           j1 == j + 1
           j2 == j1 + 1
           w1 == j1 * CcmBlock
           w2 == j2 * CcmBlock
<1>1. Text(m) /\ v \in Nat /\ Len(p) = w /\ CcmBlock \in Nat \ {0} /\ n \in Nat
  BY SizedFacts, TextLength, BlockSize
<1>2. /\ \A i \in 1..n : p[i] = m[i]
      /\ \A i \in 1..w : i > n => p[i] = Zero
      /\ n <= w /\ w < n + CcmBlock
  <2>1. /\ \E k \in Nat : /\ Len(p) = k * CcmBlock
                          /\ n <= k * CcmBlock /\ k * CcmBlock < n + CcmBlock
        /\ \A i \in 1..n : p[i] = m[i]
        /\ \A i \in 1..Len(p) : i > n => p[i] = Zero
    BY <1>1, PadBlockFacts
  <2> HIDE DEF n, p, w
  <2> QED BY <2>1, <1>1
<1>3. /\ e \in Nat /\ w \in Nat /\ w1 = e + CcmBlock /\ w2 = w1 + CcmBlock
      /\ j1 \in Nat /\ j2 \in Nat
      /\ (e < w => j < v) /\ (e = w => j = v) /\ (w < w1 => v < j1) /\ (w < w2 => v < j2)
  <2>1. /\ e \in Nat /\ w \in Nat /\ w1 = e + CcmBlock /\ (e < w => j < v) /\ (e = w => j = v)
    BY <1>1, Multiples
  <2>2. j1 \in Nat /\ j2 \in Nat
    OBVIOUS
  <2> HIDE DEF j1
  <2>3. w2 = w1 + CcmBlock /\ (w < w1 => v < j1)
    BY <1>1, <2>2, Multiples
  <2> HIDE DEF j2
  <2>4. w < w2 => v < j2
    BY <1>1, <2>2, Multiples
  <2> QED BY <2>1, <2>2, <2>3, <2>4
<1>4. e <= n
  OBVIOUS
<1> HIDE DEF n, e, w, p, w1, w2
<1>5. e < n => j < v
  BY <1>1, <1>2, <1>3
<1>6. e = n => j = v
  <2> SUFFICES ASSUME e = n PROVE j = v
    OBVIOUS
  <2>1. w < w1 /\ (e < w \/ e = w)
    BY <1>1, <1>2, <1>3
  <2> QED BY <2>1, <1>1, <1>3
<1>7. n < e + CcmBlock /\ e < n => v = j + 1
  <2> SUFFICES ASSUME n < e + CcmBlock, e < n PROVE v = j + 1
    OBVIOUS
  <2>1. w < w2
    BY <1>1, <1>2, <1>3
  <2> QED BY <2>1, <1>1, <1>3, <1>5
<1>8. ASSUME NEW i \in 1..CcmBlock, e < n
      PROVE  p[e + i] = IF e + i <= n THEN m[e + i] ELSE Zero
  <2>1. CASE e + i <= n
    <3>1. e + i \in 1..n
      BY <2>1, <1>1, <1>3
    <3> QED BY <2>1, <3>1, <1>2
  <2>2. CASE ~(e + i <= n)
    <3>1. w1 <= w
      <4> DEFINE g == v - j1
      <4>1. g \in Nat /\ v = j1 + g
        BY <1>1, <1>3, <1>5, <1>8
      <4> HIDE DEF g, j1
      <4>2. v * CcmBlock = j1 * CcmBlock + g * CcmBlock /\ g * CcmBlock \in Nat
        BY <4>1, <1>1, <1>3
      <4>3. w1 \in Nat
        BY <1>1, <1>3
      <4> QED BY <4>2, <4>3 DEF w, w1
    <3>2. e + i \in 1..w /\ e + i > n
      BY <2>2, <3>1, <1>1, <1>3
    <3> QED BY <2>2, <3>2, <1>2
  <2> QED BY <2>1, <2>2
<1> QED BY <1>1, <1>5, <1>6, <1>7, <1>8 DEF n, e, p

\* The next k bytes of the message, a block or all that is left.
LEMMA MessageStep ==
    ASSUME NEW c, NEW raw, NEW la, NEW n, NEW j, NEW u, NEW v,
           AfterBlocks(c, raw, la, n, j, u, v), NEW k \in 1..CcmBlock, k <= c.lm,
           \/ k = CcmBlock
           \/ k = c.lm /\ \A i \in 1..CcmBlock : i > k => c.B[i] = c.X[i],
           NEW q, q = Advanced(Both(c, k), k)
    PROVE  /\ Same(c, q) /\ q.pc = c.pc /\ q.pos = c.pos + k /\ q.lm = c.lm - k
           /\ q.counter = c.counter + 1 /\ Done(q.msg, raw, c.pos + k, n + M)
           /\ Text(q.B) /\ Len(q.B) = CcmBlock
           /\ Value(la, PlainOf(c.op, raw, n), u + (j + 1) + 1, q.X)
<1> DEFINE m == PlainOf(c.op, raw, n)
           h == Both(c, k)
           x == c.X
           y == h.B
           e == j * CcmBlock
           pos == c.pos
<1>1. /\ DOMAIN c = CcmFields /\ c.op \in {"enc", "dec"} /\ c.ok = FALSE
      /\ la \in Nat /\ n \in Nat /\ Text(c.B) /\ Len(c.B) = CcmBlock
      /\ Done(c.msg, raw, c.pos, n + M) /\ j \in Nat /\ u \in Nat /\ v \in Nat
      /\ c.pos = j * CcmBlock /\ c.lm \in Nat /\ c.pos + c.lm = n /\ c.counter = j + 1
      /\ Sized(la, m, u, v) /\ Value(la, m, u + j + 1, x)
      /\ Text(c.X) /\ Len(c.X) = CcmBlock
      /\ CcmBlock \in Nat \ {0} /\ c.pos \in Nat
  <2>1. AfterBlocks(c, raw, la, n, j, u, v)
    OBVIOUS
  <2> QED BY ONLY <2>1, AfterBlocksFacts
<1>2. Text(m) /\ Len(m) = n
  BY <1>1, PlainOfFacts
<1>3. pos = e /\ pos + c.lm = n /\ pos \in Nat /\ pos + k <= n
  <2>1. pos = e /\ pos + c.lm = n /\ pos \in Nat
    BY <1>1
  <2> HIDE DEF pos, e
  <2> QED BY <2>1, <1>1
<1>4. /\ Same(c, h) /\ h.pc = c.pc /\ h.aad = c.aad /\ h.pos = c.pos /\ h.lm = c.lm
      /\ h.counter = c.counter
      /\ Done(h.msg, raw, c.pos + k, n + M)
      /\ h.X = Aes(y) /\ Text(y) /\ Len(y) = CcmBlock
      /\ \A i \in 1..k : y[i] = Xor(m[c.pos + i], x[i])
      /\ \A i \in 1..CcmBlock : i > k => y[i] = c.B[i]
  <2>1. c.pos + k <= n
    BY <1>3
  <2>2. /\ DOMAIN c = CcmFields /\ c.op \in {"enc", "dec"}
        /\ Text(c.B) /\ Len(c.B) = CcmBlock /\ Text(c.X) /\ Len(c.X) = CcmBlock
        /\ k \in 1..CcmBlock /\ j \in Nat /\ c.pos = j * CcmBlock /\ c.counter = j + 1
        /\ n \in Nat /\ Done(c.msg, raw, c.pos, n + M)
    BY <1>1
  <2>3. Turned(c, Both(c, k), raw, n, k)
    BY ONLY <2>1, <2>2, BothFacts
  <2> QED BY <2>3 DEF Turned
<1>5. q = Advanced(h, k)
  OBVIOUS
<1> HIDE DEF h, x, m
<1>6. /\ Same(c, q) /\ q.pc = c.pc /\ q.pos = c.pos + k /\ q.lm = c.lm - k
      /\ q.counter = c.counter + 1 /\ q.msg = h.msg /\ q.B = y /\ q.X = h.X
  <2>1. DOMAIN h = CcmFields
    BY <1>4 DEF Same
  <2>2. /\ Same(h, q) /\ q.pc = h.pc /\ q.pos = h.pos + k /\ q.lm = h.lm - k
        /\ q.counter = h.counter + 1 /\ q.msg = h.msg /\ q.B = h.B /\ q.X = h.X
    BY <2>1, <1>5 DEF Advanced, Same, CcmFields
  <2>3. Same(c, q)
    BY <2>2, <1>4 DEF Same
  <2> QED BY <2>2, <2>3, <1>4
<1> HIDE DEF y
<1>7. j \in 0..v-1 /\ \A i \in 1..CcmBlock :
          PadBlock(m)[e + i] = IF e + i <= n THEN m[e + i] ELSE Zero
  <2>1. e < Len(m) /\ e <= Len(m)
    <3> HIDE DEF e, pos
    <3> QED BY <1>1, <1>2, <1>3
  <2>2. /\ j \in 0..v-1
        /\ \A i \in 1..CcmBlock : PadBlock(m)[e + i] =
                                      IF e + i <= Len(m) THEN m[e + i] ELSE Zero
    <3>1. /\ Sized(la, m, u, v) /\ j \in Nat /\ j * CcmBlock <= Len(m)
          /\ j * CcmBlock < Len(m)
      BY <2>1, <1>1
    <3>2. /\ j * CcmBlock < Len(m) => j \in 0..v-1
          /\ \A i \in 1..CcmBlock :
                j * CcmBlock < Len(m) =>
                   PadBlock(m)[j * CcmBlock + i] =
                       IF j * CcmBlock + i <= Len(m) THEN m[j * CcmBlock + i] ELSE Zero
      BY ONLY <3>1, PaddedEnd
    <3> QED BY <3>1, <3>2
  <2> QED BY <2>2, <1>2
<1>8. ASSUME NEW i \in 1..CcmBlock
      PROVE  y[i] = Xor(PadBlock(m)[e + i], x[i])
  <2>0. e \in Nat /\ pos = e /\ \A g \in 1..k : y[g] = Xor(m[pos + g], x[g])
    BY <1>3, <1>4
  <2> HIDE DEF e, pos
  <2>1. CASE i <= k
    <3>1. e + i <= n
      BY <2>0, <2>1, <1>1, <1>3
    <3> QED BY <2>0, <2>1, <3>1, <1>7
  <2>2. CASE i > k
    <3>1. k = c.lm /\ y[i] = x[i]
      BY <2>2, <1>4 DEF x
    <3>2. ~(e + i <= n)
      BY <2>0, <2>2, <3>1, <1>1, <1>3
    <3> QED BY <3>1, <3>2, <1>7, XorAgain
  <2> QED BY <2>1, <2>2
<1>9. Value(la, m, u + j + 2, Aes(y))
  BY <1>1, <1>4, <1>7, <1>8, ValueMessage
<1>10. u + j + 2 = u + (j + 1) + 1
  BY <1>1
<1> QED BY <1>4, <1>6, <1>9, <1>10 DEF m

LEMMA BlockStep ==
    ASSUME NEW c, NEW raw, NEW la, NEW n, BlocksPhase(c, raw, la, n), FullBlock(c),
           NEW q, q = Advanced(Both(c, CcmBlock), CcmBlock)
    PROVE  BlocksPhase(q, raw, la, n) /\ Same(c, q) /\ q.pc = c.pc
<1>1. PICK j, u, v : AfterBlocks(c, raw, la, n, j, u, v)
  BY DEF BlocksPhase
<1>2. /\ DOMAIN c = CcmFields /\ c.op \in {"enc", "dec"} /\ c.ok = FALSE
      /\ la \in Nat /\ n \in Nat /\ j \in Nat
      /\ c.pos = j * CcmBlock /\ c.lm \in Nat /\ c.pos + c.lm = n /\ c.counter = j + 1
      /\ Sized(la, PlainOf(c.op, raw, n), u, v)
      /\ CcmBlock \in Nat \ {0} /\ c.pos \in Nat
  BY <1>1, AfterBlocksFacts
<1>3. CcmBlock \in 1..CcmBlock /\ CcmBlock <= c.lm
  BY <1>2 DEF FullBlock
<1>4. /\ Same(c, q) /\ q.pc = c.pc /\ q.pos = c.pos + CcmBlock /\ q.lm = c.lm - CcmBlock
      /\ q.counter = c.counter + 1 /\ Done(q.msg, raw, c.pos + CcmBlock, n + M)
      /\ Text(q.B) /\ Len(q.B) = CcmBlock
      /\ Value(la, PlainOf(c.op, raw, n), u + (j + 1) + 1, q.X)
  BY <1>1, <1>3, MessageStep
<1>5. q.op = c.op /\ q.ok = FALSE /\ DOMAIN q = CcmFields
  BY <1>2, <1>4 DEF Same
<1>6. Ongoing(q, raw, la, n)
  BY <1>2, <1>4, <1>5 DEF Ongoing
<1>7. q.pos = (j + 1) * CcmBlock
  BY <1>2, <1>4
<1>8. j + 1 \in Nat /\ q.lm \in Nat /\ q.counter = (j + 1) + 1
  BY <1>2, <1>3, <1>4
<1>9. q.pos + q.lm = n
  <2> DEFINE pos == c.pos
  <2>1. pos \in Nat /\ pos + c.lm = n /\ q.pos = pos + CcmBlock
    BY <1>2, <1>4
  <2> HIDE DEF pos
  <2> QED BY <2>1, <1>2, <1>4
<1>10. AfterBlocks(q, raw, la, n, j + 1, u, v)
  BY <1>2, <1>4, <1>5, <1>6, <1>7, <1>8, <1>9 DEF AfterBlocks
<1> QED BY <1>4, <1>10 DEF BlocksPhase

\* q is c after the last bytes of the message, if there are any.
LastBytes(c, q) ==
    /\ ~FullBlock(c)
    /\ q = IF c.lm = 0 THEN c
           ELSE Advanced(Both([c EXCEPT !.B = FillB(c, c.lm)], c.lm), c.lm)

\* Then X is the tag.
LEMMA FinishStep ==
    ASSUME NEW c, NEW raw, NEW la, NEW n, BlocksPhase(c, raw, la, n),
           NEW q, LastBytes(c, q)
    PROVE  /\ Same(c, q) /\ q.pos = n /\ Done(q.msg, raw, n, n + M)
           /\ q.X = Tag(Aad(la), PlainOf(c.op, raw, n))
           /\ c.op \in {"enc", "dec"} /\ c.ok = FALSE /\ la \in Nat /\ n \in Nat
<1> SUFFICES ASSUME ~FullBlock(c),
                    q = IF c.lm = 0 THEN c
                        ELSE Advanced(Both([c EXCEPT !.B = FillB(c, c.lm)], c.lm), c.lm)
             PROVE  /\ Same(c, q) /\ q.pos = n /\ Done(q.msg, raw, n, n + M)
                    /\ q.X = Tag(Aad(la), PlainOf(c.op, raw, n))
                    /\ c.op \in {"enc", "dec"} /\ c.ok = FALSE /\ la \in Nat /\ n \in Nat
  BY DEF LastBytes
<1> DEFINE m == PlainOf(c.op, raw, n)
           k == c.lm
           pos == c.pos
<1>1. PICK j, u, v : AfterBlocks(c, raw, la, n, j, u, v)
  BY DEF BlocksPhase
<1>2. /\ DOMAIN c = CcmFields /\ c.op \in {"enc", "dec"} /\ c.ok = FALSE
      /\ la \in Nat /\ n \in Nat /\ Text(c.B) /\ Len(c.B) = CcmBlock
      /\ Done(c.msg, raw, c.pos, n + M) /\ j \in Nat /\ u \in Nat /\ v \in Nat
      /\ pos = j * CcmBlock /\ k \in Nat /\ pos + k = n /\ c.counter = j + 1
      /\ Sized(la, m, u, v) /\ Value(la, m, u + j + 1, c.X)
      /\ Text(c.X) /\ Len(c.X) = CcmBlock
      /\ CcmBlock \in Nat \ {0} /\ pos \in Nat
  BY <1>1, AfterBlocksFacts
<1>3. k < CcmBlock
  BY <1>2 DEF FullBlock
<1>4. Text(m) /\ Len(m) = n
  BY <1>2, PlainOfFacts
<1>5. /\ pos = n => j = v
      /\ n < pos + CcmBlock /\ pos < n => v = j + 1
  <2> HIDE DEF m
  <2>1. j * CcmBlock <= Len(m) /\ j \in Nat
    <3> HIDE DEF pos, k
    <3> QED BY <1>2, <1>4
  <2>2. /\ j * CcmBlock = Len(m) => j = v
        /\ Len(m) < j * CcmBlock + CcmBlock /\ j * CcmBlock < Len(m) => v = j + 1
    BY <2>1, <1>2, PaddedEnd
  <2> HIDE DEF pos
  <2> QED BY <2>2, <1>2, <1>4
<1>6. CASE k = 0
  <2>1. q = c /\ pos = n
    <3>1. pos = n
      <4> HIDE DEF pos, k
      <4> QED BY <1>2, <1>6
    <3> QED BY <3>1, <1>6
  <2>2. j = v /\ u + j + 1 = 1 + u + v
    BY <2>1, <1>2, <1>5
  <2> HIDE DEF m
  <2>3. c.X = Tag(Aad(la), m)
    <3>1. Value(la, m, 1 + u + v, c.X)
      BY <2>2, <1>2
    <3> QED BY <3>1, <1>2, ValueLast
  <2> QED BY <2>1, <2>3, <1>2 DEF Same, m
<1>7. CASE k # 0
  <2> DEFINE b == FillB(c, k)
             d == [c EXCEPT !.B = b]
             x == c.X
  <2>1. q = Advanced(Both(d, k), k)
    BY <1>7
  <2>2. /\ Text(b) /\ Len(b) = CcmBlock
        /\ \A i \in 1..CcmBlock : i > k => b[i] = x[i]
    <3> DEFINE g == CcmBlock - k
               p == Part(x, k, g)
    <3>1. g \in Nat /\ k + g = CcmBlock /\ k \in Nat
      BY <1>2, <1>3
    <3>2. Text(x) /\ Len(x) = CcmBlock
      BY <1>2
    <3>3. b = Copy(c.B, k, p)
      BY DEF FillB
    <3> HIDE DEF x, g, k, b
    <3>4. Text(p) /\ Len(p) = g /\ \A i \in 1..g : p[i] = x[k + i]
      <4>1. k + g <= Len(x)
        BY <3>1, <3>2, <1>2
      <4>2. Text(x) /\ k \in Nat /\ g \in Nat
        BY <3>1, <3>2
      <4> QED BY ONLY <4>1, <4>2, PartText
    <3> HIDE DEF p
    <3>5. /\ Text(b) /\ Len(b) = CcmBlock /\ \A i \in 1..g : b[k + i] = p[i]
      <4> DEFINE a == c.B
      <4>1. Text(a) /\ k \in Nat /\ Text(p) /\ k + Len(p) <= Len(a) /\ b = Copy(a, k, p)
        BY <3>1, <3>3, <3>4, <1>2
      <4>2. Len(a) = CcmBlock
        BY <1>2
      <4> HIDE DEF a
      <4>3. /\ Text(Copy(a, k, p)) /\ Len(Copy(a, k, p)) = Len(a)
            /\ \A i \in 1..Len(p) : Copy(a, k, p)[k + i] = p[i]
        BY ONLY <4>1, CopyText
      <4> QED BY <4>1, <4>2, <4>3, <3>4
    <3>6. ASSUME NEW i \in 1..CcmBlock, i > k PROVE b[i] = x[i]
      <4> DEFINE f == i - k
      <4>1. f \in 1..g /\ i = k + f
        BY <3>1, <3>6, <1>2, SMTT(60)
      <4> HIDE DEF f
      <4> QED BY <4>1, <3>4, <3>5
    <3> QED BY <3>5, <3>6
  <2> HIDE DEF b
  <2>3. /\ Same(c, d) /\ d.B = b /\ d.X = x /\ d.lm = k /\ d.pos = pos /\ d.msg = c.msg
        /\ d.counter = c.counter /\ d.pc = c.pc
    BY <1>2 DEF Same, CcmFields
  <2>4. d.op = c.op /\ d.ok = c.ok /\ DOMAIN d = CcmFields
    BY <2>3 DEF Same
  <2> HIDE DEF d
  <2>5. Ongoing(d, raw, la, n)
    BY <2>2, <2>3, <2>4, <1>2 DEF Ongoing
  <2>6. AfterBlocks(d, raw, la, n, j, u, v)
    BY <2>3, <2>4, <2>5, <1>2 DEF AfterBlocks
  <2>7. k \in 1..CcmBlock /\ k <= d.lm /\ k = d.lm
        /\ \A i \in 1..CcmBlock : i > k => d.B[i] = d.X[i]
    BY <2>2, <2>3, <1>2, <1>3, <1>7
  <2>8. /\ Same(d, q) /\ q.pos = d.pos + k /\ Done(q.msg, raw, d.pos + k, n + M)
        /\ Value(la, PlainOf(d.op, raw, n), u + (j + 1) + 1, q.X)
    <3> HIDE DEF k
    <3> QED BY <2>1, <2>6, <2>7, MessageStep
  <2>9. v = j + 1 /\ pos + k = n
    <3>1. n < pos + CcmBlock /\ pos < n
      <4> HIDE DEF pos, k
      <4> QED BY <1>2, <1>3, <1>7
    <3> QED BY <3>1, <1>2, <1>5
  <2>10. u + (j + 1) + 1 = 1 + u + v
    BY <2>9, <1>2
  <2>11. q.X = Tag(Aad(la), m)
    <3>1. Value(la, m, 1 + u + v, q.X)
      BY <2>4, <2>8, <2>10
    <3> HIDE DEF m
    <3> QED BY <3>1, <1>2, ValueLast
  <2>12. Same(c, q)
    BY <2>3, <2>8 DEF Same
  <2> QED BY <2>3, <2>8, <2>9, <2>11, <2>12, <1>2
<1> QED BY <1>6, <1>7


-----------------------------------------------------------------------------
(* CCM: what a record is sealed to, and opened *)

\* The record c works on the buffer raw, as dtls_encrypt() or dtls_decrypt() got it.
Given(c, raw, la, n) ==
    /\ c.la \in Nat /\ c.n \in Nat
    /\ \/ c.op = "enc" /\ raw = Plain(c.n) \o Zeros(M) /\ la = c.la /\ n = c.n
       \/ /\ c.op = "dec" /\ raw = c.in /\ la = c.lb
          /\ c.in \in Delivered(Seal(Aad(c.la), Plain(c.n)))

\* s is the buffer msg of dtls_encrypt() with the MAC x behind the message.
Seals(s, msg, x, raw, la, n) ==
    /\ raw = Plain(n) \o Zeros(M) /\ la \in Nat /\ n \in Nat
    /\ Done(msg, raw, n, n + M) /\ x = Tag(Aad(la), PlainOf("enc", raw, n))
    /\ s = Copy(msg, n, XorBytes(Part(x, 0, M), Part(Aes(CounterBlock(0)), 0, M)))

LEMMA SealEnd ==
    ASSUME NEW s, NEW msg, NEW x, NEW raw, NEW la, NEW n, Seals(s, msg, x, raw, la, n)
    PROVE  s = Seal(Aad(la), Plain(n))
<1> SUFFICES ASSUME raw = Plain(n) \o Zeros(M), la \in Nat, n \in Nat,
                    Done(msg, raw, n, n + M), x = Tag(Aad(la), PlainOf("enc", raw, n)),
                    s = Copy(msg, n, XorBytes(Part(x, 0, M),
                                              Part(Aes(CounterBlock(0)), 0, M)))
             PROVE  s = Seal(Aad(la), Plain(n))
  BY DEF Seals
<1> DEFINE p == Plain(n)
           m == PlainOf("enc", raw, n)
           o == Aes(CounterBlock(0))
           a == Part(x, 0, M)
           b == Part(o, 0, M)
           y == XorBytes(a, b)
           z == Zeros(M)
<1>1. M \in Nat /\ CcmBlock \in Nat /\ M <= CcmBlock /\ 0 \in Nat
  BY BlockSize
<1>2. Text(p) /\ Len(p) = n /\ Aesless(p)
  BY PlainFacts
<1>3. Text(z) /\ Len(z) = M
  BY <1>1, ZerosText
<1>4. Text(m) /\ Len(m) = n /\ \A i \in 1..n : m[i] = raw[i]
  BY PlainOfFacts
<1> HIDE DEF p, z, m, o
<1>5. \A i \in 1..n : raw[i] = p[i]
  <2>1. raw = p \o z
    BY DEF p, z
  <2>2. \A i \in 1..Len(p) : (p \o z)[i] = p[i]
    BY <1>2, <1>3, JoinText
  <2> QED BY <2>1, <2>2, <1>2
<1>6. m = p
  <2>1. \A i \in 1..Len(m) : m[i] = p[i]
    BY <1>4, <1>5
  <2> QED BY <2>1, <1>2, <1>4, SameText
<1>7. x = Tag(Aad(la), p) /\ Text(x) /\ Len(x) = CcmBlock
  <2>1. x = Tag(Aad(la), p)
    BY <1>6 DEF m
  <2> QED BY <2>1, <1>2, TagText
<1>8. Text(o) /\ Len(o) = CcmBlock
  BY AesText DEF o
<1>9. Text(a) /\ Len(a) = M /\ \A i \in 1..M : a[i] = x[i]
  <2>0. Text(x) /\ 0 \in Nat /\ M \in Nat /\ 0 + M <= Len(x)
    BY <1>1, <1>7
  <2>1. Text(a) /\ Len(a) = M /\ \A i \in 1..M : a[i] = x[0 + i]
    BY <2>0, PartText
  <2>2. \A i \in 1..M : 0 + i = i
    BY <1>1
  <2> HIDE DEF a
  <2> QED BY <2>1, <2>2
<1>10. Text(b) /\ Len(b) = M /\ \A i \in 1..M : b[i] = o[i]
  <2>0. Text(o) /\ 0 \in Nat /\ M \in Nat /\ 0 + M <= Len(o)
    BY <1>1, <1>8
  <2>1. Text(b) /\ Len(b) = M /\ \A i \in 1..M : b[i] = o[0 + i]
    BY <2>0, PartText
  <2>2. \A i \in 1..M : 0 + i = i
    BY <1>1
  <2> HIDE DEF b
  <2> QED BY <2>1, <2>2
<1>11. s = Copy(msg, n, y)
  BY DEF o
<1> HIDE DEF a, b
<1>12. Text(y) /\ Len(y) = M /\ \A i \in 1..M : y[i] = Xor(a[i], b[i])
  <2>1. Len(a) <= Len(b)
    BY <1>1, <1>9, <1>10
  <2> QED BY <2>1, <1>9, <1>10, XorText
<1> HIDE DEF y
<1>13. Text(msg) /\ Len(msg) = n + M /\ \A i \in 1..n : msg[i] = Xor(raw[i], KByte(i))
  BY DEF Done
<1>14. /\ Text(s) /\ Len(s) = n + M /\ \A i \in 1..n : s[i] = msg[i]
       /\ \A i \in 1..M : s[n + i] = y[i]
  <2>1. Text(msg) /\ n \in Nat /\ Text(y) /\ n + Len(y) <= Len(msg)
    BY <1>1, <1>12, <1>13
  <2>2. /\ Text(Copy(msg, n, y)) /\ Len(Copy(msg, n, y)) = Len(msg)
        /\ \A i \in 1..n : Copy(msg, n, y)[i] = msg[i]
        /\ \A i \in 1..Len(y) : Copy(msg, n, y)[n + i] = y[i]
    BY ONLY <2>1, CopyText
  <2> QED BY <2>2, <1>11, <1>12, <1>13
<1>15. Sealed(s, la, p)
  <2>1. \A i \in 1..n : s[i] = Xor(p[i], KByte(i))
    BY <1>5, <1>13, <1>14
  <2>2. \A i \in 1..M : s[n + i] = Xor(x[i], o[i])
    BY <1>9, <1>10, <1>12, <1>14
  <2> QED BY <2>1, <2>2, <1>2, <1>7, <1>14 DEF Sealed, o
<1> QED BY <1>2, <1>15, SealedIsSeal DEF p

LEMMA OpenEnd ==
    ASSUME NEW la \in Nat, NEW k \in Nat, NEW s, s = Seal(Aad(la), Plain(k)),
           NEW raw \in Delivered(s), NEW lb \in Nat, NEW n \in Nat,
           NEW msg, Done(msg, raw, n, n + M), NEW x, x = Tag(Aad(lb), PlainOf("dec", raw, n))
    PROVE  /\ Part(x, 0, M) = XorBytes(Part(msg, n, M), Part(Aes(CounterBlock(0)), 0, M))
                  <=> (raw = s /\ lb = la)
           /\ raw = s => Part(msg, 0, k) = Plain(k)
<1> DEFINE m == PlainOf("dec", raw, n)
           o == Aes(CounterBlock(0))
           a == Part(x, 0, M)
           b == Part(o, 0, M)
           f == Part(msg, n, M)
           y == XorBytes(f, b)
<1>1. M \in Nat /\ CcmBlock \in Nat /\ M <= CcmBlock /\ 0 \in Nat
  BY BlockSize
<1>2. Text(m) /\ Len(m) = n /\ \A i \in 1..n : m[i] = Xor(raw[i], KByte(i))
  BY PlainOfFacts
<1> HIDE DEF m, o
<1>3. Sealed(s, la, Plain(k))
  <2>1. Text(Plain(k)) /\ Aesless(Plain(k))
    BY PlainFacts
  <2> QED BY <2>1, SealIsSealed
<1>4. /\ Text(raw) /\ Len(raw) = n + M /\ Text(msg) /\ Len(msg) = n + M
      /\ \A i \in 1..n : msg[i] = Xor(raw[i], KByte(i))
      /\ \A i \in 1..n + M : i > n => msg[i] = raw[i]
  BY DEF Done
<1>5. /\ Aesless(m)
      /\ Matches(raw, lb, m) <=> (raw = s /\ lb = la)
      /\ raw = s => m = Plain(k)
  <2>1. /\ Len(raw) = Len(m) + M /\ \A i \in 1..Len(m) : m[i] = Xor(raw[i], KByte(i))
    BY <1>2, <1>4
  <2>2. /\ la \in Nat /\ lb \in Nat /\ k \in Nat /\ Sealed(s, la, Plain(k))
        /\ raw \in Delivered(s) /\ Text(m)
    BY <1>2, <1>3
  <2> QED BY ONLY <2>1, <2>2, Verdict
<1>6. x = Tag(Aad(lb), m) /\ Text(x) /\ Len(x) = CcmBlock
  <2>1. x = Tag(Aad(lb), m)
    BY DEF m
  <2> QED BY <2>1, <1>2, <1>5, TagText
<1>7. Text(o) /\ Len(o) = CcmBlock
  BY AesText DEF o
<1>8. Text(a) /\ Len(a) = M /\ \A i \in 1..M : a[i] = x[i]
  <2>0. Text(x) /\ 0 \in Nat /\ M \in Nat /\ 0 + M <= Len(x)
    BY <1>1, <1>6
  <2>1. Text(a) /\ Len(a) = M /\ \A i \in 1..M : a[i] = x[0 + i]
    BY <2>0, PartText
  <2>2. \A i \in 1..M : 0 + i = i
    BY <1>1
  <2> HIDE DEF a
  <2> QED BY <2>1, <2>2
<1>9. Text(b) /\ Len(b) = M /\ \A i \in 1..M : b[i] = o[i]
  <2>0. Text(o) /\ 0 \in Nat /\ M \in Nat /\ 0 + M <= Len(o)
    BY <1>1, <1>7
  <2>1. Text(b) /\ Len(b) = M /\ \A i \in 1..M : b[i] = o[0 + i]
    BY <2>0, PartText
  <2>2. \A i \in 1..M : 0 + i = i
    BY <1>1
  <2> HIDE DEF b
  <2> QED BY <2>1, <2>2
<1>10. Text(f) /\ Len(f) = M /\ \A i \in 1..M : f[i] = msg[n + i]
  <2>0. Text(msg) /\ n \in Nat /\ M \in Nat /\ n + M <= Len(msg)
    BY <1>1, <1>4
  <2> QED BY <2>0, PartText
<1> HIDE DEF a, b, f
<1>11. Text(y) /\ Len(y) = M /\ \A i \in 1..M : y[i] = Xor(f[i], b[i])
  <2>1. Len(f) <= Len(b)
    BY <1>1, <1>9, <1>10
  <2> QED BY <2>1, <1>9, <1>10, XorText
<1> HIDE DEF y
<1>12. \A i \in 1..M : y[i] = Xor(raw[n + i], o[i])
  <2> SUFFICES ASSUME NEW i \in 1..M PROVE y[i] = Xor(raw[n + i], o[i])
    OBVIOUS
  <2>1. n + i \in 1..n + M /\ n + i > n
    BY <1>1
  <2>2. msg[n + i] = raw[n + i]
    BY <2>1, <1>4
  <2> QED BY <2>2, <1>9, <1>10, <1>11
<1>13. a = y <=> Matches(raw, lb, m)
  <2>1. Matches(raw, lb, m) <=> \A i \in 1..M : x[i] = Xor(raw[n + i], o[i])
    BY <1>2, <1>6 DEF Matches, o
  <2>2. Matches(raw, lb, m) <=> \A i \in 1..M : a[i] = y[i]
    BY <2>1, <1>8, <1>12
  <2>3. (\A i \in 1..M : a[i] = y[i]) => a = y
    BY <1>8, <1>11, SameText
  <2> QED BY <2>2, <2>3
<1>14. ASSUME raw = s PROVE Part(msg, 0, k) = Plain(k)
  <2> DEFINE p == Plain(k)
             g == Part(msg, 0, k)
  <2>1. m = p /\ Text(p) /\ Len(p) = k
    BY <1>5, <1>14, PlainFacts
  <2>2. n = k
    BY <2>1, <1>2
  <2>3. Text(msg) /\ 0 \in Nat /\ k \in Nat /\ 0 + k <= Len(msg)
    BY <2>2, <1>1, <1>4
  <2>4. Text(g) /\ Len(g) = k /\ \A i \in 1..k : g[i] = msg[0 + i]
    BY <2>3, PartText
  <2> HIDE DEF g, p
  <2>5. ASSUME NEW i \in 1..k PROVE g[i] = p[i]
    <3>1. 0 + i = i
      OBVIOUS
    <3> QED BY <3>1, <2>1, <2>2, <2>4, <1>2, <1>4
  <2>6. g = p
    BY <2>1, <2>4, <2>5, SameText
  <2> QED BY <2>6 DEF g, p
<1> QED BY <1>5, <1>13, <1>14 DEF a, y, f, b, o


\* The invariant of an activation, state by state.
CcmGood(c) ==
    /\ DOMAIN c = CcmFields
    /\ c.pc \in {"idle", "auth", "blocks", "sealed", "opened"}
    /\ c.pc = "idle" => c = NoCcm
    /\ c.pc = "auth" => \E raw, la, n : Given(c, raw, la, n) /\ AuthPhase(c, raw, la, n)
    /\ c.pc = "blocks" => \E raw, la, n : Given(c, raw, la, n) /\ BlocksPhase(c, raw, la, n)
    /\ c.pc = "sealed" => /\ c.ok = FALSE /\ c.la \in Nat /\ c.n \in Nat
                          /\ c.msg = Seal(Aad(c.la), Plain(c.n))
    /\ c.pc = "opened" => /\ c.ok <=> (c.in = Seal(Aad(c.la), Plain(c.n)) /\ c.lb = c.la)
                          /\ c.ok => Part(c.msg, 0, c.n) = Plain(c.n)

CcmInv == CcmGood(ccm)

LEMMA SameGiven ==
    ASSUME NEW c, NEW d, Same(c, d), NEW raw, NEW la, NEW n, Given(c, raw, la, n)
    PROVE  Given(d, raw, la, n)
BY DEF Same, Given

LEMMA EncryptGood ==
    ASSUME NEW la \in Nat, NEW n \in Nat, NEW q,
           q = Start([NoCcm EXCEPT !.la = la, !.n = n], "enc", Aad(la),
                     Plain(n) \o Zeros(M), n)
    PROVE  CcmGood(q)
<1> DEFINE c == [NoCcm EXCEPT !.la = la, !.n = n]
           raw == Plain(n) \o Zeros(M)
<1>1. DOMAIN c = CcmFields /\ c.ok = FALSE /\ c.la = la /\ c.n = n
  BY DEF NoCcm, CcmFields
<1> HIDE DEF c
<1>2. Text(raw) /\ Len(raw) = n + M
  <2> DEFINE a == Plain(n)
             b == Zeros(M)
  <2>1. Text(a) /\ Text(b) /\ Len(a) = n /\ Len(b) = M
    BY PlainFacts, ZerosText, BlockSize
  <2> HIDE DEF a, b
  <2>2. Text(a \o b) /\ Len(a \o b) = n + M
    BY <2>1, JoinText
  <2> QED BY <2>2 DEF a, b
<1>3. q = Start(c, "enc", Aad(la), raw, n)
  BY DEF c
<1>4. raw = Plain(n) \o Zeros(M)
  OBVIOUS
<1> HIDE DEF raw
<1>5. /\ AuthPhase(q, raw, la, n) /\ q.pc = "auth" /\ q.op = "enc"
      /\ q.la = c.la /\ q.n = c.n
  <2>1. Starts(c, "enc", raw, la, n, q)
    BY <1>1, <1>2, <1>3 DEF Starts
  <2>2. Started(c, "enc", raw, la, n, q)
    BY <2>1, StartPhase
  <2> QED BY <2>2 DEF Started
<1>6. DOMAIN q = CcmFields
  BY <1>5 DEF AuthPhase, Ongoing
<1>7. Given(q, raw, la, n)
  BY <1>1, <1>4, <1>5 DEF Given
<1> QED BY <1>5, <1>6, <1>7 DEF CcmGood

LEMMA DecryptGood ==
    ASSUME NEW c, CcmGood(c), c.pc = "sealed", NEW in \in Delivered(c.msg), NEW lb \in Nat,
           NEW d, d = [c EXCEPT !.in = in, !.lb = lb], NEW q,
           q = IF Len(in) < M THEN [d EXCEPT !.pc = "opened", !.msg = in]
               ELSE Start(d, "dec", Aad(lb), in, Len(in) - M)
    PROVE  CcmGood(q)
<1> DEFINE s == Seal(Aad(c.la), Plain(c.n))
<1>1. /\ DOMAIN c = CcmFields /\ c.ok = FALSE /\ c.la \in Nat /\ c.n \in Nat
      /\ c.msg = s
  BY DEF CcmGood
<1>2. /\ DOMAIN d = CcmFields /\ d.ok = FALSE /\ d.la = c.la /\ d.n = c.n
      /\ d.in = in /\ d.lb = lb
  <2> HIDE DEF s
  <2> QED BY <1>1 DEF CcmFields
<1>3. Text(s) /\ Len(s) = c.n + M
  <2> DEFINE p == Plain(c.n)
  <2>1. Text(p) /\ Aesless(p) /\ Len(p) = c.n
    BY <1>1, PlainFacts
  <2> HIDE DEF p
  <2>2. Sealed(Seal(Aad(c.la), p), c.la, p)
    BY <1>1, <2>1, SealIsSealed
  <2> QED BY <2>1, <2>2 DEF Sealed, p
<1> HIDE DEF s
<1>4. Text(in) /\ Len(in) \in Nat /\ M \in Nat
  BY <1>1, <1>3, DeliveredFacts, TextLength, BlockSize
<1>5. CASE Len(in) < M
  <2>1. q = [d EXCEPT !.pc = "opened", !.msg = in]
    BY <1>5
  <2>2. /\ DOMAIN q = CcmFields /\ q.pc = "opened" /\ q.ok = FALSE /\ q.in = in
        /\ q.la = c.la /\ q.n = c.n
    BY <2>1, <1>2 DEF CcmFields
  <2>3. in # s
    BY <1>1, <1>3, <1>4, <1>5
  <2>4. ~q.ok /\ ~(q.in = Seal(Aad(q.la), Plain(q.n)) /\ q.lb = q.la)
    BY <2>2, <2>3 DEF s
  <2> QED BY <2>2, <2>4 DEF CcmGood
<1>6. CASE ~(Len(in) < M)
  <2> DEFINE n == Len(in) - M
  <2>1. n \in Nat /\ Len(in) = n + M
    BY <1>4, <1>6
  <2>2. q = Start(d, "dec", Aad(lb), in, n)
    BY <1>6
  <2> HIDE DEF n
  <2>3. /\ AuthPhase(q, in, lb, n) /\ q.pc = "auth" /\ q.op = "dec"
        /\ q.la = d.la /\ q.n = d.n /\ q.in = d.in /\ q.lb = d.lb
    <3>1. Starts(d, "dec", in, lb, n, q)
      BY <1>2, <1>4, <2>1, <2>2 DEF Starts
    <3>2. Started(d, "dec", in, lb, n, q)
      BY <3>1, StartPhase
    <3> QED BY <3>2 DEF Started
  <2>4. DOMAIN q = CcmFields
    BY <2>3 DEF AuthPhase, Ongoing
  <2>5. Given(q, in, lb, n)
    BY <1>1, <1>2, <2>3 DEF Given, s
  <2> QED BY <2>3, <2>4, <2>5 DEF CcmGood
<1> QED BY <1>5, <1>6

\* q is h, c after its last bytes, with the MAC written or compared.
Finishes(c, h, o, q) ==
    /\ LastBytes(c, h)
    /\ o = Part(Aes(CounterBlock(0)), 0, M)
    /\ q = IF c.op = "enc"
           THEN [h EXCEPT !.pc = "sealed",
                    !.msg = Copy(h.msg, h.pos, XorBytes(Part(h.X, 0, M), o))]
           ELSE [h EXCEPT !.pc = "opened",
                    !.ok = Part(h.X, 0, M) = XorBytes(Part(h.msg, h.pos, M), o)]

LEMMA FinishGood ==
    ASSUME NEW c, CcmGood(c), c.pc = "blocks", NEW h, NEW o, NEW q, Finishes(c, h, o, q)
    PROVE  CcmGood(q)
<1> SUFFICES ASSUME LastBytes(c, h),
                    o = Part(Aes(CounterBlock(0)), 0, M),
                    q = IF c.op = "enc"
                        THEN [h EXCEPT !.pc = "sealed",
                                 !.msg = Copy(h.msg, h.pos, XorBytes(Part(h.X, 0, M), o))]
                        ELSE [h EXCEPT !.pc = "opened",
                                 !.ok = Part(h.X, 0, M) = XorBytes(Part(h.msg, h.pos, M), o)]
             PROVE  CcmGood(q)
  BY DEF Finishes
<1>1. PICK raw, la, n : Given(c, raw, la, n) /\ BlocksPhase(c, raw, la, n)
  BY DEF CcmGood
<1> DEFINE m == PlainOf(c.op, raw, n)
<1>2. /\ Same(c, h) /\ h.pos = n /\ Done(h.msg, raw, n, n + M) /\ h.X = Tag(Aad(la), m)
      /\ c.op \in {"enc", "dec"} /\ c.ok = FALSE /\ la \in Nat /\ n \in Nat
  <2>1. BlocksPhase(c, raw, la, n) /\ LastBytes(c, h)
    BY <1>1
  <2>2. /\ Same(c, h) /\ h.pos = n /\ Done(h.msg, raw, n, n + M)
        /\ h.X = Tag(Aad(la), PlainOf(c.op, raw, n))
        /\ c.op \in {"enc", "dec"} /\ c.ok = FALSE /\ la \in Nat /\ n \in Nat
    BY ONLY <2>1, FinishStep
  <2> QED BY <2>2
<1>3. /\ DOMAIN h = CcmFields /\ h.op = c.op /\ h.ok = FALSE /\ h.la = c.la /\ h.n = c.n
      /\ h.in = c.in /\ h.lb = c.lb
  BY <1>2 DEF Same
<1>4. CASE c.op = "enc"
  <2> DEFINE s == Copy(h.msg, n, XorBytes(Part(h.X, 0, M), o))
  <2>1. q = [h EXCEPT !.pc = "sealed", !.msg = s]
    BY <1>2, <1>4
  <2>2. raw = Plain(n) \o Zeros(M) /\ la = c.la /\ n = c.n
    BY <1>1, <1>4 DEF Given
  <2>3. s = Seal(Aad(la), Plain(n))
    <3> DEFINE x == h.X
               msg == h.msg
    <3>1. x = Tag(Aad(la), PlainOf("enc", raw, n)) /\ Done(msg, raw, n, n + M)
      BY <1>2, <1>4
    <3>2. s = Copy(msg, n, XorBytes(Part(x, 0, M), Part(Aes(CounterBlock(0)), 0, M)))
      BY DEF s
    <3>3. raw = Plain(n) \o Zeros(M) /\ la \in Nat /\ n \in Nat
      BY <1>2, <2>2
    <3> HIDE DEF x, msg, s
    <3>4. Seals(s, msg, x, raw, la, n)
      BY ONLY <3>1, <3>2, <3>3 DEF Seals
    <3> QED BY ONLY <3>4, SealEnd
  <2> HIDE DEF s
  <2>4. /\ DOMAIN q = CcmFields /\ q.pc = "sealed" /\ q.ok = FALSE /\ q.la = c.la
        /\ q.n = c.n /\ q.msg = s
    BY <2>1, <1>3 DEF CcmFields
  <2>5. q.la \in Nat /\ q.n \in Nat /\ q.msg = Seal(Aad(q.la), Plain(q.n))
    BY <2>2, <2>3, <2>4, <1>2
  <2> QED BY <2>4, <2>5 DEF CcmGood
<1>5. CASE c.op # "enc"
  <2> DEFINE v == Part(h.X, 0, M) = XorBytes(Part(h.msg, n, M), o)
             s == Seal(Aad(c.la), Plain(c.n))
  <2>1. q = [h EXCEPT !.pc = "opened", !.ok = v]
    BY <1>2, <1>5
  <2>2. raw = c.in /\ la = c.lb /\ raw \in Delivered(s) /\ c.la \in Nat /\ c.n \in Nat
        /\ c.op = "dec"
    BY <1>1, <1>5 DEF Given
  <2>3. /\ v <=> (raw = s /\ la = c.la)
        /\ raw = s => Part(h.msg, 0, c.n) = Plain(c.n)
    <3> DEFINE x == h.X
               msg == h.msg
               g == c.la
               k == c.n
    <3>1. x = Tag(Aad(la), PlainOf("dec", raw, n)) /\ Done(msg, raw, n, n + M)
      BY <1>2, <2>2
    <3>2. s = Seal(Aad(g), Plain(k)) /\ raw \in Delivered(s) /\ g \in Nat /\ k \in Nat
          /\ la \in Nat /\ n \in Nat
      BY <1>2, <2>2
    <3>3. v <=> Part(x, 0, M) = XorBytes(Part(msg, n, M), Part(Aes(CounterBlock(0)), 0, M))
      OBVIOUS
    <3> HIDE DEF x, msg, v, s, g, k
    <3>4. /\ Part(x, 0, M) = XorBytes(Part(msg, n, M), Part(Aes(CounterBlock(0)), 0, M))
                <=> (raw = s /\ la = g)
          /\ raw = s => Part(msg, 0, k) = Plain(k)
      BY ONLY <3>1, <3>2, OpenEnd
    <3> QED BY <3>3, <3>4 DEF x, msg, g, k
  <2> HIDE DEF v, s
  <2>4. /\ DOMAIN q = CcmFields /\ q.pc = "opened" /\ q.ok = v /\ q.la = c.la
        /\ q.n = c.n /\ q.in = c.in /\ q.lb = c.lb /\ q.msg = h.msg
    BY <2>1, <1>3 DEF CcmFields
  <2>5. /\ q.ok <=> (q.in = Seal(Aad(q.la), Plain(q.n)) /\ q.lb = q.la)
        /\ q.ok => Part(q.msg, 0, q.n) = Plain(q.n)
    BY <2>2, <2>3, <2>4, Zenon DEF s
  <2> QED BY <2>4, <2>5 DEF CcmGood
<1> QED BY <1>4, <1>5

LEMMA CcmStep ==
    ASSUME CcmInv, [PrimNext]_primvars
    PROVE  CcmInv'
<1>1. CcmGood(ccm) /\ DOMAIN ccm = CcmFields
  BY DEF CcmInv, CcmGood
<1> SUFFICES CcmGood(ccm')
  BY DEF CcmInv, CcmGood
<1>2. ASSUME NEW la \in AadLengths, NEW n \in MsgLengths, dtls_encrypt(la, n)
      PROVE  CcmGood(ccm')
  <2>1. la \in Nat /\ n \in Nat
    BY CcmAssumption
  <2>2. ccm' = Start([NoCcm EXCEPT !.la = la, !.n = n], "enc", Aad(la),
                     Plain(n) \o Zeros(M), n)
    BY <1>2 DEF dtls_encrypt
  <2> QED BY <2>1, <2>2, EncryptGood
<1>3. CASE AuthBlock
  <2> DEFINE b == XorBytes(ccm.X, Part(ccm.aad, 0, CcmBlock))
  <2>1. /\ ccm.pc = "auth" /\ Len(ccm.aad) > CcmBlock
        /\ ccm' = [ccm EXCEPT !.B = b, !.X = Aes(b),
                              !.aad = Part(ccm.aad, CcmBlock, Len(ccm.aad) - CcmBlock)]
    BY <1>3, <1>1 DEF AuthBlock, CcmFields
  <2>2. PICK raw, la, n : Given(ccm, raw, la, n) /\ AuthPhase(ccm, raw, la, n)
    BY <1>1, <2>1 DEF CcmGood
  <2>3. b = XorBytes(ccm.X, Part(ccm.aad, 0, CcmBlock))
    OBVIOUS
  <2> HIDE DEF b
  <2>4. AuthPhase(ccm', raw, la, n) /\ Same(ccm, ccm') /\ ccm'.pc = ccm.pc
    <3>1. Authenticates(ccm, ccm', b)
      BY <2>1, <2>3 DEF Authenticates
    <3> QED BY <3>1, <2>2, AuthStep
  <2>5. Given(ccm', raw, la, n)
    BY <2>2, <2>4, SameGiven
  <2> QED BY <2>1, <2>4, <2>5 DEF CcmGood, Same
<1>4. CASE AuthLast
  <2> DEFINE b == XorBytes(Copy(Zeros(CcmBlock), 0, ccm.aad), ccm.X)
  <2>1. /\ ccm.pc = "auth" /\ Len(ccm.aad) <= CcmBlock
        /\ ccm' = IF ccm.aad = <<>> THEN [ccm EXCEPT !.pc = "blocks"]
                  ELSE [ccm EXCEPT !.pc = "blocks", !.B = b, !.X = Aes(b), !.aad = <<>>]
    BY <1>4 DEF AuthLast
  <2>2. PICK raw, la, n : Given(ccm, raw, la, n) /\ AuthPhase(ccm, raw, la, n)
    BY <1>1, <2>1 DEF CcmGood
  <2>3. b = XorBytes(Copy(Zeros(CcmBlock), 0, ccm.aad), ccm.X)
    OBVIOUS
  <2> HIDE DEF b
  <2>4. BlocksPhase(ccm', raw, la, n) /\ Same(ccm, ccm') /\ ccm'.pc = "blocks"
    BY <2>1, <2>2, <2>3, AuthEnd
  <2>5. Given(ccm', raw, la, n)
    BY <2>2, <2>4, SameGiven
  <2> QED BY <2>4, <2>5 DEF CcmGood, Same
<1>5. CASE WholeBlock
  <2>1. /\ ccm.pc = "blocks" /\ FullBlock(ccm)
        /\ ccm' = Advanced(Both(ccm, CcmBlock), CcmBlock)
    BY <1>5 DEF WholeBlock
  <2>2. PICK raw, la, n : Given(ccm, raw, la, n) /\ BlocksPhase(ccm, raw, la, n)
    BY <1>1, <2>1 DEF CcmGood
  <2>3. BlocksPhase(ccm', raw, la, n) /\ Same(ccm, ccm') /\ ccm'.pc = ccm.pc
    BY <2>1, <2>2, BlockStep
  <2>4. Given(ccm', raw, la, n)
    BY <2>2, <2>3, SameGiven
  <2> QED BY <2>1, <2>3, <2>4 DEF CcmGood, Same
<1>6. CASE Finish
  <2> DEFINE h == IF ccm.lm = 0 THEN ccm
                  ELSE Advanced(Both([ccm EXCEPT !.B = FillB(ccm, ccm.lm)], ccm.lm), ccm.lm)
             o == Part(Aes(CounterBlock(0)), 0, M)
             s == Copy(h.msg, h.pos, XorBytes(Part(h.X, 0, M), o))
             v == Part(h.X, 0, M) = XorBytes(Part(h.msg, h.pos, M), o)
  <2>1. /\ ccm.pc = "blocks" /\ ~FullBlock(ccm)
        /\ ccm' = IF ccm.op = "enc"
                  THEN [h EXCEPT !.pc = "sealed",
                           !.msg = Copy(@, h.pos, XorBytes(Part(h.X, 0, M), o))]
                  ELSE [h EXCEPT !.pc = "opened", !.ok = v]
    BY <1>6 DEF Finish
  <2>2. DOMAIN h = CcmFields
    <3>1. PICK raw, la, n : BlocksPhase(ccm, raw, la, n)
      BY <1>1, <2>1 DEF CcmGood
    <3>2. LastBytes(ccm, h)
      BY <2>1 DEF LastBytes
    <3> HIDE DEF h
    <3> QED BY <3>1, <3>2, FinishStep DEF Same
  <2>3. ccm' = IF ccm.op = "enc" THEN [h EXCEPT !.pc = "sealed", !.msg = s]
               ELSE [h EXCEPT !.pc = "opened", !.ok = v]
    <3> HIDE DEF h, o, v
    <3> QED BY <2>1, <2>2 DEF CcmFields
  <2>4. LastBytes(ccm, h)
    BY <2>1 DEF LastBytes
  <2>5. o = Part(Aes(CounterBlock(0)), 0, M)
    OBVIOUS
  <2>6. ccm' = IF ccm.op = "enc"
               THEN [h EXCEPT !.pc = "sealed",
                        !.msg = Copy(h.msg, h.pos, XorBytes(Part(h.X, 0, M), o))]
               ELSE [h EXCEPT !.pc = "opened",
                        !.ok = Part(h.X, 0, M) = XorBytes(Part(h.msg, h.pos, M), o)]
    <3> HIDE DEF h, o
    <3> QED BY <2>3
  <2>7. CcmGood(ccm) /\ ccm.pc = "blocks"
    BY <1>1, <2>1
  <2> HIDE DEF h, o
  <2>8. Finishes(ccm, h, o, ccm')
    BY ONLY <2>4, <2>5, <2>6, <2>7 DEF Finishes
  <2> QED BY ONLY <2>7, <2>8, FinishGood
<1>7. ASSUME NEW in \in Delivered(ccm.msg), NEW lb \in AadLengths, dtls_decrypt(in, lb)
      PROVE  CcmGood(ccm')
  <2> DEFINE d == [ccm EXCEPT !.in = in, !.lb = lb]
  <2>1. lb \in Nat
    BY CcmAssumption
  <2>2. /\ ccm.pc = "sealed"
        /\ ccm' = IF Len(in) < M THEN [d EXCEPT !.pc = "opened", !.msg = in]
                  ELSE Start(d, "dec", Aad(lb), in, Len(in) - M)
    BY <1>7 DEF dtls_decrypt
  <2>3. d = [ccm EXCEPT !.in = in, !.lb = lb]
    OBVIOUS
  <2> HIDE DEF d
  <2> QED BY <1>1, <2>1, <2>2, <2>3, DecryptGood
<1>8. CASE UNCHANGED ccm
  BY <1>1, <1>8
<1>9. CcmNext \/ UNCHANGED ccm
  BY DEF PrimNext, primvars
<1> QED BY <1>2, <1>3, <1>4, <1>5, <1>6, <1>7, <1>8, <1>9 DEF CcmNext

\* What dtls_encrypt() leaves in its buffer is the CCM of RFC 3610, and
\* dtls_decrypt() accepts a record exactly if it arrives with its additional data
\* as they were sealed, at every length of message, additional data, block and
\* MAC, however B, X and the message are overwritten in between.
THEOREM CcmIsExact == PrimSpec => []CcmExact
<1>1. PrimInit => CcmInv
  <2> SUFFICES ASSUME PrimInit PROVE CcmGood(ccm)
    BY DEF CcmInv
  <2>1. ccm = NoCcm
    BY DEF PrimInit, CcmInit
  <2>2. DOMAIN NoCcm = CcmFields /\ NoCcm.pc = "idle"
    BY DEF NoCcm, CcmFields
  <2> QED BY <2>1, <2>2 DEF CcmGood
<1>2. CcmInv /\ [PrimNext]_primvars => CcmInv'
  BY CcmStep
<1>3. CcmInv => CcmExact
  BY DEF CcmInv, CcmGood, CcmExact
<1> QED BY <1>1, <1>2, <1>3, PTL DEF PrimSpec
=============================================================================
