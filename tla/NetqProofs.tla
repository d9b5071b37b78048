----------------------------- MODULE NetqProofs -----------------------------
(***************************************************************************)
(* Theorems about the packet queues (module Netq): nodes of the pool are   *)
(* neither lost nor freed twice, and the one timer is never set too late.  *)
(*                                                                         *)
(* Two definitions of Netq recurse over a queue or a counter.  What they   *)
(* compute is proved by the least counterexample, with a set of numbers    *)
(* in the place of a predicate.                                            *)
(***************************************************************************)
EXTENDS Netq, SequenceTheorems, FiniteSetTheorems, WellFoundedInduction, TLAPS

NodeType == [msg : Nat, peer : Peers, t : Nat, retransmit_cnt : 0..MaxRetransmit]

NetqTypes ==
    /\ sendqueue \in Seq(NodeType)
    /\ reorder_queue \in [Peers -> Seq(Nat)]
    /\ avail \in Nat /\ timer \in Nat \cup {-1}
    /\ sent \in Nat /\ arrived \in Nat /\ replayed \in Nat

\* netq_insert_node() keeps a queue in the order of its times.
Sorted(q) == \A i, j \in 1..Len(q) : i <= j => q[i].t <= q[j].t

NetqInv ==
    /\ NetqTypes
    /\ IsFiniteSet(Stored)
    /\ Sorted(sendqueue)
    /\ NotLate
    /\ PoolConserved

-----------------------------------------------------------------------------
(* Induction *)

LEMMA LeastNumber ==
    ASSUME NEW T \in SUBSET Nat, T # {}
    PROVE  \E m \in T : \A n \in T : m <= n
<1> DEFINE R == OpToRel(<, Nat)
<1>1. IsWellFoundedOn(R, Nat)
  BY NatLessThanWellFounded
<1>2. \A x, y \in Nat : x < y => <<x, y>> \in R
  BY DEF OpToRel
<1> HIDE DEF R
<1>3. PICK m \in T : \A n \in T : ~(<<n, m>> \in R)
  BY <1>1, WFMin
<1>4. \A n \in T : ~(n < m)
  BY <1>2, <1>3
<1>5. \A n \in T : n \in Nat /\ m \in Nat
  OBVIOUS
<1> QED BY <1>3, <1>4, <1>5

\* A set of numbers with 0, and with the next number up to a bound.
LEMMA Induction ==
    ASSUME NEW b \in Nat, NEW S \in SUBSET (0..b), 0 \in S,
           \A n \in S : n < b => n + 1 \in S
    PROVE  S = 0..b
<1> DEFINE T == (0..b) \ S
<1> SUFFICES ASSUME T # {} PROVE FALSE
  OBVIOUS
<1>1. T \in SUBSET Nat
  OBVIOUS
<1>2. PICK m \in T : \A n \in T : m <= n
  BY <1>1, LeastNumber
<1>3. m \in 0..b /\ m # 0 /\ m - 1 \in 0..b /\ m - 1 \notin T
  BY <1>2
<1>4. m - 1 \in S /\ m - 1 < b /\ (m - 1) + 1 = m
  BY <1>3
<1> QED BY <1>2, <1>4

\* n->timeout << n->retransmit_cnt.
LEMMA DelayIsTime == \A k \in 0..MaxRetransmit : Delay[k] \in Nat
<1> DEFINE Step(d, n) == d = [k \in 0..n |-> IF k = 0 THEN Timeout ELSE 2 * d[k - 1]]
           S == {n \in 0..MaxRetransmit : \E d : Step(d, n) /\ \A k \in 0..n : d[k] \in Nat}
<1>0. MaxRetransmit \in Nat /\ Timeout \in Nat
  BY TimeAssumption
<1>1. 0 \in S
  <2> DEFINE d == [k \in 0..0 |-> Timeout]
  <2>1. d = [k \in 0..0 |-> IF k = 0 THEN Timeout ELSE 2 * d[k - 1]]
    OBVIOUS
  <2>2. \A k \in 0..0 : d[k] \in Nat
    BY <1>0
  <2> HIDE DEF d
  <2> QED BY <1>0, <2>1, <2>2
<1>2. \A n \in S : n < MaxRetransmit => n + 1 \in S
  <2> SUFFICES ASSUME NEW n \in S, n < MaxRetransmit PROVE n + 1 \in S
    OBVIOUS
  <2>1. n \in 0..MaxRetransmit /\ n + 1 \in 0..MaxRetransmit /\ n \in Nat
    BY <1>0
  <2>2. PICK d : Step(d, n) /\ \A k \in 0..n : d[k] \in Nat
    OBVIOUS
  <2> DEFINE e == [k \in 0..n+1 |-> IF k = n + 1 THEN 2 * d[n] ELSE d[k]]
  <2>3. \A k \in 0..n : d[k] = IF k = 0 THEN Timeout ELSE 2 * d[k - 1]
    <3>1. d = [k \in 0..n |-> IF k = 0 THEN Timeout ELSE 2 * d[k - 1]]
      BY <2>2
    <3> QED BY <3>1
  <2>4. \A k \in 0..n+1 : k \in 0..n \/ k = n + 1
    BY <2>1
  <2>5. \A k \in 0..n+1 : e[k] = IF k = 0 THEN Timeout ELSE 2 * e[k - 1]
    BY <2>1, <2>3, <2>4
  <2>6. e = [k \in 0..n+1 |-> IF k = 0 THEN Timeout ELSE 2 * e[k - 1]]
    BY <2>5
  <2>7. \A k \in 0..n+1 : e[k] \in Nat
    BY <2>1, <2>2, <2>4
  <2> HIDE DEF e
  <2> QED BY <2>1, <2>6, <2>7
<1>3. S = 0..MaxRetransmit
  <2> HIDE DEF S
  <2>1. S \in SUBSET (0..MaxRetransmit)
    BY DEF S
  <2> QED BY <1>0, <1>1, <1>2, <2>1, Induction
<1>4. MaxRetransmit \in S
  <2> HIDE DEF S
  <2> QED BY <1>0, <1>3
<1>5. \E d : Step(d, MaxRetransmit)
  BY <1>4
<1>6. Step(Delay, MaxRetransmit)
  BY <1>5 DEF Delay
<1> DEFINE N == {n \in 0..MaxRetransmit : Delay[n] \in Nat}
<1>7. \A k \in 0..MaxRetransmit : Delay[k] = IF k = 0 THEN Timeout ELSE 2 * Delay[k - 1]
  <2>1. Delay = [k \in 0..MaxRetransmit |-> IF k = 0 THEN Timeout ELSE 2 * Delay[k - 1]]
    BY <1>6
  <2> QED BY <2>1
<1>8. 0 \in N
  BY <1>0, <1>7
<1>9. \A n \in N : n < MaxRetransmit => n + 1 \in N
  <2> SUFFICES ASSUME NEW n \in N, n < MaxRetransmit PROVE n + 1 \in N
    OBVIOUS
  <2>1. n + 1 \in 0..MaxRetransmit /\ n + 1 # 0 /\ (n + 1) - 1 = n
    BY <1>0
  <2>2. Delay[n + 1] = 2 * Delay[n]
    BY <1>7, <2>1
  <2> QED BY <2>1, <2>2
<1>10. N = 0..MaxRetransmit
  <2> HIDE DEF N
  <2>1. N \in SUBSET (0..MaxRetransmit)
    BY DEF N
  <2> QED BY <1>0, <1>8, <1>9, <2>1, Induction
<1> QED BY <1>10

\* netq_insert_node() finds a place.
LEMMA PlaceExists ==
    ASSUME NEW q \in Seq(NodeType), NEW n \in NodeType
    PROVE  /\ Place(q, n) \in 1..Len(q)+1
           /\ \A j \in 1..Place(q, n)-1 : q[j].t <= n.t
           /\ Place(q, n) <= Len(q) => q[Place(q, n)].t > n.t
<1>1. Len(q) \in Nat /\ \A i \in 1..Len(q) : q[i].t \in Nat
  <2>1. Len(q) \in Nat /\ \A i \in 1..Len(q) : q[i] \in NodeType
    BY LenProperties, ElementOfSeq
  <2> QED BY <2>1 DEF NodeType
<1>2. n.t \in Nat
  BY DEF NodeType
<1> DEFINE T == {i \in 1..Len(q)+1 : i <= Len(q) => q[i].t > n.t}
<1>3. Len(q) + 1 \in T /\ T \in SUBSET Nat
  BY <1>1
<1>4. PICK m \in T : \A i \in T : m <= i
  BY <1>3, LeastNumber
<1>5. m \in 1..Len(q)+1 /\ (m <= Len(q) => q[m].t > n.t)
  BY <1>4
<1>6. \A j \in 1..m-1 : q[j].t <= n.t
  <2> SUFFICES ASSUME NEW j \in 1..m-1 PROVE q[j].t <= n.t
    OBVIOUS
  <2>1. j \in 1..Len(q) /\ ~(m <= j) /\ j \in 1..Len(q)+1
    BY <1>1, <1>5
  <2>2. j \notin T
    BY <1>4, <2>1
  <2>3. ~(q[j].t > n.t)
    BY <2>1, <2>2
  <2> QED BY <1>1, <1>2, <2>1, <2>3
<1> QED BY <1>5, <1>6 DEF Place

\* netq_insert_node(): one node more, and the order of the times is kept.
LEMMA Insertion ==
    ASSUME NEW q \in Seq(NodeType), NEW n \in NodeType, Sorted(q)
    PROVE  /\ netq_insert_node(q, n) \in Seq(NodeType)
           /\ Len(netq_insert_node(q, n)) = Len(q) + 1
           /\ Sorted(netq_insert_node(q, n))
<1> DEFINE k == Place(q, n)
           a == SubSeq(q, 1, k - 1)
           c == SubSeq(q, k, Len(q))
           r == (a \o <<n>>) \o c
<1>1. Len(q) \in Nat /\ \A i \in 1..Len(q) : q[i] \in NodeType
  BY LenProperties, ElementOfSeq
<1>2. /\ k \in 1..Len(q)+1
      /\ \A j \in 1..k-1 : q[j].t <= n.t
      /\ k <= Len(q) => q[k].t > n.t
  BY PlaceExists
<1> HIDE DEF k
<1>3. /\ a \in Seq(NodeType) /\ Len(a) = k - 1
      /\ \A i \in 1..k-1 : a[i] = q[i]
  <2>1. 1 \in Int /\ k - 1 \in Int /\ \A i \in 1..k-1 : q[i] \in NodeType
    BY <1>1, <1>2
  <2>2. /\ a \in Seq(NodeType) /\ Len(a) = IF 1 <= k - 1 THEN (k - 1) - 1 + 1 ELSE 0
        /\ \A i \in 1..((k - 1) - 1 + 1) : a[i] = q[1 + i - 1]
    BY <2>1, SubSeqProperties
  <2> HIDE DEF a
  <2> QED BY <1>1, <1>2, <2>2
<1>4. /\ c \in Seq(NodeType) /\ Len(c) = Len(q) - k + 1
      /\ \A i \in 1..(Len(q) - k + 1) : c[i] = q[k + i - 1]
  <2>1. k \in Int /\ Len(q) \in Int /\ \A i \in k..Len(q) : q[i] \in NodeType
    BY <1>1, <1>2
  <2>2. /\ c \in Seq(NodeType) /\ Len(c) = IF k <= Len(q) THEN Len(q) - k + 1 ELSE 0
        /\ \A i \in 1..(Len(q) - k + 1) : c[i] = q[k + i - 1]
    BY <2>1, SubSeqProperties
  <2> HIDE DEF c
  <2> QED BY <1>1, <1>2, <2>2
<1> HIDE DEF a, c
<1>5. <<n>> \in Seq(NodeType) /\ Len(<<n>>) = 1 /\ <<n>>[1] = n
  OBVIOUS
<1>6. /\ a \o <<n>> \in Seq(NodeType) /\ Len(a \o <<n>>) = k
      /\ \A i \in 1..k-1 : (a \o <<n>>)[i] = q[i]
      /\ (a \o <<n>>)[k] = n
  <2> DEFINE u == <<n>>
  <2>1. u \in Seq(NodeType) /\ Len(u) = 1 /\ u[1] = n
    BY <1>5
  <2> HIDE DEF u
  <2>2. /\ a \o u \in Seq(NodeType) /\ Len(a \o u) = Len(a) + Len(u)
        /\ \A i \in 1..Len(a) + Len(u) :
             (a \o u)[i] = IF i <= Len(a) THEN a[i] ELSE u[i - Len(a)]
    BY <1>3, <2>1, ConcatProperties
  <2>3. /\ a \o u \in Seq(NodeType) /\ Len(a \o u) = k
        /\ \A i \in 1..k-1 : (a \o u)[i] = q[i]
        /\ (a \o u)[k] = n
    BY <1>2, <1>3, <2>1, <2>2
  <2> QED BY <2>3 DEF u
<1>7. /\ r \in Seq(NodeType) /\ Len(r) = Len(q) + 1
      /\ \A i \in 1..Len(q)+1 :
           r[i] = IF i < k THEN q[i] ELSE IF i = k THEN n ELSE q[i - 1]
  <2> DEFINE b == a \o <<n>>
  <2>1. /\ b \in Seq(NodeType) /\ Len(b) = k /\ b[k] = n
        /\ \A i \in 1..k-1 : b[i] = q[i]
    BY <1>6
  <2> HIDE DEF b
  <2>2. /\ b \o c \in Seq(NodeType) /\ Len(b \o c) = Len(b) + Len(c)
        /\ \A i \in 1..Len(b) + Len(c) :
             (b \o c)[i] = IF i <= Len(b) THEN b[i] ELSE c[i - Len(b)]
    BY <1>4, <2>1, ConcatProperties
  <2>3. Len(b \o c) = Len(q) + 1 /\ Len(b) + Len(c) = Len(q) + 1
    BY <1>1, <1>2, <1>4, <2>1, <2>2
  <2>4. ASSUME NEW i \in 1..Len(q)+1
        PROVE  (b \o c)[i] = IF i < k THEN q[i] ELSE IF i = k THEN n ELSE q[i - 1]
    <3>1. (b \o c)[i] = IF i <= k THEN b[i] ELSE c[i - k]
      BY <2>1, <2>2, <2>3
    <3>2. CASE i <= k
      BY <1>1, <1>2, <2>1, <3>1, <3>2
    <3>3. CASE ~(i <= k)
      <4>1. i - k \in 1..(Len(q) - k + 1) /\ k + (i - k) - 1 = i - 1
        BY <1>1, <1>2, <3>3
      <4>2. c[i - k] = q[i - 1]
        BY <1>4, <4>1
      <4> QED BY <1>1, <1>2, <3>1, <3>3, <4>2
    <3> QED BY <3>2, <3>3
  <2> QED BY <2>2, <2>3, <2>4 DEF b
<1>8. Sorted(r)
  <2> HIDE DEF r
  <2>1. \A i \in 1..Len(q) : q[i].t \in Nat
    BY <1>1 DEF NodeType
  <2>2. n.t \in Nat
    BY DEF NodeType
  <2>3. \A i, j \in 1..Len(q) : i <= j => q[i].t <= q[j].t
    BY DEF Sorted
  <2>4. \A i \in 1..Len(q) : i >= k => q[i].t > n.t
    <3> SUFFICES ASSUME NEW i \in 1..Len(q), i >= k PROVE q[i].t > n.t
      OBVIOUS
    <3>1. k \in 1..Len(q) /\ k <= i
      BY <1>1, <1>2
    <3>2. q[k].t > n.t /\ q[k].t <= q[i].t
      BY <1>1, <1>2, <2>3, <3>1
    <3> QED BY <2>1, <2>2, <3>1, <3>2
  <2>5. ASSUME NEW i \in 1..Len(q)+1, NEW j \in 1..Len(q)+1, i <= j
        PROVE  r[i].t <= r[j].t
    <3>1. /\ r[i] = IF i < k THEN q[i] ELSE IF i = k THEN n ELSE q[i - 1]
          /\ r[j] = IF j < k THEN q[j] ELSE IF j = k THEN n ELSE q[j - 1]
      BY <1>7
    <3>2. CASE i < k /\ j < k
      BY <1>1, <1>2, <2>3, <2>5, <3>1, <3>2
    <3>3. CASE i < k /\ j = k
      <4>1. i \in 1..k-1
        BY <1>1, <1>2, <3>3
      <4> QED BY <1>2, <3>1, <3>3, <4>1
    <3>4. CASE i < k /\ j > k
      <4>1. i \in 1..Len(q) /\ j - 1 \in 1..Len(q) /\ i <= j - 1
        BY <1>1, <1>2, <3>4
      <4> QED BY <1>2, <2>3, <3>1, <3>4, <4>1
    <3>5. CASE i = k /\ j = k
      BY <1>2, <2>2, <3>1, <3>5
    <3>6. CASE i = k /\ j > k
      <4>1. j - 1 \in 1..Len(q) /\ j - 1 >= k
        BY <1>1, <1>2, <3>6
      <4> QED BY <1>2, <2>1, <2>2, <2>4, <3>1, <3>6, <4>1
    <3>7. CASE i > k
      <4>1. i - 1 \in 1..Len(q) /\ j - 1 \in 1..Len(q) /\ i - 1 <= j - 1 /\ j > k
        BY <1>1, <1>2, <2>5, <3>7
      <4> QED BY <1>2, <2>3, <3>1, <3>7, <4>1
    <3> QED BY <1>1, <1>2, <2>5, <3>2, <3>3, <3>4, <3>5, <3>6, <3>7
  <2> QED BY <1>7, <2>5 DEF Sorted
<1>9. netq_insert_node(q, n) = r
  BY DEF netq_insert_node, InsertAt, r, a, c, k
<1> QED BY <1>7, <1>8, <1>9

\* dtls_stop_retransmission() keeps nodes of the queue, in their order.
LEMMA KeptNodes ==
    ASSUME sendqueue \in Seq(NodeType), Sorted(sendqueue), NEW p \in Peers
    PROVE  /\ Kept(p) \in Seq(NodeType)
           /\ Len(Kept(p)) <= Len(sendqueue)
           /\ Sorted(Kept(p))
           /\ \A i \in 1..Len(Kept(p)) :
                \E j \in 1..Len(sendqueue) : Kept(p)[i] = sendqueue[j]
<1> DEFINE L == Len(sendqueue)
           Shape(f, n) == f = [i \in 0..n |-> IF i = 0 THEN <<>>
                                ELSE IF sendqueue[i].peer = p THEN f[i - 1]
                                ELSE Append(f[i - 1], sendqueue[i])]
           S == {n \in 0..L : \E f : Shape(f, n)}
<1>0. L \in Nat /\ \A i \in 1..L : sendqueue[i] \in NodeType
  BY LenProperties, ElementOfSeq
<1>00. \A i \in 1..L : sendqueue[i].t \in Nat
  BY <1>0 DEF NodeType
<1> HIDE DEF L
<1>1. 0 \in S
  <2> DEFINE f == [i \in 0..0 |-> <<>>]
  <2>1. Shape(f, 0)
    OBVIOUS
  <2> HIDE DEF f
  <2> QED BY <1>0, <2>1
<1>2. \A n \in S : n < L => n + 1 \in S
  <2> SUFFICES ASSUME NEW n \in S, n < L PROVE n + 1 \in S
    OBVIOUS
  <2>1. n \in 0..L /\ n + 1 \in 0..L /\ n \in Nat
    BY <1>0
  <2>2. PICK f : Shape(f, n)
    OBVIOUS
  <2> DEFINE x == IF sendqueue[n + 1].peer = p THEN f[n] ELSE Append(f[n], sendqueue[n + 1])
             e == [i \in 0..n+1 |-> IF i = n + 1 THEN x ELSE f[i]]
  <2>3. \A i \in 0..n : f[i] = IF i = 0 THEN <<>>
                               ELSE IF sendqueue[i].peer = p THEN f[i - 1]
                               ELSE Append(f[i - 1], sendqueue[i])
    <3>1. f = [i \in 0..n |-> IF i = 0 THEN <<>>
                              ELSE IF sendqueue[i].peer = p THEN f[i - 1]
                              ELSE Append(f[i - 1], sendqueue[i])]
      BY <2>2
    <3> QED BY <3>1
  <2>4. \A i \in 0..n+1 : i \in 0..n \/ i = n + 1
    BY <2>1
  <2>5. \A i \in 0..n+1 : e[i] = IF i = 0 THEN <<>>
                                 ELSE IF sendqueue[i].peer = p THEN e[i - 1]
                                 ELSE Append(e[i - 1], sendqueue[i])
    <3> SUFFICES ASSUME NEW i \in 0..n+1
                 PROVE  e[i] = IF i = 0 THEN <<>>
                               ELSE IF sendqueue[i].peer = p THEN e[i - 1]
                               ELSE Append(e[i - 1], sendqueue[i])
      OBVIOUS
    <3>1. CASE i = n + 1
      <4>1. e[i] = x /\ i # 0 /\ i - 1 = n /\ e[n] = f[n]
        BY <2>1, <3>1
      <4> QED BY <3>1, <4>1
    <3>2. CASE i # n + 1
      <4>1. i \in 0..n /\ e[i] = f[i] /\ (i # 0 => e[i - 1] = f[i - 1])
        BY <2>1, <3>2
      <4> QED BY <2>3, <4>1
    <3> QED BY <3>1, <3>2
  <2>6. Shape(e, n + 1)
    BY <2>5, SMTT(40)
  <2> HIDE DEF e
  <2> QED BY <2>1, <2>6
<1>3. \E f : Shape(f, L)
  <2>1. L \in S
    <3> HIDE DEF S
    <3>1. S \in SUBSET (0..L)
      BY DEF S
    <3> QED BY <1>0, <1>1, <1>2, <3>1, Induction
  <2> QED BY <2>1
<1> DEFINE kept == CHOOSE f : Shape(f, L)
<1>4. Shape(kept, L)
  BY <1>3
<1>5. Kept(p) = kept[L]
  BY DEF Kept, L
<1> HIDE DEF kept
<1>6. \A i \in 0..L : kept[i] = IF i = 0 THEN <<>>
                                ELSE IF sendqueue[i].peer = p THEN kept[i - 1]
                                ELSE Append(kept[i - 1], sendqueue[i])
  <2>1. kept = [i \in 0..L |-> IF i = 0 THEN <<>>
                               ELSE IF sendqueue[i].peer = p THEN kept[i - 1]
                               ELSE Append(kept[i - 1], sendqueue[i])]
    BY <1>4
  <2> QED BY <2>1
<1> HIDE DEF Shape, S
\* The first n nodes of the queue have been treated.
<1> DEFINE From(n) == \A i \in 1..Len(kept[n]) : \E j \in 1..n : kept[n][i] = sendqueue[j]
           Part(n) == /\ kept[n] \in Seq(NodeType)
                      /\ Len(kept[n]) <= n
                      /\ Sorted(kept[n])
                      /\ From(n)
           N == {n \in 0..L : Part(n)}
<1>7. 0 \in N
  <2>1. kept[0] = <<>> /\ 0 \in 0..L
    BY <1>0, <1>6
  <2>2. <<>> \in Seq(NodeType) /\ Len(<<>>) = 0
    BY EmptySeq
  <2>3. Sorted(<<>>)
    BY <2>2 DEF Sorted
  <2>4. From(0)
    BY <2>1, <2>2
  <2> HIDE DEF From
  <2>5. Part(0)
    BY <2>1, <2>2, <2>3, <2>4
  <2> QED BY <2>1, <2>5
<1>8. \A n \in N : n < L => n + 1 \in N
  <2> SUFFICES ASSUME NEW n \in N, n < L PROVE n + 1 \in N
    OBVIOUS
  <2>1. n \in 0..L /\ n + 1 \in 1..L /\ n + 1 \in 0..L /\ n \in Nat /\ (n + 1) - 1 = n
    BY <1>0
  <2>2. Part(n)
    OBVIOUS
  <2>3. CASE sendqueue[n + 1].peer = p
    <3>1. kept[n + 1] = kept[n]
      BY <1>6, <2>1, <2>3
    <3>2. From(n + 1)
      BY <2>1, <2>2, <3>1
    <3>3. Len(kept[n + 1]) <= n + 1
      <4>1. Len(kept[n]) \in Nat
        BY <2>2, LenProperties
      <4> QED BY <2>1, <2>2, <3>1, <4>1
    <3> QED BY <2>1, <2>2, <3>1, <3>2, <3>3
  <2>4. CASE sendqueue[n + 1].peer # p
    <3> DEFINE s == kept[n]
               e == sendqueue[n + 1]
               r == Append(s, e)
    <3>1. kept[n + 1] = r
      <4>1. n + 1 # 0
        BY <2>1
      <4>2. kept[n + 1] = IF n + 1 = 0 THEN <<>>
                          ELSE IF sendqueue[n + 1].peer = p THEN kept[(n + 1) - 1]
                          ELSE Append(kept[(n + 1) - 1], sendqueue[n + 1])
        BY <1>6, <2>1
      <4>3. kept[n + 1] = Append(kept[(n + 1) - 1], sendqueue[n + 1])
        BY <2>4, <4>1, <4>2
      <4> QED BY <2>1, <4>3
    <3>2. s \in Seq(NodeType) /\ Len(s) \in Nat /\ Len(s) <= n /\ Sorted(s) /\ e \in NodeType
      BY <1>0, <2>1, <2>2, LenProperties
    <3>3. \A i \in 1..Len(s) : \E j \in 1..n : s[i] = sendqueue[j]
      BY <2>2
    <3> HIDE DEF s
    <3>4. /\ r \in Seq(NodeType) /\ Len(r) = Len(s) + 1
          /\ \A i \in 1..Len(s) : r[i] = s[i]
          /\ r[Len(s) + 1] = e
      BY <3>2, AppendProperties
    <3>5. \A i \in 1..Len(s) : s[i].t <= e.t /\ s[i].t \in Nat
      <4> SUFFICES ASSUME NEW i \in 1..Len(s) PROVE s[i].t <= e.t /\ s[i].t \in Nat
        OBVIOUS
      <4>1. PICK j \in 1..n : s[i] = sendqueue[j]
        BY <3>3
      <4>2. j \in 1..L /\ j <= n + 1
        BY <1>0, <2>1
      <4>3. sendqueue[j].t <= sendqueue[n + 1].t
        BY <2>1, <4>2 DEF Sorted, L
      <4> QED BY <1>00, <4>1, <4>2, <4>3
    <3>6. e.t \in Nat
      BY <1>00, <2>1
    <3> HIDE DEF e, r
    <3>7. Sorted(r)
      <4> SUFFICES ASSUME NEW i \in 1..Len(r), NEW j \in 1..Len(r), i <= j
                   PROVE  r[i].t <= r[j].t
        BY DEF Sorted
      <4>1. CASE j \in 1..Len(s)
        <5>1. i \in 1..Len(s)
          BY <3>2, <3>4, <4>1
        <5> QED BY <3>2, <3>4, <4>1, <5>1 DEF Sorted
      <4>2. CASE j = Len(s) + 1 /\ i \in 1..Len(s)
        BY <3>4, <3>5, <4>2
      <4>3. CASE j = Len(s) + 1 /\ i = Len(s) + 1
        BY <3>4, <3>6, <4>3
      <4> QED BY <3>2, <3>4, <4>1, <4>2, <4>3
    <3>8. \A i \in 1..Len(r) : \E j \in 1..n+1 : r[i] = sendqueue[j]
      <4> SUFFICES ASSUME NEW i \in 1..Len(r) PROVE \E j \in 1..n+1 : r[i] = sendqueue[j]
        OBVIOUS
      <4>1. CASE i \in 1..Len(s)
        <5>1. PICK j \in 1..n : s[i] = sendqueue[j]
          BY <3>3, <4>1
        <5>2. j \in 1..n+1 /\ r[i] = sendqueue[j]
          BY <2>1, <3>4, <4>1, <5>1
        <5> QED BY <5>2
      <4>2. CASE i = Len(s) + 1
        <5>1. n + 1 \in 1..n+1 /\ r[i] = sendqueue[n + 1]
          BY <2>1, <3>4, <4>2 DEF e
        <5> QED BY <5>1
      <4> QED BY <3>2, <3>4, <4>1, <4>2
    <3>9. Len(r) <= n + 1
      BY <2>1, <3>2, <3>4
    <3> QED BY <2>1, <3>1, <3>4, <3>7, <3>8, <3>9
  <2> QED BY <2>3, <2>4
<1>9. Part(L)
  <2>1. L \in N
    <3> HIDE DEF N
    <3>1. N \in SUBSET (0..L)
      BY DEF N
    <3> QED BY <1>0, <1>7, <1>8, <3>1, Induction
  <2> QED BY <2>1
<1> QED BY <1>5, <1>9 DEF L

\* The nodes of the reorder queues, as Stored has them.
Nodes(rq) == UNION {{p} \X DOMAIN rq[p] : p \in Peers}

\* A reorder queue that changes takes as many nodes as its length says.
LEMMA ChangedQueue ==
    ASSUME NEW rq \in [Peers -> Seq(Nat)], IsFiniteSet(Nodes(rq)),
           NEW p \in Peers, NEW s \in Seq(Nat), NEW new, new = [rq EXCEPT ![p] = s]
    PROVE  /\ IsFiniteSet(Nodes(new))
           /\ Cardinality(Nodes(new)) = Cardinality(Nodes(rq)) - Len(rq[p]) + Len(s)
<1>1. new \in [Peers -> Seq(Nat)] /\ new[p] = s /\ \A x \in Peers \ {p} : new[x] = rq[x]
  OBVIOUS
<1>2. ASSUME NEW f \in [Peers -> Seq(Nat)]
      PROVE  \A z : z \in Nodes(f) <=> \E x \in Peers : \E i \in 1..Len(f[x]) : z = <<x, i>>
  <2>1. \A x \in Peers : DOMAIN f[x] = 1..Len(f[x])
    BY LenProperties
  <2> QED BY <2>1 DEF Nodes
<1> DEFINE a == {p} \X (1..Len(rq[p]))
           b == {p} \X (1..Len(s))
           c == Nodes(rq) \ a
<1>3. Len(rq[p]) \in Nat /\ Len(s) \in Nat
  BY LenProperties
<1>4. ASSUME NEW n \in Nat
      PROVE  IsFiniteSet({p} \X (1..n)) /\ Cardinality({p} \X (1..n)) = n
  <2>1. IsFiniteSet({p}) /\ Cardinality({p}) = 1
    BY FS_Singleton
  <2>2. IsFiniteSet(1..n) /\ Cardinality(1..n) = IF 1 > n THEN 0 ELSE n - 1 + 1
    BY FS_Interval
  <2>3. Cardinality(1..n) = n
    BY <2>2
  <2>4. /\ IsFiniteSet({p} \X (1..n))
        /\ Cardinality({p} \X (1..n)) = Cardinality({p}) * Cardinality(1..n)
    BY <2>1, <2>2, FS_Product
  <2> QED BY <2>1, <2>3, <2>4
<1>5. /\ IsFiniteSet(a) /\ Cardinality(a) = Len(rq[p])
      /\ IsFiniteSet(b) /\ Cardinality(b) = Len(s)
  BY <1>3, <1>4
<1>6. a \subseteq Nodes(rq)
  <2>1. \A z \in a : \E i \in 1..Len(rq[p]) : z = <<p, i>>
    OBVIOUS
  <2>2. \A z : z \in Nodes(rq) <=> \E x \in Peers : \E i \in 1..Len(rq[x]) : z = <<x, i>>
    BY <1>2
  <2> HIDE DEF a
  <2> QED BY <2>1, <2>2
<1>7. Nodes(new) = c \cup b
  <2>1. \A z : z \in a <=> \E i \in 1..Len(rq[p]) : z = <<p, i>>
    OBVIOUS
  <2>2. \A z : z \in b <=> \E i \in 1..Len(s) : z = <<p, i>>
    OBVIOUS
  <2>3. \A z : z \in Nodes(rq) <=> \E x \in Peers : \E i \in 1..Len(rq[x]) : z = <<x, i>>
    BY <1>2
  <2>4. \A z : z \in Nodes(new) <=> \E x \in Peers : \E i \in 1..Len(new[x]) : z = <<x, i>>
    BY <1>1, <1>2
  <2> HIDE DEF a, b
  <2>5. ASSUME NEW z \in Nodes(new) PROVE z \in c \cup b
    <3>1. PICK x \in Peers : \E i \in 1..Len(new[x]) : z = <<x, i>>
      BY <2>4
    <3>2. CASE x = p
      BY <1>1, <2>2, <3>1, <3>2
    <3>3. CASE x # p
      <4>1. new[x] = rq[x]
        BY <1>1, <3>3
      <4>2. z \in Nodes(rq)
        BY <2>3, <3>1, <4>1
      <4>3. z \notin a
        BY <2>1, <3>1, <3>3
      <4> QED BY <4>2, <4>3
    <3> QED BY <3>2, <3>3
  <2>6. ASSUME NEW z \in c PROVE z \in Nodes(new)
    <3>1. PICK x \in Peers : \E i \in 1..Len(rq[x]) : z = <<x, i>>
      BY <2>3
    <3>2. x # p
      BY <2>1, <3>1
    <3>3. new[x] = rq[x]
      BY <1>1, <3>2
    <3> QED BY <2>4, <3>1, <3>3
  <2>7. ASSUME NEW z \in b PROVE z \in Nodes(new)
    BY <1>1, <2>2, <2>4
  <2> HIDE DEF c
  <2> QED BY <2>5, <2>6, <2>7
<1>8. c \cap b = {}
  <2>1. \A z : z \in Nodes(rq) <=> \E x \in Peers : \E i \in 1..Len(rq[x]) : z = <<x, i>>
    BY <1>2
  <2> SUFFICES ASSUME NEW z \in c, z \in b PROVE FALSE
    OBVIOUS
  <2>2. PICK i \in 1..Len(s) : z = <<p, i>>
    OBVIOUS
  <2>3. PICK x \in Peers : \E j \in 1..Len(rq[x]) : z = <<x, j>>
    BY <2>1
  <2>4. PICK j \in 1..Len(rq[x]) : z = <<x, j>>
    BY <2>3
  <2>5. x = p
    BY <2>2, <2>4
  <2>6. z \in a
    BY <2>4, <2>5
  <2> QED BY <2>6
<1>9. /\ IsFiniteSet(c)
      /\ Cardinality(c) = Cardinality(Nodes(rq)) - Len(rq[p])
  <2>1. /\ IsFiniteSet(Nodes(rq) \ a)
        /\ Cardinality(Nodes(rq) \ a) = Cardinality(Nodes(rq)) - Cardinality(Nodes(rq) \cap a)
    BY FS_Difference
  <2>2. Nodes(rq) \cap a = a
    BY <1>6
  <2> QED BY <1>5, <2>1, <2>2
<1> HIDE DEF a, b, c
<1>10. /\ IsFiniteSet(c \cup b)
       /\ Cardinality(c \cup b) = Cardinality(c) + Cardinality(b) - Cardinality(c \cap b)
  BY <1>5, <1>9, FS_Union
<1>11. Cardinality(c \cap b) = 0
  BY <1>8, FS_EmptySet
<1>12. Cardinality(Nodes(rq)) \in Nat
  BY FS_CardinalityType
<1>13. Cardinality(c \cup b) = Cardinality(Nodes(rq)) - Len(rq[p]) + Len(s)
  BY <1>3, <1>5, <1>9, <1>10, <1>11, <1>12
<1>14. IsFiniteSet(Nodes(new)) /\ Cardinality(Nodes(new)) = Cardinality(c \cup b)
  BY <1>7, <1>10
<1> QED BY <1>13, <1>14

-----------------------------------------------------------------------------
(* The inductive invariant, action by action *)

LEMMA InitNetq == NetqInit => NetqInv
<1> SUFFICES ASSUME NetqInit PROVE NetqInv
  OBVIOUS
<1> USE DEF NetqInit
<1>1. <<>> \in Seq(NodeType) /\ Len(<<>>) = 0 /\ <<>> \in Seq(Nat)
  BY EmptySeq
<1>2. NetqTypes
  BY <1>1, PoolAssumption DEF NetqTypes
<1>3. Stored = {}
  <2>1. \A p \in Peers : DOMAIN reorder_queue[p] = {}
    <3> SUFFICES ASSUME NEW p \in Peers PROVE DOMAIN reorder_queue[p] = {}
      OBVIOUS
    <3>1. reorder_queue[p] = <<>>
      OBVIOUS
    <3> QED BY <3>1
  <2> QED BY <2>1 DEF Stored
<1>4. IsFiniteSet(Stored) /\ Cardinality(Stored) = 0
  BY <1>3, FS_EmptySet
<1>5. Sorted(sendqueue) /\ NotLate
  BY <1>1 DEF Sorted, NotLate
<1>6. PoolConserved
  BY <1>1, <1>4, PoolAssumption DEF PoolConserved, Held
<1> QED BY <1>2, <1>4, <1>5, <1>6 DEF NetqInv

\* What the invariant says of the nodes, in numbers.
LEMMA Counts ==
    ASSUME NetqInv
    PROVE  /\ Len(sendqueue) \in Nat
           /\ Cardinality(Stored) \in Nat
           /\ avail + Len(sendqueue) + Cardinality(Stored) + replayed = NETQ_MAXCNT
           /\ \A i \in 1..Len(sendqueue) : sendqueue[i] \in NodeType /\ sendqueue[i].t \in Nat
<1>1. Len(sendqueue) \in Nat /\ \A i \in 1..Len(sendqueue) : sendqueue[i] \in NodeType
  BY LenProperties, ElementOfSeq DEF NetqInv, NetqTypes
<1>2. Cardinality(Stored) \in Nat
  BY FS_CardinalityType DEF NetqInv
<1>3. avail + Len(sendqueue) + Cardinality(Stored) + replayed = NETQ_MAXCNT
  BY <1>1, <1>2 DEF NetqInv, NetqTypes, PoolConserved, Held
<1>4. \A i \in 1..Len(sendqueue) : sendqueue[i].t \in Nat
  BY <1>1 DEF NodeType
<1> QED BY <1>1, <1>2, <1>3, <1>4

LEMMA StoredUnchanged ==
    ASSUME reorder_queue' = reorder_queue PROVE Stored' = Stored
BY DEF Stored

LEMMA SendKeeps ==
    ASSUME NetqInv, NEW p \in Peers, Send(p) PROVE NetqInv'
<1>1. /\ sendqueue \in Seq(NodeType) /\ Sorted(sendqueue) /\ avail \in Nat /\ sent \in Nat
      /\ reorder_queue' = reorder_queue /\ replayed' = replayed /\ replayed \in Nat
      /\ sent' \in Nat
  BY DEF NetqInv, NetqTypes, Send
<1>2. Stored' = Stored /\ IsFiniteSet(Stored')
  BY <1>1, StoredUnchanged DEF NetqInv
<1>3. CASE avail > 0
  <2> DEFINE n == [msg |-> sent + 1, peer |-> p, t |-> Timeout, retransmit_cnt |-> 0]
             q == netq_insert_node(sendqueue, n)
  <2>1. avail' = avail - 1 /\ sendqueue' = q /\ timer' = Timeout
    BY <1>3 DEF Send
  <2>2. n \in NodeType
    BY <1>1, TimeAssumption DEF NodeType
  <2> HIDE DEF n
  <2>3. q \in Seq(NodeType) /\ Len(q) = Len(sendqueue) + 1 /\ Sorted(q)
    BY <1>1, <2>2, Insertion
  <2> HIDE DEF q
  <2>4. NetqTypes'
    BY <1>1, <1>3, <2>1, <2>3, TimeAssumption DEF NetqInv, NetqTypes, Send
  <2>5. Sorted(sendqueue)'
    BY <2>1, <2>3 DEF Sorted
  <2>6. NotLate'
    <3> SUFFICES ASSUME NEW i \in 1..Len(q) PROVE Timeout # -1 /\ Timeout <= q[i].t + Timeout
      BY <2>1 DEF NotLate
    <3>1. q[i] \in NodeType
      BY <2>3, ElementOfSeq
    <3>2. q[i].t \in Nat
      BY <3>1 DEF NodeType
    <3> QED BY <3>2, TimeAssumption
  <2>7. PoolConserved'
    BY <1>1, <1>2, <1>3, <2>1, <2>3, Counts DEF PoolConserved, Held
  <2> QED BY <1>2, <2>4, <2>5, <2>6, <2>7 DEF NetqInv
<1>4. CASE ~(avail > 0)
  <2>1. sendqueue' = sendqueue /\ avail' = avail /\ timer' = timer
    BY <1>4 DEF Send
  <2> QED BY <1>1, <1>2, <2>1
          DEF NetqInv, NetqTypes, Sorted, NotLate, PoolConserved, Held, Send
<1> QED BY <1>3, <1>4

LEMMA StopKeeps ==
    ASSUME NetqInv, NEW p \in Peers, Stop(p) PROVE NetqInv'
<1> DEFINE k == Kept(p)
<1>1. sendqueue \in Seq(NodeType) /\ Sorted(sendqueue)
  BY DEF NetqInv, NetqTypes
<1>2. /\ k \in Seq(NodeType) /\ Len(k) <= Len(sendqueue) /\ Sorted(k)
      /\ \A i \in 1..Len(k) : \E j \in 1..Len(sendqueue) : k[i] = sendqueue[j]
  BY <1>1, KeptNodes
<1>3. /\ sendqueue' = k /\ avail' = avail + (Len(sendqueue) - Len(k))
      /\ UNCHANGED <<reorder_queue, timer, sent, arrived, replayed>>
  BY DEF Stop, dtls_stop_retransmission
<1> HIDE DEF k
<1>4. Len(k) \in Nat /\ Len(sendqueue) \in Nat
  BY <1>1, <1>2, LenProperties
<1>5. Stored' = Stored /\ IsFiniteSet(Stored')
  BY <1>3, StoredUnchanged DEF NetqInv
<1>6. NetqTypes'
  BY <1>2, <1>3, <1>4 DEF NetqInv, NetqTypes
<1>7. Sorted(sendqueue)'
  BY <1>2, <1>3 DEF Sorted
<1>8. NotLate'
  BY <1>2, <1>3 DEF NetqInv, NotLate
<1>9. PoolConserved'
  <2>1. avail \in Nat /\ replayed \in Nat
    BY DEF NetqInv, NetqTypes
  <2> QED BY <1>3, <1>4, <1>5, <2>1, Counts DEF PoolConserved, Held
<1> QED BY <1>5, <1>6, <1>7, <1>8, <1>9 DEF NetqInv

\* A step that only changes one reorder queue, the free nodes and what was lost.
LEMMA QueueStep ==
    ASSUME NetqInv, NEW p \in Peers, NEW s \in Seq(Nat),
           reorder_queue' = [reorder_queue EXCEPT ![p] = s],
           UNCHANGED <<sendqueue, timer, sent>>,
           avail' \in Nat, arrived' \in Nat, replayed' \in Nat,
           avail' + replayed' + Len(s) = avail + replayed + Len(reorder_queue[p])
    PROVE  NetqInv'
<1>1. /\ reorder_queue \in [Peers -> Seq(Nat)] /\ IsFiniteSet(Nodes(reorder_queue))
      /\ avail \in Nat /\ replayed \in Nat
  BY DEF NetqInv, NetqTypes, Stored, Nodes
<1>2. /\ IsFiniteSet(Nodes(reorder_queue'))
      /\ Cardinality(Nodes(reorder_queue'))
           = Cardinality(Nodes(reorder_queue)) - Len(reorder_queue[p]) + Len(s)
  BY <1>1, ChangedQueue
<1>3. Stored = Nodes(reorder_queue) /\ Stored' = Nodes(reorder_queue')
  BY DEF Stored, Nodes
<1>4. Len(s) \in Nat /\ Len(reorder_queue[p]) \in Nat
  BY <1>1, LenProperties
<1>5. /\ IsFiniteSet(Stored')
      /\ Cardinality(Stored') = Cardinality(Stored) - Len(reorder_queue[p]) + Len(s)
  BY <1>2, <1>3
<1>6. NetqTypes'
  BY <1>1 DEF NetqInv, NetqTypes
<1>7. Sorted(sendqueue)' /\ NotLate'
  BY DEF NetqInv, Sorted, NotLate
<1>8. PoolConserved'
  <2>1. Cardinality(Stored') \in Nat /\ Cardinality(Stored) \in Nat
    BY <1>5, FS_CardinalityType DEF NetqInv
  <2>2. sendqueue' = sendqueue /\ Len(sendqueue) \in Nat
    BY Counts
  <2>3. avail + Len(sendqueue) + Cardinality(Stored) + replayed = NETQ_MAXCNT
    BY Counts
  <2>4. avail' + Len(sendqueue) + Cardinality(Stored') + replayed' = NETQ_MAXCNT
    <3> DEFINE m == Len(reorder_queue[p])
               n == Len(s)
               c == Cardinality(Stored)
               d == Cardinality(Stored')
               l == Len(sendqueue)
               x == avail'
               y == replayed'
    <3>1. /\ m \in Nat /\ n \in Nat /\ c \in Nat /\ d \in Nat /\ l \in Nat
          /\ x \in Nat /\ y \in Nat /\ avail \in Nat /\ replayed \in Nat
      BY <1>1, <1>4, <2>1, <2>2
    <3>2. d = c - m + n
      BY <1>5
    <3>3. x + y + n = avail + replayed + m
      OBVIOUS
    <3>4. avail + l + c + replayed = NETQ_MAXCNT
      BY <2>3
    <3> HIDE DEF m, n, c, d, l, x, y
    <3>5. x + l + d + y = NETQ_MAXCNT
      BY ONLY <3>1, <3>2, <3>3, <3>4
    <3> QED BY <3>5 DEF l, d, x, y
  <2>5. Len(sendqueue') = Len(sendqueue)
    BY <2>2
  <2>6. avail' + (Len(sendqueue') + Cardinality(Stored')) + replayed' = NETQ_MAXCNT
    BY <2>1, <2>2, <2>4, <2>5
  <2> QED BY <2>6 DEF PoolConserved, Held
<1> QED BY <1>5, <1>6, <1>7, <1>8 DEF NetqInv

LEMMA EarlyKeeps ==
    ASSUME NetqInv, NEW p \in Peers, Early(p) PROVE NetqInv'
<1>1. /\ reorder_queue \in [Peers -> Seq(Nat)] /\ avail \in Nat /\ replayed \in Nat
      /\ arrived' \in Nat
  BY DEF NetqInv, NetqTypes, Early
<1>2. reorder_queue[p] \in Seq(Nat) /\ Len(reorder_queue[p]) \in Nat
  BY <1>1, LenProperties
<1>3. PICK seq \in 1..MaxEarly :
        IF Contains(reorder_queue[p], seq) \/ avail = 0
        THEN UNCHANGED <<reorder_queue, avail>>
        ELSE /\ reorder_queue' = [reorder_queue EXCEPT ![p] = Append(@, seq)]
             /\ avail' = avail - 1
  BY DEF Early
<1>4. UNCHANGED <<sendqueue, timer, sent, replayed>>
  BY DEF Early
<1>5. CASE Contains(reorder_queue[p], seq) \/ avail = 0
  <2>1. reorder_queue' = reorder_queue /\ avail' = avail
    BY <1>3, <1>5
  <2>2. reorder_queue' = [reorder_queue EXCEPT ![p] = reorder_queue[p]]
    BY <1>1, <2>1
  <2> QED BY <1>1, <1>2, <1>4, <2>1, <2>2, QueueStep
<1>6. CASE ~(Contains(reorder_queue[p], seq) \/ avail = 0)
  <2> DEFINE s == Append(reorder_queue[p], seq)
  <2>1. s \in Seq(Nat) /\ Len(s) = Len(reorder_queue[p]) + 1
    <3>1. seq \in Nat
      BY BoundAssumption
    <3> QED BY <1>2, <3>1, AppendProperties
  <2>2. reorder_queue' = [reorder_queue EXCEPT ![p] = s] /\ avail' = avail - 1
    BY <1>3, <1>6
  <2> HIDE DEF s
  <2>3. avail' \in Nat /\ avail' + replayed' + Len(s) = avail + replayed + Len(reorder_queue[p])
    BY <1>1, <1>2, <1>4, <1>6, <2>1, <2>2
  <2> QED BY <1>1, <1>4, <2>1, <2>2, <2>3, QueueStep
<1> QED BY <1>5, <1>6

LEMMA ReplayKeeps ==
    ASSUME NetqInv, NEW p \in Peers, Replay(p) PROVE NetqInv'
<1>1. /\ reorder_queue \in [Peers -> Seq(Nat)] /\ avail \in Nat /\ replayed \in Nat
      /\ arrived \in Nat
  BY DEF NetqInv, NetqTypes
<1> DEFINE q == reorder_queue[p]
<1>2. q \in Seq(Nat) /\ Len(q) \in Nat /\ \A j \in 1..Len(q) : q[j] \in Nat
  BY <1>1, LenProperties, ElementOfSeq
<1>3. PICK i \in 1..Len(q) : reorder_queue' = [reorder_queue EXCEPT ![p] = RemoveAt(@, i)]
  BY DEF Replay
<1>4. replayed' = replayed + 1 /\ UNCHANGED <<sendqueue, avail, timer, sent, arrived>>
  BY DEF Replay
<1> DEFINE s == RemoveAt(q, i)
<1>5. reorder_queue' = [reorder_queue EXCEPT ![p] = s]
  BY <1>3
<1> HIDE DEF q
<1>6. s \in Seq(Nat) /\ Len(s) = Len(q) - 1
  <2> DEFINE a == SubSeq(q, 1, i - 1)
             b == SubSeq(q, i + 1, Len(q))
  <2>1. a \in Seq(Nat) /\ Len(a) = i - 1
    <3>1. /\ a \in Seq(Nat) /\ Len(a) = IF 1 <= i - 1 THEN (i - 1) - 1 + 1 ELSE 0
      <4>1. 1 \in Int /\ i - 1 \in Int /\ \A j \in 1..i-1 : q[j] \in Nat
        BY <1>2
      <4> QED BY <4>1, SubSeqProperties
    <3> HIDE DEF a
    <3> QED BY <1>2, <3>1
  <2>2. b \in Seq(Nat) /\ Len(b) = Len(q) - i
    <3>1. /\ b \in Seq(Nat) /\ Len(b) = IF i + 1 <= Len(q) THEN Len(q) - (i + 1) + 1 ELSE 0
      <4>1. i + 1 \in Int /\ Len(q) \in Int /\ \A j \in i+1..Len(q) : q[j] \in Nat
        BY <1>2
      <4> QED BY <4>1, SubSeqProperties
    <3> HIDE DEF b
    <3> QED BY <1>2, <3>1
  <2> HIDE DEF a, b
  <2>3. a \o b \in Seq(Nat) /\ Len(a \o b) = Len(a) + Len(b)
    BY <2>1, <2>2, ConcatProperties
  <2>4. s = a \o b
    BY DEF RemoveAt, a, b
  <2>5. Len(a \o b) = Len(q) - 1
    BY <1>2, <2>1, <2>2, <2>3
  <2> QED BY <2>3, <2>4, <2>5
<1> HIDE DEF s
<1>7. avail' + replayed' + Len(s) = avail + replayed + Len(q)
  BY <1>1, <1>2, <1>4, <1>6
<1>8. avail' \in Nat /\ arrived' \in Nat /\ replayed' \in Nat
  BY <1>1, <1>4
<1> QED BY <1>4, <1>5, <1>6, <1>7, <1>8, QueueStep DEF q

LEMMA HandshakeFreeKeeps ==
    ASSUME NetqInv, NEW p \in Peers, HandshakeFree(p) PROVE NetqInv'
<1>1. /\ reorder_queue \in [Peers -> Seq(Nat)] /\ avail \in Nat /\ replayed \in Nat
      /\ arrived \in Nat
  BY DEF NetqInv, NetqTypes
<1>2. Len(reorder_queue[p]) \in Nat
  BY <1>1, LenProperties
<1>3. <<>> \in Seq(Nat) /\ Len(<<>>) = 0
  BY EmptySeq
<1>4. /\ avail' = avail + Len(reorder_queue[p])
      /\ reorder_queue' = [reorder_queue EXCEPT ![p] = <<>>]
      /\ UNCHANGED <<sendqueue, timer, sent, arrived, replayed>>
  BY DEF HandshakeFree
<1>5. avail' \in Nat /\ avail' + replayed' + Len(<<>>) = avail + replayed + Len(reorder_queue[p])
  BY <1>1, <1>2, <1>3, <1>4
<1> QED BY <1>1, <1>3, <1>4, <1>5, QueueStep

\* The queue after the callback has treated a node, and the nodes it gave back.
LEMMA CheckedQueue ==
    ASSUME NetqInv
    PROVE  /\ Checked \in Seq(NodeType)
           /\ Sorted(Checked)
           /\ Len(Checked) = IF Due /\ Head(sendqueue).retransmit_cnt >= MaxRetransmit
                             THEN Len(sendqueue) - 1 ELSE Len(sendqueue)
<1>1. sendqueue \in Seq(NodeType) /\ Sorted(sendqueue)
  BY DEF NetqInv, NetqTypes
<1>2. CASE ~Due
  BY <1>1, <1>2 DEF Checked
<1>3. CASE Due
  <2> DEFINE h == Head(sendqueue)
             q == Tail(sendqueue)
  <2>1. sendqueue # <<>>
    BY <1>3 DEF Due
  <2>2. /\ h \in NodeType /\ q \in Seq(NodeType) /\ Len(q) = Len(sendqueue) - 1
        /\ \A i \in 1..Len(q) : q[i] = sendqueue[i + 1]
    BY <1>1, <2>1, HeadTailProperties
  <2>3. Len(sendqueue) \in Nat
    BY <1>1, LenProperties
  <2>4. h.retransmit_cnt \in 0..MaxRetransmit
    BY <2>2 DEF NodeType
  <2>5. Sorted(q)
    <3> HIDE DEF q
    <3> SUFFICES ASSUME NEW i \in 1..Len(q), NEW j \in 1..Len(q), i <= j
                 PROVE  q[i].t <= q[j].t
      BY DEF Sorted
    <3>1. i + 1 \in 1..Len(sendqueue) /\ j + 1 \in 1..Len(sendqueue) /\ i + 1 <= j + 1
      BY <2>2, <2>3
    <3>2. sendqueue[i + 1].t <= sendqueue[j + 1].t
      BY <1>1, <3>1 DEF Sorted
    <3> QED BY <2>2, <3>2
  <2>6. CASE h.retransmit_cnt < MaxRetransmit
    <3> DEFINE n == [h EXCEPT !.retransmit_cnt = @ + 1, !.t = Delay[h.retransmit_cnt + 1]]
    <3>1. h.retransmit_cnt + 1 \in 0..MaxRetransmit
      BY <2>4, <2>6, TimeAssumption
    <3>2. Delay[h.retransmit_cnt + 1] \in Nat
      BY <3>1, DelayIsTime
    <3>3. n \in NodeType
      BY <2>2, <3>1, <3>2 DEF NodeType
    <3>4. Checked = netq_insert_node(q, n)
      BY <1>3, <2>6 DEF Checked, Retransmitted
    <3> HIDE DEF n, q
    <3>5. /\ Checked \in Seq(NodeType) /\ Sorted(Checked) /\ Len(Checked) = Len(q) + 1
      BY <2>2, <2>5, <3>3, <3>4, Insertion
    <3>6. Len(Checked) = Len(sendqueue)
      BY <2>2, <2>3, <3>5
    <3>7. ~(h.retransmit_cnt >= MaxRetransmit)
      BY <2>4, <2>6, TimeAssumption
    <3> QED BY <3>5, <3>6, <3>7
  <2>7. CASE ~(h.retransmit_cnt < MaxRetransmit)
    <3>1. Checked = q
      BY <1>3, <2>7 DEF Checked
    <3>2. h.retransmit_cnt >= MaxRetransmit
      BY <2>4, <2>7, TimeAssumption
    <3> QED BY <1>3, <2>2, <2>5, <3>1, <3>2
  <2> QED BY <2>6, <2>7
<1> QED BY <1>2, <1>3

LEMMA FireKeeps ==
    ASSUME NetqInv, Fire PROVE NetqInv'
<1> DEFINE q == Checked
           gone == Due /\ Head(sendqueue).retransmit_cnt >= MaxRetransmit
<1>1. /\ q \in Seq(NodeType) /\ Sorted(q)
      /\ Len(q) = IF gone THEN Len(sendqueue) - 1 ELSE Len(sendqueue)
  BY CheckedQueue
<1>2. /\ sendqueue' = q /\ timer' = Rearmed(q)
      /\ avail' = IF gone THEN avail + 1 ELSE avail
      /\ UNCHANGED <<reorder_queue, sent, arrived, replayed>>
  BY DEF Fire
<1>3. avail \in Nat /\ replayed \in Nat
  BY DEF NetqInv, NetqTypes
<1> HIDE DEF q, gone
<1>4. Len(q) \in Nat /\ \A i \in 1..Len(q) : q[i].t \in Nat
  <2>1. Len(q) \in Nat /\ \A i \in 1..Len(q) : q[i] \in NodeType
    BY <1>1, LenProperties, ElementOfSeq
  <2> QED BY <2>1 DEF NodeType
<1>5. q # <<>> => Len(q) >= 1 /\ Head(q) = q[1] /\ q[1].t \in Nat
  <2> SUFFICES ASSUME q # <<>> PROVE Len(q) >= 1 /\ Head(q) = q[1] /\ q[1].t \in Nat
    OBVIOUS
  <2>1. Len(q) \in Nat \ {0}
    BY <1>1, EmptySeq
  <2>2. Head(q) = q[1]
    BY <1>1
  <2> QED BY <1>4, <2>1, <2>2
<1>6. timer' \in Nat \cup {-1}
  <2>1. CASE q = <<>>
    BY <1>2, <2>1 DEF Rearmed
  <2>2. CASE q # <<>>
    <3>1. timer' = IF q[1].t = 0 THEN 1 ELSE q[1].t
      BY <1>2, <1>5, <2>2 DEF Rearmed
    <3> QED BY <1>5, <2>2, <3>1
  <2> QED BY <2>1, <2>2
<1>7. NetqTypes'
  BY <1>1, <1>2, <1>3, <1>6 DEF NetqInv, NetqTypes
<1>8. Sorted(sendqueue)'
  BY <1>1, <1>2 DEF Sorted
<1>9. NotLate'
  <2> SUFFICES ASSUME NEW i \in 1..Len(q) PROVE timer' # -1 /\ timer' <= q[i].t + Timeout
    BY <1>2 DEF NotLate
  <2>1. q # <<>>
    BY <1>4, EmptySeq
  <2>2. timer' = IF q[1].t = 0 THEN 1 ELSE q[1].t
    BY <1>2, <1>5, <2>1 DEF Rearmed
  <2>3. q[1].t <= q[i].t
    BY <1>1, <1>4 DEF Sorted
  <2>4. q[1].t \in Nat /\ q[i].t \in Nat
    BY <1>4, <1>5, <2>1
  <2>5. Timeout \in Nat /\ Timeout >= 1
    BY TimeAssumption
  <2> QED BY <2>2, <2>3, <2>4, <2>5
<1>10. Stored' = Stored /\ IsFiniteSet(Stored')
  BY <1>2, StoredUnchanged DEF NetqInv
<1>11. PoolConserved'
  <2>1. /\ Len(sendqueue) \in Nat /\ Cardinality(Stored) \in Nat
        /\ avail + Len(sendqueue) + Cardinality(Stored) + replayed = NETQ_MAXCNT
    BY Counts
  <2>2. avail' + Len(q) + Cardinality(Stored) + replayed = NETQ_MAXCNT
    BY <1>1, <1>2, <1>3, <1>4, <2>1
  <2>3. avail' \in Nat
    BY <1>2, <1>3
  <2> QED BY <1>2, <1>3, <1>4, <1>10, <2>1, <2>2, <2>3 DEF PoolConserved, Held
<1> QED BY <1>7, <1>8, <1>9, <1>10, <1>11 DEF NetqInv

LEMMA SameLength ==
    ASSUME NEW n \in Nat, NEW m \in Nat, 1..n = 1..m PROVE n = m
<1>1. ASSUME n < m PROVE FALSE
  <2>1. m \in 1..m /\ m \notin 1..n
    BY <1>1
  <2> QED BY <2>1
<1>2. ASSUME m < n PROVE FALSE
  <2>1. n \in 1..n /\ n \notin 1..m
    BY <1>2
  <2> QED BY <2>1
<1> QED BY <1>1, <1>2

LEMMA TickKeeps ==
    ASSUME NetqInv, Tick PROVE NetqInv'
<1> DEFINE q == [i \in DOMAIN sendqueue |-> [sendqueue[i] EXCEPT !.t = Sooner(@)]]
           L == Len(sendqueue)
<1>1. /\ sendqueue' = q /\ timer # 0 /\ timer' = Sooner(timer)
      /\ UNCHANGED <<reorder_queue, avail, sent, arrived, replayed>>
  BY DEF Tick
<1>2. /\ sendqueue \in Seq(NodeType) /\ L \in Nat /\ DOMAIN sendqueue = 1..L
      /\ \A i \in 1..L : sendqueue[i] \in NodeType /\ sendqueue[i].t \in Nat
  BY Counts, LenProperties DEF NetqInv, NetqTypes
<1>3. ASSUME NEW i \in 1..L
      PROVE  /\ [sendqueue[i] EXCEPT !.t = Sooner(@)] \in NodeType
             /\ [sendqueue[i] EXCEPT !.t = Sooner(@)].t = Sooner(sendqueue[i].t)
  <2>1. Sooner(sendqueue[i].t) \in Nat
    BY <1>2 DEF Sooner
  <2> QED BY <1>2, <2>1 DEF NodeType
<1>4. q \in [1..L -> NodeType]
  BY <1>2, <1>3
<1>5. q \in Seq(NodeType) /\ Len(q) = L
  <2> HIDE DEF q, L
  <2>1. q \in Seq(NodeType)
    BY <1>2, <1>4
  <2>2. DOMAIN q = 1..Len(q) /\ Len(q) \in Nat
    BY <2>1, LenProperties
  <2>3. 1..Len(q) = 1..L
    BY <1>4, <2>2
  <2>4. Len(q) \in Nat /\ L \in Nat
    BY <1>2, <2>2
  <2>5. Len(q) = L
    BY ONLY <2>3, <2>4, SameLength
  <2> QED BY <2>1, <2>5
<1>6. \A i \in 1..L : q[i].t = Sooner(sendqueue[i].t)
  BY <1>2, <1>3
<1> HIDE DEF q
<1>7. NetqTypes'
  <2>1. timer' \in Nat \cup {-1}
    BY <1>1 DEF NetqInv, NetqTypes, Sooner
  <2> QED BY <1>1, <1>5, <2>1 DEF NetqInv, NetqTypes
<1>8. Sorted(sendqueue)'
  <2> SUFFICES ASSUME NEW i \in 1..L, NEW j \in 1..L, i <= j PROVE q[i].t <= q[j].t
    BY <1>1, <1>5 DEF Sorted
  <2>1. sendqueue[i].t <= sendqueue[j].t
    BY DEF NetqInv, Sorted
  <2>2. q[i].t = Sooner(sendqueue[i].t) /\ q[j].t = Sooner(sendqueue[j].t)
    BY <1>6
  <2>3. sendqueue[i].t \in Nat /\ sendqueue[j].t \in Nat
    BY <1>2
  <2> QED BY <2>1, <2>2, <2>3 DEF Sooner
<1>9. NotLate'
  <2> SUFFICES ASSUME NEW i \in 1..L PROVE timer' # -1 /\ timer' <= q[i].t + Timeout
    BY <1>1, <1>5 DEF NotLate
  <2>1. timer # -1 /\ timer <= sendqueue[i].t + Timeout /\ timer \in Nat
    BY DEF NetqInv, NetqTypes, NotLate
  <2>2. q[i].t = Sooner(sendqueue[i].t) /\ sendqueue[i].t \in Nat
    BY <1>2, <1>6
  <2>3. timer' = timer - 1 /\ timer >= 1
    BY <1>1, <2>1 DEF Sooner
  <2>4. q[i].t = IF sendqueue[i].t > 0 THEN sendqueue[i].t - 1 ELSE sendqueue[i].t
    BY <2>2 DEF Sooner
  <2>5. Timeout \in Nat
    BY TimeAssumption
  <2> QED BY <2>1, <2>2, <2>3, <2>4, <2>5
<1>10. Stored' = Stored /\ IsFiniteSet(Stored')
  BY <1>1, StoredUnchanged DEF NetqInv
<1>11. PoolConserved'
  BY <1>1, <1>5, <1>10 DEF NetqInv, PoolConserved, Held
<1> QED BY <1>7, <1>8, <1>9, <1>10, <1>11 DEF NetqInv

LEMMA NextNetq == NetqInv /\ [NetqNext]_netqvars => NetqInv'
<1> SUFFICES ASSUME NetqInv, [NetqNext]_netqvars PROVE NetqInv'
  OBVIOUS
<1>1. CASE Fire
  BY <1>1, FireKeeps
<1>2. CASE Tick
  BY <1>2, TickKeeps
<1>3. ASSUME NEW p \in Peers,
             Send(p) \/ Stop(p) \/ Early(p) \/ Replay(p) \/ HandshakeFree(p)
      PROVE  NetqInv'
  BY <1>3, SendKeeps, StopKeeps, EarlyKeeps, ReplayKeeps, HandshakeFreeKeeps
<1>4. CASE UNCHANGED netqvars
  <2>1. /\ sendqueue' = sendqueue /\ reorder_queue' = reorder_queue /\ avail' = avail
        /\ timer' = timer /\ sent' = sent /\ arrived' = arrived /\ replayed' = replayed
    BY <1>4 DEF netqvars
  <2>2. Stored' = Stored
    BY <2>1, StoredUnchanged
  <2> QED BY <2>1, <2>2 DEF NetqInv, NetqTypes, Sorted, NotLate, PoolConserved, Held
<1> QED BY <1>1, <1>2, <1>3, <1>4 DEF NetqNext

-----------------------------------------------------------------------------
(* Theorems *)

\* netq.c and the retransmission callback: in every reachable state the queues
\* hold nodes, the send queue is in the order of its times, the timer is in
\* time and the pool is accounted for.
THEOREM NetqInvariant == NetqSpec => []NetqInv
  BY InitNetq, NextNetq, PTL DEF NetqSpec

\* netq_storage is shared by the send queue and the reorder queues: whatever the
\* size of the pool and the number of peers, every node is free, in one queue,
\* or was lost when handle_handshake() replayed the message in it.
THEOREM PoolKept == NetqSpec => []PoolConserved
<1>1. NetqInv => PoolConserved
  BY DEF NetqInv
<1> QED BY <1>1, NetqInvariant, PTL

\* dtls_retransmit_callback() sets the one timer for the head of the queue, every
\* transmission sets it anew: it is never more than one timeout late for any
\* message that waits for an answer.
THEOREM TimerInTime == NetqSpec => []NotLate
<1>1. NetqInv => NotLate
  BY DEF NetqInv
<1> QED BY <1>1, NetqInvariant, PTL
=============================================================================
