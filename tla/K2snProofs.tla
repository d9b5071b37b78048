----------------------------- MODULE K2snProofs ----------------------------
(***************************************************************************)
(* cff() stays inside its table, chooses distinct component keys, and      *)
(* gives message number n the n-th set of them, for every number of keys   *)
(* k2sn_t and every signature size tb2.  The long numbers it calculates    *)
(* with are exact, for every base and number of limbs.                     *)
(*                                                                         *)
(* For every even height of the Merkle tree, the TreeHash instances of     *)
(* ksnmss_sign() stay within their arrays and have their results in time,  *)
(* and the path in every signature leads to the published root.            *)
(*                                                                         *)
(* For every number of component keys, create_L_tree() hashes each of them *)
(* once and in order, under pads of its own.  For every stream, hash key   *)
(* and set of component keys, the sum that signs is accepted: packing is   *)
(* exact, no sum leaves its byte, and the map is linear modulo p.          *)
(*                                                                         *)
(* That the table counts sets is proved by the least wrong row, and what   *)
(* runs up the limbs by the least wrong limb: with a set of rows or limbs  *)
(* in the place of a predicate.  Sums are followed up in the same way.     *)
(***************************************************************************)
EXTENDS K2sn, FiniteSetTheorems, WellFoundedInduction, TLAPS

Cells == 0..k2sn_t-1
Cols == 0..tb2

\* What is known of the table once its borders are set: nothing above the
\* diagonal, and Pascal's rule in the rows filled so far.
Borders ==
    \A n \in Cells, m \in Cols :
        /\ m = 0 \/ m = n => binoTab[n][m] = 1
        /\ m > n => binoTab[n][m] = 0
Pascal ==
    \A n \in 1..row-1, m \in 1..tb2 :
        binoTab[n][m] = binoTab[n - 1][m - 1] + binoTab[n - 1][m]
Table ==
    /\ row = 0 => binoTab = EmptyTable
    /\ row >= 1 => Borders /\ Pascal

\* What is left of the message is below the number of ways to choose the keys
\* that are missing among those not looked at.
Left ==
    Running =>
        /\ q <= k2sn_t
        /\ msg < binoTab[k2sn_t - q][tb2 - i] + binoTab[k2sn_t - q][tb2 - i + 1]

\* The keys found so far lie behind q.
Found ==
    /\ i >= 1 => row = k2sn_t /\ q <= k2sn_t + 1
    /\ \A j \in 0..tb2-1 : j < i - 1 => component_key[j] < q - 1
    /\ \A j, k \in 0..tb2-1 :
           j < k /\ k < i - 1 => component_key[j] < component_key[k]

IInv == TypeOK /\ Table /\ Left /\ Found

Tables == [Cells -> [Cols -> Nat]]
Scalars ==
    /\ row \in 0..k2sn_t
    /\ mes \in Nat /\ msg \in Nat
    /\ q \in Nat /\ q # 0 /\ i \in 0..tb2+1

\* The type invariant in the pieces the provers handle best.
LEMMA Types ==
    TypeOK <=> binoTab \in Tables /\ Scalars /\ component_key \in [0..tb2-1 -> Nat]
    BY DEF TypeOK, Tables, Scalars, Cells, Cols

LEMMA NextTypes ==
    TypeOK' <=> (binoTab \in Tables)' /\ Scalars' /\ (component_key \in [0..tb2-1 -> Nat])'
    BY DEF TypeOK, Tables, Scalars, Cells, Cols

\* Every cell of a table holds a natural number.
LEMMA CellsAreNat ==
    ASSUME NEW B \in Tables, NEW n \in Cells, NEW m \in Cols
    PROVE  B[n][m] \in Nat
<1>1. B[n] \in [Cols -> Nat]
    BY DEF Tables
<1> QED
    BY <1>1

LEMMA InitEstablishes == Init => IInv
<1> SUFFICES ASSUME Init PROVE IInv
    OBVIOUS
<1> USE SizeAssumption
<1>1. TypeOK
    BY DEF Init, TypeOK, EmptyTable
<1>2. Table
    BY DEF Init, Table
<1>3. Left /\ Found
    BY DEF Init, Left, Found, Running
<1> QED
    BY <1>1, <1>2, <1>3 DEF IInv

LEMMA SetBordersKeeps == IInv /\ SetBorders => IInv'
<1> SUFFICES ASSUME IInv, SetBorders PROVE IInv'
    OBVIOUS
<1> USE SizeAssumption
<1>1. TypeOK'
  <2>0. binoTab \in Tables /\ Scalars /\ component_key \in [0..tb2-1 -> Nat]
    BY Types DEF IInv
  <2>1. binoTab' \in Tables
    <3>1. \A n \in Cells, m \in Cols :
              (IF m = 0 \/ m = n THEN 1 ELSE binoTab[n][m]) \in Nat
        BY <2>0, CellsAreNat
    <3>2. binoTab' = [n \in Cells |-> [m \in Cols |->
                         IF m = 0 \/ m = n THEN 1 ELSE binoTab[n][m]]]
        BY DEF SetBorders, Cells, Cols
    <3> QED
        BY <3>1, <3>2 DEF Tables
  <2>2. Scalars' /\ (component_key \in [0..tb2-1 -> Nat])'
    BY <2>0 DEF SetBorders, cffvars, Scalars
  <2> QED
    BY <2>1, <2>2, NextTypes
<1>2. Table'
  <2>1. row' = 1 /\ binoTab = EmptyTable
    BY DEF IInv, Table, SetBorders
  <2>2. Borders'
    BY <2>1 DEF SetBorders, Borders, EmptyTable, Cells, Cols
  <2>3. Pascal'
    BY <2>1 DEF Pascal
  <2> QED
    BY <2>1, <2>2, <2>3 DEF Table
<1>3. i = 0
    BY DEF IInv, TypeOK, Found, SetBorders
<1>4. Left' /\ Found'
    BY <1>3 DEF IInv, TypeOK, Left, Found, Running, SetBorders, cffvars
<1> QED
    BY <1>1, <1>2, <1>4 DEF IInv

LEMMA FillRowKeeps == IInv /\ FillRow => IInv'
<1> SUFFICES ASSUME IInv, FillRow PROVE IInv'
    OBVIOUS
<1> USE SizeAssumption
<1>0. binoTab \in Tables /\ Scalars /\ component_key \in [0..tb2-1 -> Nat]
    BY Types DEF IInv
<1>a. row \in 1..k2sn_t-1
    BY <1>0 DEF FillRow, Scalars
<1>1. TypeOK'
  <2>1. binoTab' \in Tables
    <3> DEFINE new == [m \in Cols |->
                          IF 1 <= m /\ m < row
                          THEN binoTab[row - 1][m - 1] + binoTab[row - 1][m]
                          ELSE binoTab[row][m]]
    <3>1. \A m \in Cols : new[m] \in Nat
      <4> SUFFICES ASSUME NEW m \in Cols PROVE new[m] \in Nat
        OBVIOUS
      <4>1. CASE 1 <= m /\ m < row
        <5>1. m - 1 \in Cols /\ row - 1 \in Cells
            BY <4>1, <1>a DEF Cols, Cells
        <5>2. binoTab[row - 1][m - 1] \in Nat /\ binoTab[row - 1][m] \in Nat
            BY <5>1, <1>0, CellsAreNat
        <5> QED
            BY <5>2, <4>1
      <4>2. CASE ~(1 <= m /\ m < row)
        <5>1. binoTab[row][m] \in Nat
            BY <1>0, <1>a, CellsAreNat DEF Cells
        <5> QED
            BY <5>1, <4>2
      <4> QED
        BY <4>1, <4>2
    <3>2. new \in [Cols -> Nat]
        BY <3>1
    <3>3. binoTab' = [binoTab EXCEPT ![row] = new]
        BY DEF FillRow, Cols
    <3> HIDE DEF new
    <3> QED
        BY <1>0, <3>2, <3>3 DEF Tables
  <2>2. Scalars' /\ (component_key \in [0..tb2-1 -> Nat])'
    BY <1>0, <1>a DEF FillRow, cffvars, Scalars
  <2> QED
    BY <2>1, <2>2, NextTypes
<1>2. Table'
  <2>1. /\ binoTab \in [Cells -> [Cols -> Nat]] /\ row \in 1..k2sn_t-1
        /\ Borders /\ Pascal
    BY <1>0, <1>a DEF IInv, Table, Tables
  <2>2. /\ row' = row + 1
        /\ \A n \in Cells : n # row => binoTab'[n] = binoTab[n]
        /\ \A m \in Cols : 1 <= m /\ m < row =>
               binoTab'[row][m] = binoTab[row - 1][m - 1] + binoTab[row - 1][m]
        /\ \A m \in Cols : ~(1 <= m /\ m < row) => binoTab'[row][m] = binoTab[row][m]
    BY <2>1 DEF FillRow, Cells, Cols
  <2>3. Borders'
    <3> SUFFICES ASSUME NEW n \in Cells, NEW m \in Cols
                 PROVE  /\ m = 0 \/ m = n => binoTab'[n][m] = 1
                        /\ m > n => binoTab'[n][m] = 0
        BY DEF Borders
    <3>1. CASE n = row
      <4>1. m = 0 \/ m >= row => binoTab'[n][m] = binoTab[n][m]
        BY <3>1, <2>1, <2>2 DEF Cols
      <4>2. (m = n \/ m > n) => m >= row
        BY <3>1, <2>1 DEF Cols
      <4> QED
        BY <4>1, <4>2, <2>1 DEF Borders
    <3>2. CASE n # row
        BY <3>2, <2>1, <2>2 DEF Borders
    <3> QED
        BY <3>1, <3>2
  <2>4. Pascal'
    <3> SUFFICES ASSUME NEW n \in 1..row, NEW m \in 1..tb2
                 PROVE  binoTab'[n][m] = binoTab'[n - 1][m - 1] + binoTab'[n - 1][m]
        BY <2>1, <2>2 DEF Pascal
    <3>0. /\ n \in Cells /\ n - 1 \in Cells /\ n - 1 # row
          /\ m \in Cols /\ m - 1 \in Cols
        BY <2>1 DEF Cells, Cols
    <3>1. binoTab'[n - 1] = binoTab[n - 1]
        BY <3>0, <2>2
    <3>2. CASE n # row
      <4>1. n \in 1..row-1
        BY <3>2, <2>1
      <4> QED
        BY <4>1, <3>0, <3>1, <3>2, <2>1, <2>2 DEF Pascal
    <3>3. CASE n = row /\ m < row
        BY <3>3, <3>0, <3>1, <2>2
    <3>4. CASE n = row /\ m >= row
      <4>0. m = n \/ m > n
        BY <3>4, <2>1
      <4>1. binoTab'[n][m] = IF m = n THEN 1 ELSE 0
        <5>1. binoTab'[n][m] = binoTab[n][m]
            BY <3>4, <3>0, <2>1, <2>2
        <5>2. m > n => m # n
            BY <3>0 DEF Cells, Cols
        <5> QED
            BY <5>1, <5>2, <4>0, <3>0, <2>1 DEF Borders
      <4>2. binoTab[n - 1][m] = 0
        BY <3>4, <3>0, <2>1 DEF Borders, Cells, Cols
      <4>3. binoTab[n - 1][m - 1] = IF m = n THEN 1 ELSE 0
        <5>1. m = n => m - 1 = n - 1
            OBVIOUS
        <5>2. m > n => m - 1 > n - 1 /\ m # n
            BY <3>0 DEF Cells, Cols
        <5> QED
            BY <5>1, <5>2, <4>0, <3>0, <2>1 DEF Borders
      <4> QED
        BY <4>1, <4>2, <4>3, <3>1
    <3> QED
        BY <3>2, <3>3, <3>4, <2>1
  <2> QED
    BY <2>1, <2>2, <2>3, <2>4 DEF Table
<1>3. i = 0
    BY DEF IInv, TypeOK, Found, FillRow
<1>4. Left' /\ Found'
    BY <1>3 DEF IInv, TypeOK, Left, Found, Running, FillRow, cffvars
<1> QED
    BY <1>1, <1>2, <1>4 DEF IInv

LEMMA StartKeeps == IInv /\ StartCff => IInv'
<1> SUFFICES ASSUME IInv, StartCff PROVE IInv'
    OBVIOUS
<1> USE SizeAssumption
<1>a. binoTab \in Tables /\ Scalars /\ component_key \in [0..tb2-1 -> Nat]
    BY Types DEF IInv
<1>b. Messages \in Nat
  <2>1. k2sn_t - 1 \in Cells /\ tb2 - 1 \in Cols /\ tb2 \in Cols
    BY DEF Cells, Cols
  <2>2. /\ binoTab[k2sn_t - 1][tb2 - 1] \in Nat
        /\ binoTab[k2sn_t - 1][tb2] \in Nat
    BY <1>a, <2>1, CellsAreNat
  <2> QED
    BY <2>2 DEF Messages
<1>0. /\ q' = 1 /\ i' = 1 /\ mes' \in 0..Messages-1 /\ msg' = mes'
      /\ binoTab' = binoTab /\ row' = row /\ component_key' = component_key
      /\ row = k2sn_t
    BY DEF StartCff
<1>1. TypeOK'
  <2>1. Scalars'
    BY <1>a, <1>b, <1>0 DEF Scalars
  <2> QED
    BY <2>1, <1>a, <1>0, NextTypes
<1>2. Table'
    BY <1>0 DEF IInv, Table, Borders, Pascal
<1>3. Left'
    BY <1>0, <1>b DEF Left, Messages
<1>4. Found'
    BY <1>0 DEF Found
<1> QED
    BY <1>1, <1>2, <1>3, <1>4 DEF IInv

\* A positive entry outside column 0 is the sum of two entries of the row above.
LEMMA RowAbove ==
    ASSUME TypeOK, Table, row = k2sn_t,
           NEW n \in Cells, NEW m \in 1..tb2, binoTab[n][m] > 0
    PROVE  /\ n >= 1
           /\ binoTab[n][m] = binoTab[n - 1][m - 1] + binoTab[n - 1][m]
<1> USE SizeAssumption
<1>1. Borders /\ Pascal
    BY DEF Table
<1>2. n >= m
    BY <1>1 DEF Borders, Cells, Cols
<1>3. n >= 1 /\ n \in 1..row-1
    BY <1>2 DEF Cells
<1> QED
    BY <1>1, <1>3 DEF Pascal

LEMMA SkipKeyKeeps == IInv /\ SkipKey => IInv'
<1> SUFFICES ASSUME IInv, SkipKey PROVE IInv'
    OBVIOUS
<1> USE SizeAssumption
<1> DEFINE n == k2sn_t - q
           m == tb2 - i + 1
<1>a. binoTab \in Tables /\ Scalars /\ component_key \in [0..tb2-1 -> Nat]
    BY Types DEF IInv
<1>b. row = k2sn_t /\ i \in 1..tb2 /\ q \in 1..k2sn_t /\ msg \in Nat
    BY <1>a DEF IInv, Scalars, Left, Found, SkipKey, Running
<1>c. n \in Cells /\ m \in 1..tb2 /\ m \in Cols /\ tb2 - i \in Cols
    BY <1>b DEF Cells, Cols
<1>d. Cell \in Nat /\ binoTab[n][m] \in Nat
    BY <1>a, <1>c, CellsAreNat DEF Cell
<1>0. msg < Cell + binoTab[n][m] /\ msg >= Cell
    BY <1>b DEF IInv, Left, SkipKey, Cell
<1>1. /\ msg' = msg - Cell /\ q' = q + 1 /\ i' = i /\ row' = row
      /\ binoTab' = binoTab /\ component_key' = component_key /\ mes' = mes
    BY DEF SkipKey
<1>3. binoTab[n][m] > 0 /\ msg' \in Nat /\ msg' < binoTab[n][m]
    BY <1>0, <1>1, <1>b, <1>d
<1>4. n >= 1 /\ binoTab[n][m] = binoTab[n - 1][m - 1] + binoTab[n - 1][m]
  <2> HIDE DEF n, m
  <2> QED
    BY <1>b, <1>c, <1>3, RowAbove DEF IInv
<1>5. TypeOK'
  <2>1. Scalars'
    BY <1>a, <1>b, <1>1, <1>3 DEF Scalars
  <2> QED
    BY <2>1, <1>a, <1>1, NextTypes
<1>6. Table'
    BY <1>1 DEF IInv, Table, Borders, Pascal
<1>7. Left'
  <2>1. k2sn_t - q' = n - 1 /\ tb2 - i' = m - 1 /\ tb2 - i' + 1 = m /\ q' <= k2sn_t
    BY <1>b, <1>1, <1>4
  <2> QED
    BY <2>1, <1>1, <1>3, <1>4 DEF Left
<1>8. Found'
    BY <1>a, <1>b, <1>1 DEF IInv, Found
<1> QED
    BY <1>5, <1>6, <1>7, <1>8 DEF IInv

LEMMA TakeKeyKeeps == IInv /\ TakeKey => IInv'
<1> SUFFICES ASSUME IInv, TakeKey PROVE IInv'
    OBVIOUS
<1> USE SizeAssumption
<1> DEFINE n == k2sn_t - q
           m == tb2 - i
<1>a. binoTab \in Tables /\ Scalars /\ component_key \in [0..tb2-1 -> Nat]
    BY Types DEF IInv
<1>0. /\ row = k2sn_t /\ i \in 1..tb2 /\ q \in 1..k2sn_t /\ msg \in Nat
      /\ msg < binoTab[n][m]
    BY <1>a DEF IInv, Scalars, Left, Found, TakeKey, Running, Cell
<1>1. /\ msg' = msg /\ q' = q + 1 /\ i' = i + 1 /\ row' = row
      /\ binoTab' = binoTab /\ mes' = mes
      /\ component_key' = [component_key EXCEPT ![i - 1] = q - 1]
    BY DEF TakeKey
<1>2. TypeOK'
  <2>1. Scalars'
    BY <1>a, <1>0, <1>1 DEF Scalars
  <2>2. component_key' \in [0..tb2-1 -> Nat]
    BY <1>a, <1>0, <1>1
  <2> QED
    BY <2>1, <2>2, <1>a, <1>1, NextTypes
<1>3. Table'
    BY <1>1 DEF IInv, Table, Borders, Pascal
<1>4. Left'
  <2> SUFFICES ASSUME i + 1 <= tb2
               PROVE  /\ q + 1 <= k2sn_t
                      /\ msg < binoTab[n - 1][m - 1] + binoTab[n - 1][m]
    <3>1. Running' => i + 1 <= tb2
        BY <1>1 DEF Running
    <3>2. k2sn_t - q' = n - 1 /\ tb2 - i' = m - 1 /\ tb2 - i' + 1 = m
        BY <1>0, <1>1
    <3> QED
        BY <3>1, <3>2, <1>1 DEF Left
  <2>0. n \in Cells /\ m \in 1..tb2 /\ m \in Cols
    BY <1>0 DEF Cells, Cols
  <2>1. binoTab[n][m] \in Nat /\ binoTab[n][m] > 0
    BY <1>0, <1>a, <2>0, CellsAreNat
  <2>2. n >= 1 /\ binoTab[n][m] = binoTab[n - 1][m - 1] + binoTab[n - 1][m]
    <3> HIDE DEF n, m
    <3> QED
        BY <1>0, <2>0, <2>1, RowAbove DEF IInv
  <2> QED
    BY <2>1, <2>2, <1>0
<1>5. Found'
  <2>1. \A j \in 0..tb2-1 :
           component_key'[j] = IF j = i - 1 THEN q - 1 ELSE component_key[j]
    BY <1>a, <1>0, <1>1
  <2>2. \A j \in 0..tb2-1 : j < i - 1 => component_key[j] < q - 1
    BY DEF IInv, Found
  <2>3. \A j \in 0..tb2-1 : j < i' - 1 => component_key'[j] < q' - 1
    BY <2>1, <2>2, <1>a, <1>0, <1>1, SMTT(30)
  <2>4. \A j, k \in 0..tb2-1 :
           j < k /\ k < i' - 1 => component_key'[j] < component_key'[k]
    BY <2>1, <2>2, <1>a, <1>0, <1>1 DEF IInv, Found
  <2> QED
    BY <2>3, <2>4, <1>0, <1>1 DEF Found
<1> QED
    BY <1>2, <1>3, <1>4, <1>5 DEF IInv

LEMMA StepKeeps == IInv /\ [Next]_vars => IInv'
<1> SUFFICES ASSUME IInv, [Next]_vars PROVE IInv'
    OBVIOUS
<1>1. CASE Next
    BY <1>1, SetBordersKeeps, FillRowKeeps, StartKeeps, SkipKeyKeeps, TakeKeyKeeps
       DEF Next
<1>2. CASE UNCHANGED vars
    BY <1>2 DEF vars, IInv, TypeOK, Table, Borders, Pascal, Left, Found, Running
<1> QED
    BY <1>1, <1>2

\* Every key found is a key of the one-time key: it lies behind q.
LEMMA InvariantSuffices == IInv => StaysInTable /\ KeysAscend
<1> SUFFICES ASSUME IInv PROVE StaysInTable /\ KeysAscend
    OBVIOUS
<1> USE SizeAssumption
<1>1. StaysInTable
    BY DEF IInv, Left, StaysInTable
<1>2. KeysAscend
  <2>1. \A j \in 0..tb2-1 : j < i - 1 => component_key[j] < k2sn_t
    BY DEF IInv, Found, TypeOK
  <2> QED
    BY <2>1 DEF IInv, Found, KeysAscend
<1> QED
    BY <1>1, <1>2

\* set_binotable() and cff() keep every variable in its type; msg never
\* becomes negative, so the subtraction of limbs never wraps around.
THEOREM TypeCorrect == Spec => []TypeOK
<1>1. IInv => TypeOK
    BY DEF IInv
<1> QED
    BY <1>1, InitEstablishes, StepKeeps, PTL DEF Spec

\* For every size of the family and every message below the number of key
\* sets, cff() reads only cells of binoTab that exist.
THEOREM TableRespected == Spec => []StaysInTable
    BY InitEstablishes, StepKeeps, InvariantSuffices, PTL DEF Spec

\* For every size of the family, the component keys cff() chooses are keys of
\* the one-time key, in strictly ascending order, hence all different.
THEOREM KeysDistinct == Spec => []KeysAscend
    BY InitEstablishes, StepKeeps, InvariantSuffices, PTL DEF Spec

-----------------------------------------------------------------------------
(* Counting *)

\* Every nonempty set of numbers has a least element.
LEMMA LeastNumber ==
    ASSUME NEW N \in SUBSET Nat, N # {}
    PROVE  \E a \in N : \A b \in N : a <= b
<1> DEFINE R == OpToRel(<, Nat)
<1>1. IsWellFoundedOn(R, Nat)
    BY NatLessThanWellFounded
<1>2. \A x, y \in Nat : x < y => <<x, y>> \in R
    BY DEF OpToRel
<1> HIDE DEF R
<1>3. PICK a \in N : \A b \in N : ~(<<b, a>> \in R)
    BY <1>1, WFMin
<1>4. \A b \in N : b \in Nat /\ a \in Nat /\ ~(b < a)
    BY <1>2, <1>3
<1> QED
    BY <1>3, <1>4

\* Adding the elements of E to sets without them leaves them as many.
Extended(E, A) == {E \cup U : U \in A}
Without(E, A) == IsFiniteSet(A) /\ \A U \in A : U \cap E = {}

LEMMA ExtendedCount ==
    ASSUME NEW E, NEW A, Without(E, A)
    PROVE  /\ IsFiniteSet(Extended(E, A))
           /\ Cardinality(Extended(E, A)) = Cardinality(A)
<1> DEFINE f == [U \in A |-> E \cup U]
<1>1. f \in [A -> Extended(E, A)]
    BY DEF Extended
<1>2. \A U, W \in A : f[U] = f[W] => U = W
  <2> SUFFICES ASSUME NEW U \in A, NEW W \in A, f[U] = f[W] PROVE U = W
    OBVIOUS
  <2>1. E \cup U = E \cup W
    OBVIOUS
  <2>2. U = (E \cup U) \ E /\ W = (E \cup W) \ E
    BY DEF Without
  <2> QED
    BY <2>1, <2>2
<1>3. \A X \in Extended(E, A) : \E U \in A : f[U] = X
    BY DEF Extended
<1> HIDE DEF f
<1>4. f \in Bijection(A, Extended(E, A))
    BY <1>1, <1>2, <1>3, Zenon DEF Bijection, Injection, Surjection, IsInjective
<1>5. ExistsBijection(A, Extended(E, A))
    BY <1>4 DEF ExistsBijection
<1> QED
    BY <1>5, FS_Bijection DEF Without

\* The sets of m keys among the last n.
Last(n) == k2sn_t-n .. k2sn_t-1
Choices(n, m) == {U \in SUBSET Last(n) : Cardinality(U) = m}

\* There are finitely many such sets.
LEMMA LastFinite ==
    ASSUME NEW n \in 0..k2sn_t
    PROVE  /\ IsFiniteSet(Last(n))
           /\ \A U \in SUBSET Last(n) : IsFiniteSet(U) /\ Cardinality(U) \in Nat
           /\ \A m : IsFiniteSet(Choices(n, m))
<1> USE SizeAssumption
<1>1. IsFiniteSet(Last(n))
    BY FS_Interval DEF Last
<1>2. \A U \in SUBSET Last(n) : IsFiniteSet(U) /\ Cardinality(U) \in Nat
    BY <1>1, FS_Subset, FS_CardinalityType
<1>3. IsFiniteSet(SUBSET Last(n))
    BY <1>1, FS_SUBSET
<1>4. \A m : Choices(n, m) \in SUBSET SUBSET Last(n)
    BY DEF Choices
<1>5. \A m : IsFiniteSet(Choices(n, m))
    BY <1>3, <1>4, FS_Subset
<1> QED
    BY <1>1, <1>2, <1>5

\* A choice among the last n keys is without the first of them or has it.
LEMMA ChoicesSplit ==
    ASSUME NEW n \in 1..k2sn_t, NEW m \in Nat \ {0}
    PROVE  /\ Choices(n, m) = Choices(n - 1, m)
                                \cup Extended({k2sn_t - n}, Choices(n - 1, m - 1))
           /\ Choices(n - 1, m)
                \cap Extended({k2sn_t - n}, Choices(n - 1, m - 1)) = {}
<1> USE SizeAssumption
<1> DEFINE z == k2sn_t - n
<1>1. Last(n) = Last(n - 1) \cup {z} /\ z \notin Last(n - 1)
    BY DEF Last
<1>2. n - 1 \in 0..k2sn_t /\ n \in 0..k2sn_t
    OBVIOUS
<1> HIDE DEF z
<1>3. \A U \in SUBSET Last(n - 1) :
          /\ z \notin U
          /\ Cardinality({z} \cup U) = Cardinality(U) + 1
          /\ Cardinality(U) \in Nat
  <2> SUFFICES ASSUME NEW U \in SUBSET Last(n - 1)
               PROVE  /\ z \notin U
                      /\ Cardinality({z} \cup U) = Cardinality(U) + 1
                      /\ Cardinality(U) \in Nat
    OBVIOUS
  <2>1. z \notin U /\ IsFiniteSet(U) /\ Cardinality(U) \in Nat
    BY <1>1, <1>2, LastFinite
  <2>2. Cardinality(U \cup {z}) = Cardinality(U) + 1
    BY <2>1, FS_AddElement
  <2>3. U \cup {z} = {z} \cup U
    OBVIOUS
  <2> QED
    BY <2>1, <2>2, <2>3
<1>4. ASSUME NEW U \in Choices(n, m)
      PROVE  U \in Choices(n - 1, m) \cup Extended({z}, Choices(n - 1, m - 1))
  <2>0. U \in SUBSET Last(n) /\ Cardinality(U) = m
    BY <1>4 DEF Choices
  <2>1. CASE z \notin U
    BY <2>0, <2>1, <1>1 DEF Choices
  <2>2. CASE z \in U
    <3>1. U \ {z} \in SUBSET Last(n - 1) /\ U = {z} \cup (U \ {z})
        BY <2>0, <2>2, <1>1
    <3>2. Cardinality(U \ {z}) = m - 1
        BY <3>1, <2>0, <1>3
    <3> QED
        BY <3>1, <3>2 DEF Choices, Extended
  <2> QED
    BY <2>1, <2>2
<1>5. Choices(n - 1, m) \subseteq Choices(n, m)
    BY <1>1 DEF Choices
<1>6. ASSUME NEW W \in Extended({z}, Choices(n - 1, m - 1))
      PROVE  W \in Choices(n, m) /\ W \notin Choices(n - 1, m)
  <2>1. PICK U \in SUBSET Last(n - 1) : Cardinality(U) = m - 1 /\ W = {z} \cup U
    BY <1>6 DEF Choices, Extended
  <2>2. Cardinality(W) = m /\ W \in SUBSET Last(n) /\ z \in W
    BY <2>1, <1>1, <1>3
  <2> QED
    BY <2>2, <1>1 DEF Choices
<1>7. Choices(n, m) = Choices(n - 1, m) \cup Extended({z}, Choices(n - 1, m - 1))
    BY <1>4, <1>5, <1>6
<1>8. Choices(n - 1, m) \cap Extended({z}, Choices(n - 1, m - 1)) = {}
    BY <1>6
<1> QED
    BY <1>7, <1>8 DEF z

\* set_binotable() counts: cell (n, m) of the table is the number of ways to
\* choose m keys among n.
LEMMA TableCounts ==
    ASSUME TypeOK, Table, row = k2sn_t
    PROVE  \A n \in Cells, m \in Cols : Cardinality(Choices(n, m)) = binoTab[n][m]
<1> USE SizeAssumption
<1>1. Borders /\ Pascal
    BY DEF Table
<1>2. ASSUME NEW n \in Cells PROVE Cardinality(Choices(n, 0)) = 1
  <2>1. n \in 0..k2sn_t
    BY DEF Cells
  <2>2. Choices(n, 0) = {{}}
    <3>1. \A U \in SUBSET Last(n) : Cardinality(U) = 0 <=> U = {}
        BY <2>1, LastFinite, FS_EmptySet
    <3> QED
        BY <3>1 DEF Choices
  <2> QED
    BY <2>2, FS_Singleton
<1>3. ASSUME NEW m \in Cols, m # 0 PROVE Cardinality(Choices(0, m)) = 0
  <2>1. Last(0) = {}
    BY DEF Last
  <2>2. Choices(0, m) = {}
    BY <2>1, <1>3, FS_EmptySet DEF Choices
  <2> QED
    BY <2>2, FS_EmptySet
<1>4. ASSUME NEW n \in Cells, n # 0, NEW m \in Cols, m # 0
      PROVE  Cardinality(Choices(n, m))
               = Cardinality(Choices(n - 1, m)) + Cardinality(Choices(n - 1, m - 1))
  <2>1. n \in 1..k2sn_t /\ n - 1 \in 0..k2sn_t /\ m \in Nat \ {0}
    BY <1>4 DEF Cells, Cols
  <2> DEFINE z == k2sn_t - n
             A == Choices(n - 1, m)
             B == Choices(n - 1, m - 1)
  <2>2. Choices(n, m) = A \cup Extended({z}, B) /\ A \cap Extended({z}, B) = {}
    BY <2>1, ChoicesSplit
  <2>3. IsFiniteSet(A) /\ IsFiniteSet(B)
    BY <2>1, LastFinite
  <2>4. Without({z}, B)
    BY <2>1, <2>3 DEF Choices, Last, Without
  <2> HIDE DEF z, A, B
  <2>5. IsFiniteSet(Extended({z}, B)) /\ Cardinality(Extended({z}, B)) = Cardinality(B)
    BY <2>4, ExtendedCount
  <2>6. Cardinality(A \cup Extended({z}, B))
          = Cardinality(A) + Cardinality(Extended({z}, B)) - Cardinality({})
    BY <2>2, <2>3, <2>5, FS_Union
  <2>7. Cardinality(A) \in Nat /\ Cardinality(B) \in Nat
    BY <2>3, FS_CardinalityType
  <2>8. Cardinality(Choices(n, m)) = Cardinality(A) + Cardinality(B)
    BY <2>2, <2>5, <2>6, <2>7, FS_EmptySet
  <2> QED
    BY <2>8 DEF A, B
<1> DEFINE Wrong == {n \in Cells : \E m \in Cols :
                        Cardinality(Choices(n, m)) # binoTab[n][m]}
<1> SUFFICES ASSUME Wrong # {} PROVE FALSE
    OBVIOUS
<1>5. PICK n \in Wrong : \A k \in Wrong : n <= k
  <2>1. Wrong \in SUBSET Nat
    BY DEF Cells
  <2> HIDE DEF Wrong
  <2> QED
    BY <2>1, LeastNumber
<1>6. PICK m \in Cols : Cardinality(Choices(n, m)) # binoTab[n][m]
    OBVIOUS
<1>7. n \in Cells /\ m # 0
    BY <1>1, <1>2, <1>6 DEF Borders, Cols
<1>8. n # 0
  <2> SUFFICES ASSUME n = 0 PROVE FALSE
    OBVIOUS
  <2>1. m > n
    BY <1>7 DEF Cols
  <2>2. binoTab[n][m] = 0
    BY <1>1, <1>7, <2>1 DEF Borders
  <2> QED
    BY <2>2, <1>3, <1>6, <1>7
<1>9. n - 1 \in Cells /\ n - 1 \notin Wrong /\ m - 1 \in Cols
  <2>1. n - 1 \in Cells /\ m - 1 \in Cols /\ n \in Nat
    BY <1>7, <1>8 DEF Cells, Cols
  <2>2. ~(n <= n - 1)
    BY <2>1
  <2> HIDE DEF Wrong
  <2> QED
    BY <1>5, <2>1, <2>2
<1>10. /\ Cardinality(Choices(n - 1, m)) = binoTab[n - 1][m]
       /\ Cardinality(Choices(n - 1, m - 1)) = binoTab[n - 1][m - 1]
    BY <1>9
<1>11. binoTab[n][m] = binoTab[n - 1][m - 1] + binoTab[n - 1][m]
  <2>1. n \in 1..row-1 /\ m \in 1..tb2
    BY <1>7, <1>8 DEF Cells, Cols
  <2> QED
    BY <2>1, <1>1 DEF Pascal
<1>12. binoTab[n - 1][m - 1] \in Nat /\ binoTab[n - 1][m] \in Nat
    BY <1>9, CellsAreNat, Types
<1>13. Cardinality(Choices(n, m)) = binoTab[n][m]
    BY <1>4, <1>7, <1>8, <1>10, <1>11, <1>12
<1> QED
    BY <1>6, <1>13

-----------------------------------------------------------------------------
(* The message as a place in the order of the sets *)

\* The keys found so far, and the sets that come before every set which
\* begins with them: they differ from D first in a key below lim of their own.
Taken == {component_key[j] : j \in 0..i-2}
Ahead(lim, D) ==
    {S \in KeySets : \E x \in S \ D :
        x < lim /\ \A y \in (S \ D) \cup (D \ S) : x <= y}

\* What cff() has subtracted from the message is the number of sets it passed.
Counted ==
    i >= 1 =>
        /\ Cardinality(Taken) = i - 1
        /\ mes = msg + Cardinality(Ahead(q - 1, Taken))
        /\ i = tb2 + 1 => msg = 0

\* The keys found are among those looked at, and there are finitely many sets.
LEMMA TakenBelow ==
    ASSUME IInv, i >= 1
    PROVE  /\ Taken \subseteq 0..q-2
           /\ q - 1 \in 0..k2sn_t
           /\ IsFiniteSet(Taken)
<1> USE SizeAssumption
<1>1. i \in 0..tb2+1 /\ q \in Nat \ {0} /\ component_key \in [0..tb2-1 -> Nat]
    BY DEF IInv, TypeOK
<1>2. q <= k2sn_t + 1 /\ \A j \in 0..tb2-1 : j < i - 1 => component_key[j] < q - 1
    BY DEF IInv, Found
<1>3. \A j \in 0..i-2 : component_key[j] \in 0..q-2
    BY <1>1, <1>2
<1>4. Taken \subseteq 0..q-2
    BY <1>3 DEF Taken
<1>5. IsFiniteSet(0..q-2)
    BY <1>1, FS_Interval
<1>6. IsFiniteSet(Taken)
    BY <1>4, <1>5, FS_Subset
<1> QED
    BY <1>1, <1>2, <1>4, <1>6

\* There are finitely many sets of keys, and so sets ahead.
LEMMA KeySetsFinite ==
    /\ IsFiniteSet(KeySets)
    /\ \A S \in KeySets : S \subseteq 0..k2sn_t-1 /\ IsFiniteSet(S) /\ Cardinality(S) = tb2
    /\ \A lim, D : IsFiniteSet(Ahead(lim, D)) /\ Cardinality(Ahead(lim, D)) \in Nat
<1> USE SizeAssumption
<1>1. IsFiniteSet(0..k2sn_t-1)
    BY FS_Interval
<1>2. IsFiniteSet(SUBSET (0..k2sn_t-1))
    BY <1>1, FS_SUBSET
<1>3. IsFiniteSet(KeySets)
    BY <1>2, FS_Subset DEF KeySets
<1>4. \A S \in KeySets : S \subseteq 0..k2sn_t-1 /\ IsFiniteSet(S) /\ Cardinality(S) = tb2
    BY <1>1, FS_Subset DEF KeySets
<1>5. \A lim, D : Ahead(lim, D) \in SUBSET KeySets
    BY DEF Ahead
<1>6. \A lim, D : IsFiniteSet(Ahead(lim, D)) /\ Cardinality(Ahead(lim, D)) \in Nat
    BY <1>3, <1>5, FS_Subset, FS_CardinalityType
<1> QED
    BY <1>3, <1>4, <1>6

\* No set comes before the first key is looked at.
LEMMA AheadStarts == ASSUME NEW D PROVE Cardinality(Ahead(0, D)) = 0
<1>1. \A S \in KeySets : \A x \in S : ~(x < 0)
    BY KeySetsFinite
<1>2. Ahead(0, D) = {}
    BY <1>1 DEF Ahead
<1> QED
    BY <1>2, FS_EmptySet

\* Not taking key lim passes the sets that begin with D and lim.
LEMMA AheadSkips ==
    ASSUME NEW lim \in 0..k2sn_t-1, NEW D \in SUBSET (0..lim-1),
           IsFiniteSet(D), Cardinality(D) < tb2
    PROVE  Cardinality(Ahead(lim + 1, D))
             = Cardinality(Ahead(lim, D))
                 + Cardinality(Choices(k2sn_t - lim - 1, tb2 - Cardinality(D) - 1))
<1> USE SizeAssumption
<1> DEFINE E == D \cup {lim}
           n == k2sn_t - lim - 1
           A == Choices(n, tb2 - Cardinality(D) - 1)
<1>1. /\ IsFiniteSet(E) /\ Cardinality(E) = Cardinality(D) + 1
      /\ Cardinality(D) \in Nat
  <2>1. lim \notin D
    OBVIOUS
  <2> QED
    BY <2>1, FS_AddElement, FS_CardinalityType
<1>2. n \in 0..k2sn_t /\ Last(n) = lim+1..k2sn_t-1
    BY DEF Last
<1>3. Without(E, A)
  <2>1. IsFiniteSet(A)
    BY <1>2, LastFinite
  <2>2. \A U \in A : U \subseteq lim+1..k2sn_t-1
    BY <1>2 DEF Choices
  <2> QED
    BY <2>1, <2>2 DEF Without
<1>4. ASSUME NEW S \in Ahead(lim + 1, D), S \notin Ahead(lim, D)
      PROVE  S \in Extended(E, A)
  <2>1. S \in KeySets /\ S \subseteq 0..k2sn_t-1 /\ IsFiniteSet(S) /\ Cardinality(S) = tb2
    BY KeySetsFinite DEF Ahead
  <2>2. PICK x \in S \ D : x < lim + 1 /\ \A y \in (S \ D) \cup (D \ S) : x <= y
    BY DEF Ahead
  <2>3. x = lim
    BY <1>4, <2>1, <2>2 DEF Ahead
  <2>4. D \subseteq S
    BY <2>2, <2>3
  <2>5. \A y \in S \ E : y \in lim+1..k2sn_t-1
    BY <2>1, <2>2, <2>3
  <2>6. E \subseteq S
    BY <2>3, <2>4
  <2>7. Cardinality(S \ E) = tb2 - Cardinality(E)
    <3> HIDE DEF E
    <3>1. S \cap E = E
        BY <2>6
    <3> QED
        BY <3>1, <2>1, FS_Difference
  <2>8. S \ E \in A
    <3> HIDE DEF E
    <3>1. S \ E \subseteq Last(n)
        BY <2>5, <1>2
    <3>2. Cardinality(S \ E) = tb2 - Cardinality(D) - 1
        BY <2>7, <1>1
    <3> QED
        BY <3>1, <3>2 DEF Choices
  <2>9. S = E \cup (S \ E)
    BY <2>6
  <2> QED
    BY <2>8, <2>9 DEF Extended
<1>5. Ahead(lim, D) \subseteq Ahead(lim + 1, D)
  <2>1. \A S \in KeySets : \A x \in S : x < lim => x < lim + 1
    BY KeySetsFinite
  <2> QED
    BY <2>1 DEF Ahead
<1>6. ASSUME NEW U \in A
      PROVE  E \cup U \in Ahead(lim + 1, D) /\ E \cup U \notin Ahead(lim, D)
  <2>1. /\ U \subseteq lim+1..k2sn_t-1 /\ IsFiniteSet(U)
        /\ Cardinality(U) = tb2 - Cardinality(D) - 1
    BY <1>2, LastFinite DEF Choices
  <2>2. E \cap U = {}
    BY <2>1
  <2>3. Cardinality(E \cup U) = tb2
    <3> HIDE DEF E
    <3>1. Cardinality(E \cup U) = Cardinality(E) + Cardinality(U) - Cardinality({})
        BY <2>1, <2>2, <1>1, FS_Union
    <3> QED
        BY <3>1, <2>1, <1>1, FS_EmptySet
  <2>4. E \cup U \in KeySets
    BY <2>1, <2>3 DEF KeySets
  <2>5. \A y \in ((E \cup U) \ D) \cup (D \ (E \cup U)) : lim <= y
    BY <2>1
  <2>6. lim \in (E \cup U) \ D /\ lim < lim + 1
    OBVIOUS
  <2>7. E \cup U \in Ahead(lim + 1, D)
    BY <2>4, <2>5, <2>6 DEF Ahead
  <2>8. \A x \in (E \cup U) \ D : ~(x < lim)
    BY <2>1
  <2> QED
    BY <2>7, <2>8 DEF Ahead
<1>7. /\ Ahead(lim + 1, D) = Ahead(lim, D) \cup Extended(E, A)
      /\ Ahead(lim, D) \cap Extended(E, A) = {}
  <2> HIDE DEF E, A
  <2> QED
    BY <1>4, <1>5, <1>6 DEF Extended
<1> HIDE DEF E, A
<1>8. IsFiniteSet(Extended(E, A)) /\ Cardinality(Extended(E, A)) = Cardinality(A)
    BY <1>3, ExtendedCount
<1>9. /\ IsFiniteSet(Ahead(lim, D)) /\ Cardinality(Ahead(lim, D)) \in Nat
      /\ Cardinality(A) \in Nat
    BY <1>3, KeySetsFinite, FS_CardinalityType DEF Without
<1>10. Cardinality(Ahead(lim + 1, D))
         = Cardinality(Ahead(lim, D)) + Cardinality(Extended(E, A)) - Cardinality({})
    BY <1>7, <1>8, <1>9, FS_Union
<1> QED
    BY <1>8, <1>9, <1>10, FS_EmptySet DEF A

\* Taking key lim passes none.
LEMMA AheadTakes ==
    ASSUME NEW lim \in 0..k2sn_t-1, NEW D \in SUBSET (0..lim-1)
    PROVE  Ahead(lim + 1, D \cup {lim}) = Ahead(lim, D)
<1> USE SizeAssumption
<1> DEFINE E == D \cup {lim}
<1>1. ASSUME NEW S \in Ahead(lim + 1, E) PROVE S \in Ahead(lim, D)
  <2>1. S \in KeySets /\ S \subseteq 0..k2sn_t-1
    BY KeySetsFinite DEF Ahead
  <2>2. PICK x \in S \ E : x < lim + 1 /\ \A y \in (S \ E) \cup (E \ S) : x <= y
    BY DEF Ahead
  <2>3. x \in S \ D /\ x < lim
    BY <2>1, <2>2
  <2>4. \A y \in (S \ D) \cup (D \ S) : y = lim \/ y \in (S \ E) \cup (E \ S)
    BY <2>1
  <2>5. \A y \in (S \ D) \cup (D \ S) : x <= y
    BY <2>1, <2>2, <2>3, <2>4
  <2> QED
    BY <2>1, <2>3, <2>5 DEF Ahead
<1>2. ASSUME NEW S \in Ahead(lim, D) PROVE S \in Ahead(lim + 1, E)
  <2>1. S \in KeySets /\ S \subseteq 0..k2sn_t-1
    BY KeySetsFinite DEF Ahead
  <2>2. PICK x \in S \ D : x < lim /\ \A y \in (S \ D) \cup (D \ S) : x <= y
    BY DEF Ahead
  <2>3. x \in S \ E /\ x < lim + 1
    BY <2>1, <2>2
  <2>4. \A y \in (S \ E) \cup (E \ S) : y = lim \/ y \in (S \ D) \cup (D \ S)
    OBVIOUS
  <2>5. \A y \in (S \ E) \cup (E \ S) : x <= y
    BY <2>1, <2>2, <2>4
  <2> QED
    BY <2>1, <2>3, <2>5 DEF Ahead
<1> QED
    BY <1>1, <1>2

\* When the last key is found these are all the sets before the one found.
LEMMA AheadEnds ==
    ASSUME NEW lim \in Nat, NEW D \in SUBSET (0..lim-1), IsFiniteSet(D), Cardinality(D) = tb2
    PROVE  Ahead(lim, D) = {S \in KeySets : Before(S, D)}
<1> USE SizeAssumption
<1>1. Ahead(lim, D) \subseteq {S \in KeySets : Before(S, D)}
    BY DEF Ahead, Before
<1>2. ASSUME NEW S \in KeySets, Before(S, D) PROVE S \in Ahead(lim, D)
  <2>1. PICK x \in S \ D : \A y \in (S \ D) \cup (D \ S) : x <= y
    BY <1>2 DEF Before
  <2>2. S \subseteq 0..k2sn_t-1 /\ IsFiniteSet(S) /\ Cardinality(S) = tb2
    BY KeySetsFinite
  <2>3. PICK y \in D : y \notin S
    <3> SUFFICES ASSUME D \subseteq S PROVE FALSE
        OBVIOUS
    <3>1. S = D
        BY <2>2, FS_Subset
    <3> QED
        BY <3>1, <2>1
  <2>4. x < lim
    BY <2>1, <2>2, <2>3
  <2> QED
    BY <2>1, <2>4 DEF Ahead
<1> QED
    BY <1>1, <1>2

-----------------------------------------------------------------------------
(* cff() counts the sets it passes *)

\* A new message has passed nothing.
LEMMA StartCounts == IInv /\ StartCff => Counted'
<1> SUFFICES ASSUME IInv, StartCff PROVE Counted'
    OBVIOUS
<1> USE SizeAssumption
<1>1. q' = 1 /\ i' = 1 /\ msg' = mes' /\ mes' \in Nat
  <2>1. TypeOK'
    BY StartKeeps DEF IInv
  <2> QED
    BY <2>1 DEF StartCff, TypeOK
<1>2. Taken' = {}
    BY <1>1 DEF Taken
<1>3. Ahead(q - 1, Taken)' = Ahead(0, {})
    BY <1>1, <1>2 DEF Ahead, KeySets
<1>4. Cardinality(Ahead(q - 1, Taken))' = 0
    BY <1>3, AheadStarts
<1> QED
    BY <1>1, <1>2, <1>4, FS_EmptySet DEF Counted

\* The while loop subtracts the number of sets it passes.
LEMMA SkipKeyCounts == IInv /\ Counted /\ SkipKey => Counted'
<1> SUFFICES ASSUME IInv, Counted, SkipKey PROVE Counted'
    OBVIOUS
<1> USE SizeAssumption
<1>1. i \in 1..tb2 /\ q \in 1..k2sn_t /\ msg \in Nat /\ row = k2sn_t
    BY DEF IInv, TypeOK, SkipKey, Running, Left, Found
<1>2. /\ msg' = msg - Cell /\ q' = q + 1 /\ i' = i /\ mes' = mes
      /\ component_key' = component_key
    BY DEF SkipKey
<1>3. Taken \in SUBSET (0..q-2) /\ IsFiniteSet(Taken) /\ Cardinality(Taken) = i - 1
    BY <1>1, TakenBelow DEF Counted
<1>4. Taken' = Taken /\ Ahead(q - 1, Taken)' = Ahead(q, Taken)
  <2>1. Taken' = Taken /\ q' - 1 = q
    BY <1>1, <1>2 DEF Taken
  <2>2. Ahead(q - 1, Taken)' = Ahead(q' - 1, Taken')
    BY DEF Ahead, KeySets
  <2> QED
    BY <2>1, <2>2
<1>5. Cardinality(Ahead(q, Taken))
        = Cardinality(Ahead(q - 1, Taken)) + Cardinality(Choices(k2sn_t - q, tb2 - i))
  <2> DEFINE lim == q - 1
  <2>1. /\ lim \in 0..k2sn_t-1 /\ Taken \in SUBSET (0..lim-1)
        /\ Cardinality(Taken) < tb2 /\ lim + 1 = q
        /\ k2sn_t - lim - 1 = k2sn_t - q
        /\ tb2 - Cardinality(Taken) - 1 = tb2 - i
    BY <1>1, <1>3
  <2> HIDE DEF lim
  <2>2. Cardinality(Ahead(lim + 1, Taken))
          = Cardinality(Ahead(lim, Taken))
              + Cardinality(Choices(k2sn_t - lim - 1, tb2 - Cardinality(Taken) - 1))
    BY <1>3, <2>1, AheadSkips
  <2> QED
    BY <2>1, <2>2 DEF lim
<1>6. Cardinality(Choices(k2sn_t - q, tb2 - i)) = Cell /\ Cell \in Nat
  <2>1. k2sn_t - q \in Cells /\ tb2 - i \in Cols
    BY <1>1 DEF Cells, Cols
  <2>2. TypeOK /\ Table
    BY DEF IInv
  <2>3. Cell \in Nat
    BY <2>1, <2>2, CellsAreNat, Types DEF Cell
  <2> QED
    BY <2>1, <2>2, <2>3, <1>1, TableCounts DEF Cell
<1>7. Cardinality(Ahead(q - 1, Taken)) \in Nat /\ mes = msg + Cardinality(Ahead(q - 1, Taken))
    BY <1>1, KeySetsFinite DEF Counted
<1>8. mes' = msg' + Cardinality(Ahead(q - 1, Taken))'
    BY <1>1, <1>2, <1>4, <1>5, <1>6, <1>7
<1> QED
    BY <1>1, <1>2, <1>3, <1>4, <1>8 DEF Counted

\* A key that is taken passes no set, and the last one leaves nothing.
LEMMA TakeKeyCounts == IInv /\ Counted /\ TakeKey => Counted'
<1> SUFFICES ASSUME IInv, Counted, TakeKey PROVE Counted'
    OBVIOUS
<1> USE SizeAssumption
<1>1. /\ i \in 1..tb2 /\ q \in 1..k2sn_t /\ msg \in Nat
      /\ component_key \in [0..tb2-1 -> Nat]
  <2>1. Running /\ TypeOK /\ Left
    BY DEF IInv, TakeKey
  <2>2. i \in 1..tb2 /\ q <= k2sn_t
    BY <2>1 DEF TypeOK, Running, Left
  <2> QED
    BY <2>1, <2>2 DEF TypeOK
<1>2. /\ msg' = msg /\ q' = q + 1 /\ i' = i + 1 /\ mes' = mes
      /\ component_key' = [component_key EXCEPT ![i - 1] = q - 1]
    BY DEF TakeKey
<1>3. Taken \in SUBSET (0..q-2) /\ IsFiniteSet(Taken) /\ Cardinality(Taken) = i - 1
    BY <1>1, TakenBelow DEF Counted
<1>4. Taken' = Taken \cup {q - 1}
  <2>1. component_key'[i - 1] = q - 1
    BY <1>1, <1>2
  <2>2. \A j \in 0..i-2 : component_key'[j] = component_key[j]
    BY <1>1, <1>2
  <2>3. 0..i-1 = (0..i-2) \cup {i - 1}
    BY <1>1
  <2>4. Taken' = {component_key'[j] : j \in 0..i-1}
    BY <1>1, <1>2 DEF Taken
  <2> QED
    BY <2>1, <2>2, <2>3, <2>4 DEF Taken
<1>5. Cardinality(Taken') = i
  <2>1. q - 1 \notin Taken
    BY <1>1, <1>3
  <2>2. Cardinality(Taken \cup {q - 1}) = Cardinality(Taken) + 1
    BY <2>1, <1>3, FS_AddElement
  <2> QED
    BY <2>2, <1>1, <1>3, <1>4
<1>6. Ahead(q - 1, Taken)' = Ahead(q - 1, Taken)
  <2> DEFINE lim == q - 1
  <2>1. lim \in 0..k2sn_t-1 /\ Taken \in SUBSET (0..lim-1) /\ lim + 1 = q
    BY <1>1, <1>3
  <2>2. Ahead(q - 1, Taken)' = Ahead(q, Taken \cup {q - 1})
    <3>1. q' - 1 = q
        BY <1>1, <1>2
    <3>2. Ahead(q - 1, Taken)' = Ahead(q' - 1, Taken')
        BY DEF Ahead, KeySets
    <3> QED
        BY <3>1, <3>2, <1>4
  <2> HIDE DEF lim
  <2>3. Ahead(lim + 1, Taken \cup {lim}) = Ahead(lim, Taken)
    BY <2>1, AheadTakes
  <2> QED
    BY <2>1, <2>2, <2>3 DEF lim
<1>7. mes' = msg' + Cardinality(Ahead(q - 1, Taken))'
    BY <1>1, <1>2, <1>6 DEF Counted
<1>8. i' = tb2 + 1 => msg' = 0
  <2> SUFFICES ASSUME i = tb2 PROVE msg = 0
    BY <1>1, <1>2
  <2>1. k2sn_t - q \in Cells /\ 0 \in Cols /\ tb2 - i = 0
    BY <1>1 DEF Cells, Cols
  <2>2. Borders
    BY DEF IInv, Table, TakeKey, Running, Found
  <2>3. Cell = 1
    BY <2>1, <2>2 DEF Borders, Cell
  <2> QED
    BY <2>3, <1>1 DEF TakeKey
<1> QED
    BY <1>1, <1>2, <1>5, <1>7, <1>8 DEF Counted

\* In every call of cff() the message is what is left and what was passed.
LEMMA CountInvariant == Spec => [](IInv /\ Counted)
<1>1. Init => IInv /\ Counted
    BY InitEstablishes DEF Init, Counted
<1>2. IInv /\ Counted /\ [Next]_vars => (IInv /\ Counted)'
  <2> SUFFICES ASSUME IInv, Counted, [Next]_vars PROVE Counted'
    BY StepKeeps
  <2>1. CASE SetBorders \/ FillRow
    <3>1. i' = i /\ row < k2sn_t
        BY <2>1, SizeAssumption DEF SetBorders, FillRow, cffvars
    <3>2. row \in Nat /\ i \in 0..tb2+1 /\ (i >= 1 => row = k2sn_t)
        BY SizeAssumption DEF IInv, TypeOK, Found
    <3>3. ~(i' >= 1)
        BY <3>1, <3>2, SizeAssumption
    <3> QED
        BY <3>3 DEF Counted
  <2>2. CASE UNCHANGED vars
    BY <2>2 DEF vars, Counted, Taken, Ahead, KeySets
  <2> QED
    BY <2>1, <2>2, StartCounts, SkipKeyCounts, TakeKeyCounts DEF Next
<1> QED
    BY <1>1, <1>2, PTL DEF Spec

\* For every size of the family, cff() gives message number n the n-th set of
\* component keys in the lexicographic order: set_binotable() has counted how
\* many sets a skipped key passes, so no two messages share their keys.
THEOREM MessageGetsNthSet == Spec => []NthSet
<1>1. IInv /\ Counted => NthSet
  <2> SUFFICES ASSUME IInv, Counted, i = tb2 + 1
               PROVE  mes = Cardinality({S \in KeySets : Before(S, Chosen)})
    BY DEF NthSet
  <2> USE SizeAssumption
  <2>1. Chosen = Taken
    BY DEF Chosen, Taken
  <2>2. /\ mes = msg + Cardinality(Ahead(q - 1, Taken)) /\ msg = 0
        /\ Cardinality(Taken) = tb2
    BY DEF Counted
  <2>3. Taken \in SUBSET (0..(q - 1)-1) /\ IsFiniteSet(Taken) /\ q - 1 \in Nat
    <3>1. i >= 1
        OBVIOUS
    <3>2. Taken \subseteq 0..q-2 /\ q - 1 \in 0..k2sn_t /\ IsFiniteSet(Taken)
        BY <3>1, TakenBelow
    <3>3. q \in Nat
        BY DEF IInv, TypeOK
    <3>4. (q - 1) - 1 = q - 2
        BY <3>3
    <3> QED
        BY <3>2, <3>4
  <2>4. Ahead(q - 1, Taken) = {S \in KeySets : Before(S, Taken)}
    BY <2>2, <2>3, AheadEnds
  <2>5. Cardinality(Ahead(q - 1, Taken)) \in Nat
    BY KeySetsFinite
  <2>6. mes = Cardinality(Ahead(q - 1, Taken))
    BY <2>2, <2>5
  <2> QED
    BY <2>1, <2>4, <2>6
<1> QED
    BY <1>1, CountInvariant, PTL

-----------------------------------------------------------------------------
(* The limbs of a long number *)

\* Quotient and remainder are the only ones.
LEMMA DivMod ==
    ASSUME NEW w \in Nat \ {0}, NEW y \in Int, NEW e \in 0..w-1, NEW n \in Int,
           n = w * y + e
    PROVE  n % w = e
<1> DEFINE x == n \div w
           r == n % w
           k == y - x
<1>1. n = w * x + r /\ x \in Int /\ r \in 0..w-1
    OBVIOUS
<1>2. k \in Int /\ y = x + k
    BY <1>1
<1> HIDE DEF x, r, k
<1>3. w * k = r - e /\ w * k < w /\ -w < w * k
    BY <1>1, <1>2
<1>4. k = 0
  <2>1. CASE k > 0
    <3> DEFINE j == k - 1
    <3>1. j \in Nat /\ w * k = w * j + w
        BY <2>1, <1>2
    <3>2. w * j \in Nat
        BY <3>1
    <3> HIDE DEF j
    <3> QED
        BY <3>1, <3>2, <1>3
  <2>2. CASE k < 0
    <3> DEFINE j == -k - 1
    <3>1. j \in Nat /\ w * k = -(w * j) - w
        BY <2>2, <1>2
    <3>2. w * j \in Nat
        BY <3>1
    <3> HIDE DEF j
    <3> QED
        BY <3>1, <3>2, <1>3
  <2> QED
    BY <1>2, <2>1, <2>2
<1>5. r = e
    BY <1>1, <1>3, <1>4
<1> QED
    BY <1>5 DEF r

\* What holds at 0 and goes from each number to the next holds up to n.
LEMMA UpTo ==
    ASSUME NEW n \in Nat, NEW P, 0 \in P,
           \A k \in 1..n : k - 1 \in P => k \in P
    PROVE  \A k \in 0..n : k \in P
<1> DEFINE W == {k \in 0..n : k \notin P}
<1> SUFFICES ASSUME W # {} PROVE FALSE
    OBVIOUS
<1>1. W \in SUBSET Nat
    OBVIOUS
<1>2. PICK m \in W : \A b \in W : m <= b
  <2> HIDE DEF W
  <2> QED
    BY <1>1, LeastNumber
<1>3. m \in 1..n /\ m \notin P
    BY <1>2
<1>4. m - 1 \in 0..n /\ ~(m <= m - 1)
    BY <1>3
<1>5. m - 1 \in P
    BY <1>2, <1>4
<1> QED
    BY <1>3, <1>5

\* A value in S and n steps within S make a sequence of values.
Steps(n, S, c, G, f) ==
    /\ f \in [0..n -> S]
    /\ f[0] = c
    /\ \A k \in 1..n : f[k] = G[k][f[k - 1]]

LEMMA StepsExist ==
    ASSUME NEW n \in Nat, NEW S, NEW c \in S, NEW G \in [1..n -> [S -> S]]
    PROVE  \E f : Steps(n, S, c, G, f)
<1> DEFINE P == {m \in 0..n : \E f : Steps(m, S, c, G, f)}
<1>1. 0 \in P
  <2> DEFINE g == [k \in 0..0 |-> c]
  <2>1. g \in [0..0 -> S] /\ g[0] = c
    OBVIOUS
  <2>2. \A k : k \notin 1..0
    OBVIOUS
  <2> HIDE DEF g
  <2>3. \A k \in 1..0 : g[k] = G[k][g[k - 1]]
    BY <2>2
  <2> QED
    BY <2>1, <2>3 DEF Steps
<1>2. ASSUME NEW m \in 1..n, m - 1 \in P PROVE m \in P
  <2>0. PICK f : Steps(m - 1, S, c, G, f)
    BY <1>2
  <2>1. /\ f \in [0..m-1 -> S]
        /\ f[0] = c /\ \A k \in 1..m-1 : f[k] = G[k][f[k - 1]]
    BY <2>0 DEF Steps
  <2> DEFINE g == [k \in 0..m |-> IF k = m THEN G[m][f[m - 1]] ELSE f[k]]
  <2>2. f[m - 1] \in S
    BY <2>1
  <2>3. G[m][f[m - 1]] \in S
    BY <2>2
  <2>4. g \in [0..m -> S]
    BY <2>1, <2>3
  <2>5. g[0] = c
    BY <2>1
  <2>6. ASSUME NEW k \in 1..m PROVE g[k] = G[k][g[k - 1]]
    <3>1. k - 1 \in 0..m /\ k - 1 # m /\ g[k - 1] = f[k - 1]
        OBVIOUS
    <3>2. CASE k = m
        BY <3>1, <3>2
    <3>3. CASE k # m
      <4>1. k \in 1..m-1
        BY <3>3
      <4> QED
        BY <2>1, <3>1, <3>3, <4>1
    <3> QED
        BY <3>2, <3>3
  <2>7. \A k \in 1..m : g[k] = G[k][g[k - 1]]
    BY <2>6
  <2> HIDE DEF g
  <2>8. Steps(m, S, c, G, g)
    BY <2>4, <2>5, <2>7 DEF Steps
  <2> QED
    BY <2>8, m \in 0..n
<1> HIDE DEF P
<1>3. \A k \in 0..n : k \in P
    BY <1>1, <1>2, UpTo
<1>4. n \in P
    BY <1>3
<1> QED
    BY <1>4 DEF P

\* The weight of a limb is positive, and Base times that of the limb below.
LEMMA Weights ==
    /\ Weight \in [0..Top+1 -> Nat \ {0}]
    /\ Weight[0] = 1
    /\ \A k \in 1..Top+1 : Weight[k] = Base * Weight[k - 1]
<1> USE LimbAssumption
<1> DEFINE n == Top + 1
           Rec(f) == f = [k \in 0..Top+1 |-> IF k = 0 THEN 1 ELSE Base * f[k - 1]]
           G == [k \in 1..n |-> [x \in Nat |-> Base * x]]
<1>1. n \in Nat /\ 1 \in Nat /\ Base \in Nat /\ Base > 1
    OBVIOUS
<1>2. G \in [1..n -> [Nat -> Nat]]
  <2>1. \A x \in Nat : Base * x \in Nat
    BY <1>1
  <2> QED
    BY <2>1
<1>b. \A k \in 1..n : \A x \in Nat : G[k][x] = Base * x
    OBVIOUS
<1> HIDE DEF n, G
<1>a. PICK f : Steps(n, Nat, 1, G, f)
    BY ONLY <1>1, <1>2, StepsExist
<1>3. f \in [0..n -> Nat] /\ f[0] = 1 /\ \A k \in 1..n : f[k] = G[k][f[k - 1]]
    BY <1>a DEF Steps
<1> USE DEF n, G
<1>4. ASSUME NEW k \in 1..n PROVE f[k - 1] \in Nat /\ f[k] = Base * f[k - 1]
  <2>1. k - 1 \in 0..n
    OBVIOUS
  <2>2. f[k - 1] \in Nat
    BY <2>1, <1>3
  <2> HIDE DEF G
  <2> QED
    BY <2>2, <1>3, <1>b
<1>5. Rec(f)
  <2>1. \A k \in 0..n : f[k] = IF k = 0 THEN 1 ELSE Base * f[k - 1]
    <3> SUFFICES ASSUME NEW k \in 0..n, k # 0 PROVE f[k] = Base * f[k - 1]
        BY <1>3
    <3>1. k \in 1..n
        BY <1>1
    <3> QED
        BY <3>1, <1>4
  <2>2. f = [k \in 0..n |-> f[k]]
    BY <1>3
  <2> QED
    BY <2>1, <2>2
<1>6. Rec(Weight)
  <2>1. Weight = CHOOSE g : Rec(g)
    BY DEF Weight
  <2> HIDE DEF Rec
  <2> QED
    BY <1>5, <2>1
<1>7. Weight[0] = 1 /\ \A k \in 1..n : Weight[k] = Base * Weight[k - 1]
    BY <1>6
<1> DEFINE P == {k \in 0..n : Weight[k] \in Nat \ {0}}
<1>8. 0 \in P
    BY <1>7
<1>9. ASSUME NEW k \in 1..n, k - 1 \in P PROVE k \in P
  <2>1. Weight[k - 1] \in Nat \ {0} /\ Weight[k] = Base * Weight[k - 1]
    BY <1>7, <1>9
  <2>2. \A b, w \in Nat \ {0} : b * w \in Nat \ {0}
    OBVIOUS
  <2>3. Weight[k] \in Nat \ {0}
    BY <2>1, <2>2, <1>1
  <2> QED
    BY <2>3
<1> HIDE DEF P
<1>10. \A k \in 0..n : k \in P
    BY ONLY <1>1, <1>8, <1>9, UpTo
<1>11. \A k \in 0..n : Weight[k] \in Nat \ {0}
    BY <1>10 DEF P
<1>12. Weight = [k \in 0..n |-> Weight[k]]
    BY <1>6
<1> QED
    BY <1>7, <1>11, <1>12

LEMMA WeightsNat ==
    \A j \in 0..Top : Weight[j] \in Nat /\ Weight[j + 1] \in Nat
<1>1. Top \in Nat
    BY LimbAssumption
<1>2. Weight \in [0..Top+1 -> Nat \ {0}]
    BY Weights
<1> SUFFICES ASSUME NEW j \in 0..Top PROVE Weight[j] \in Nat /\ Weight[j + 1] \in Nat
    OBVIOUS
<1>3. j \in 0..Top+1 /\ j + 1 \in 0..Top+1
    BY <1>1
<1> QED
    BY <1>2, <1>3

\* A limb of weight w above a number less than w.
LEMMA LimbOver ==
    ASSUME NEW w \in Nat, NEW d \in Limb, NEW x \in 0..w-1
    PROVE  /\ d * w \in Nat /\ Base * w \in Nat
           /\ x + d * w \in 0..(Base * w) - 1
<1> USE LimbAssumption
<1> DEFINE e == Base - 1 - d
<1>1. e \in Nat /\ d \in Nat /\ Base = e + 1 + d
    BY DEF Limb
<1> HIDE DEF e
<1>2. e * w \in Nat /\ d * w \in Nat /\ Base * w = e * w + w + d * w
    BY <1>1
<1> QED
    BY <1>2

\* The numbers that the limbs up to each one stand for.
Prefixes(a, s) ==
    /\ s[0] = a[0]
    /\ \A k \in 1..Top : s[k] = s[k - 1] + a[k] * Weight[k]
    /\ \A k \in 0..Top : s[k] \in 0..Weight[k + 1]-1
    /\ Value(a) = s[Top]

LEMMA ValueHasPrefixes ==
    ASSUME NEW a \in u256
    PROVE  \E s : Prefixes(a, s)
<1> USE LimbAssumption
<1> DEFINE Rec(s) == s = [k \in 0..Top |->
                            (IF k = 0 THEN 0 ELSE s[k - 1]) + a[k] * Weight[k]]
           G == [k \in 1..Top |-> [x \in Nat |-> x + a[k] * Weight[k]]]
           c == a[0] * Weight[0]
<1>1. ASSUME NEW k \in 0..Top
      PROVE  /\ a[k] \in Limb /\ a[k] \in Nat /\ Weight[k] \in Nat
             /\ a[k] * Weight[k] \in Nat
  <2>1. a[k] \in Limb /\ Weight[k] \in Nat
    BY WeightsNat DEF u256
  <2>2. a[k] \in Nat
    BY <2>1 DEF Limb
  <2>3. \A x, y \in Nat : x * y \in Nat
    OBVIOUS
  <2> QED
    BY <2>1, <2>2, <2>3
<1>2. c = a[0] /\ c \in Nat /\ Top \in Nat /\ c \in Limb
  <2>0. 0 \in 0..Top
    OBVIOUS
  <2>1. Weight[0] = 1 /\ a[0] \in Nat /\ a[0] \in Limb
    BY <2>0, <1>1, Weights
  <2>2. \A x \in Nat : x * 1 = x
    OBVIOUS
  <2> QED
    BY <2>1, <2>2
<1>3. \A k \in 1..Top : \A x \in Nat : x + a[k] * Weight[k] \in Nat
  <2> TAKE k \in 1..Top
  <2>1. a[k] * Weight[k] \in Nat
    BY <1>1
  <2> QED
    BY <2>1
<1>4. G \in [1..Top -> [Nat -> Nat]]
    BY <1>3
<1>5. \A k \in 1..Top : \A x \in Nat : G[k][x] = x + a[k] * Weight[k]
    OBVIOUS
<1> HIDE DEF G, c
<1>6. PICK f : Steps(Top, Nat, c, G, f)
    BY ONLY <1>2, <1>4, StepsExist
<1>7. f \in [0..Top -> Nat] /\ f[0] = c /\ \A k \in 1..Top : f[k] = G[k][f[k - 1]]
    BY <1>6 DEF Steps
<1>8. ASSUME NEW k \in 1..Top PROVE f[k - 1] \in Nat /\ f[k] = f[k - 1] + a[k] * Weight[k]
  <2>1. k - 1 \in 0..Top
    OBVIOUS
  <2>2. f[k - 1] \in Nat
    BY <2>1, <1>7
  <2> QED
    BY <2>2, <1>5, <1>7
<1>9. Rec(f)
  <2>1. ASSUME NEW k \in 0..Top
        PROVE  f[k] = (IF k = 0 THEN 0 ELSE f[k - 1]) + a[k] * Weight[k]
    <3>1. CASE k = 0
      <4>1. f[0] = a[0] * Weight[0] /\ a[0] * Weight[0] \in Nat
        BY <1>1, <1>7 DEF c
      <4>2. \A x \in Nat : 0 + x = x
        OBVIOUS
      <4> QED
        BY <3>1, <4>1, <4>2
    <3>2. CASE k # 0
        BY <3>2, <1>8
    <3> QED
        BY <3>1, <3>2
  <2>2. f = [k \in 0..Top |-> f[k]]
    BY <1>7
  <2> QED
    BY <2>1, <2>2
<1> DEFINE s == CHOOSE g : Rec(g)
<1>10. Value(a) = s[Top]
    BY DEF Value
<1>11. Rec(s)
  <2> HIDE DEF Rec
  <2> QED
    BY <1>9
<1> HIDE DEF s
<1>12. \A k \in 0..Top : s[k] = (IF k = 0 THEN 0 ELSE s[k - 1]) + a[k] * Weight[k]
    BY <1>11
<1> HIDE DEF Rec
<1>13. s[0] = a[0]
  <2>1. s[0] = 0 + a[0] * Weight[0]
    BY <1>12, 0 \in 0..Top
  <2> QED
    BY <2>1, <1>2 DEF c
<1>14. \A k \in 1..Top : s[k] = s[k - 1] + a[k] * Weight[k]
    BY <1>12
<1> DEFINE P == {k \in 0..Top : s[k] \in 0..Weight[k + 1]-1}
<1>15. 0 \in P
  <2>1. Weight[0 + 1] = Base * 1
    BY Weights
  <2> QED
    BY <2>1, <1>2, <1>13 DEF Limb
<1>16. ASSUME NEW k \in 1..Top, k - 1 \in P PROVE k \in P
  <2>0. (k - 1) + 1 = k
    OBVIOUS
  <2>a. s[k - 1] \in 0..Weight[(k - 1) + 1]-1
    BY <1>16
  <2>1. s[k - 1] \in 0..Weight[k]-1
    BY <2>0, <2>a
  <2>2. Weight[k] \in Nat /\ a[k] \in Limb /\ Weight[k + 1] = Base * Weight[k]
    <3>1. k \in 0..Top /\ k + 1 \in 1..Top+1 /\ (k + 1) - 1 = k
        OBVIOUS
    <3> QED
        BY <3>1, <1>1, Weights
  <2>3. s[k - 1] + a[k] * Weight[k] \in 0..(Base * Weight[k]) - 1
    BY ONLY <2>1, <2>2, LimbOver
  <2>4. s[k] \in 0..Weight[k + 1]-1
    BY <2>2, <2>3, <1>14
  <2> QED
    BY <2>4
<1> HIDE DEF P
<1>17. \A k \in 0..Top : k \in P
    BY ONLY <1>2, <1>15, <1>16, UpTo
<1>18. \A k \in 0..Top : s[k] \in 0..Weight[k + 1]-1
    BY <1>17 DEF P
<1>19. Prefixes(a, s)
    BY <1>10, <1>13, <1>14, <1>18 DEF Prefixes
<1> QED
    BY <1>19

\* A number is above another one that is less in the highest limb that differs.
LEMMA HigherLimb ==
    ASSUME NEW a \in u256, NEW b \in u256, NEW k \in 0..Top, a[k] > b[k],
           \A j \in k+1..Top : a[j] = b[j]
    PROVE  Value(a) > Value(b)
<1> USE LimbAssumption
<1>1. PICK s : Prefixes(a, s)
    BY ValueHasPrefixes
<1>2. PICK r : Prefixes(b, r)
    BY ValueHasPrefixes
<1>3. /\ s[0] = a[0] /\ \A j \in 1..Top : s[j] = s[j - 1] + a[j] * Weight[j]
      /\ \A j \in 0..Top : s[j] \in 0..Weight[j + 1]-1
      /\ Value(a) = s[Top]
    BY <1>1 DEF Prefixes
<1>4. /\ r[0] = b[0] /\ \A j \in 1..Top : r[j] = r[j - 1] + b[j] * Weight[j]
      /\ \A j \in 0..Top : r[j] \in 0..Weight[j + 1]-1
      /\ Value(b) = r[Top]
    BY <1>2 DEF Prefixes
<1>5. \A j \in 0..Top : Weight[j] \in Nat /\ Weight[j + 1] \in Nat
    BY WeightsNat
<1>6. \A j \in 0..Top : s[j] \in Nat /\ r[j] \in Nat
    BY <1>3, <1>4, <1>5
<1>7. a[k] \in Nat /\ b[k] \in Nat
    BY DEF u256, Limb
<1>8. s[k] > r[k]
  <2>1. CASE k = 0
    BY <2>1, <1>3, <1>4
  <2>2. CASE k # 0
    <3>1. k \in 1..Top /\ k - 1 \in 0..Top /\ (k - 1) + 1 = k
        BY <2>2
    <3>2. s[k - 1] \in Nat /\ r[k - 1] \in 0..Weight[k]-1 /\ Weight[k] \in Nat
        BY <3>1, <1>4, <1>5, <1>6
    <3> DEFINE d == a[k] - b[k] - 1
               w == Weight[k]
    <3>3. d \in Nat /\ a[k] = b[k] + 1 + d
        BY <1>7
    <3> HIDE DEF d, w
    <3>4. a[k] * w = b[k] * w + w + d * w /\ d * w \in Nat /\ b[k] * w \in Nat
        BY <3>2, <3>3, <1>7 DEF w
    <3>5. s[k] = s[k - 1] + a[k] * w /\ r[k] = r[k - 1] + b[k] * w
        BY <3>1, <1>3, <1>4 DEF w
    <3>6. r[k - 1] < w /\ r[k - 1] \in Nat /\ w \in Nat
        BY <3>2 DEF w
    <3> QED
        BY <3>2, <3>4, <3>5, <3>6
  <2> QED
    BY <2>1, <2>2
<1> DEFINE P == {m \in 0..Top : m < k \/ s[m] > r[m]}
<1>9. 0 \in P
    BY <1>8
<1>10. ASSUME NEW m \in 1..Top, m - 1 \in P PROVE m \in P
  <2>1. CASE m < k
    BY <2>1
  <2>2. CASE m = k
    BY <2>2, <1>8
  <2>3. CASE m > k
    <3>1. m - 1 \in 0..Top /\ ~(m - 1 < k) /\ m \in k+1..Top
        BY <2>3
    <3>2. s[m - 1] > r[m - 1] /\ a[m] = b[m]
        BY <3>1, <1>10
    <3>3. s[m] = s[m - 1] + a[m] * Weight[m] /\ r[m] = r[m - 1] + a[m] * Weight[m]
        BY <3>2, <1>3, <1>4
    <3>4. a[m] \in Nat /\ Weight[m] \in Nat
        BY <1>5 DEF u256, Limb
    <3> DEFINE x == a[m] * Weight[m]
    <3>5. x \in Nat
        BY <3>4
    <3> HIDE DEF x
    <3>6. s[m] = s[m - 1] + x /\ r[m] = r[m - 1] + x
        BY <3>3 DEF x
    <3>7. s[m - 1] \in Nat /\ r[m - 1] \in Nat
        BY <3>1, <1>6
    <3>8. s[m] > r[m]
        BY <3>2, <3>5, <3>6, <3>7
    <3> QED
        BY <3>8
  <2> QED
    BY <2>1, <2>2, <2>3
<1> HIDE DEF P
<1>11. Top \in Nat
    OBVIOUS
<1>12. \A m \in 0..Top : m \in P
    BY ONLY <1>9, <1>10, <1>11, UpTo
<1>13. Top \in P /\ ~(Top < k)
    BY <1>12
<1> QED
    BY <1>3, <1>4, <1>13 DEF P

\* isgteq() compares the numbers.
LEMMA Compares ==
    ASSUME NEW a \in u256, NEW b \in u256
    PROVE  isgteq(a, b) <=> Value(a) >= Value(b)
<1> USE LimbAssumption
<1>0. Value(a) \in Nat /\ Value(b) \in Nat
  <2>1. ASSUME NEW c \in u256 PROVE Value(c) \in Nat
    <3>1. PICK s : Prefixes(c, s)
        BY ValueHasPrefixes
    <3>2. Value(c) \in 0..Weight[Top + 1]-1
        BY <3>1 DEF Prefixes
    <3> QED
        BY <3>2, Weights
  <2> QED
    BY <2>1
<1>1. ASSUME isgteq(a, b) PROVE Value(a) >= Value(b)
  <2>1. CASE a = b
    BY <2>1, <1>0
  <2>2. CASE a # b
    <3>1. PICK k \in 0..Top : a[k] > b[k] /\ \A j \in k+1..Top : a[j] = b[j]
        BY <2>2, <1>1 DEF isgteq
    <3>2. Value(a) > Value(b)
        BY <3>1, HigherLimb
    <3> QED
        BY <3>2, <1>0
  <2> QED
    BY <2>1, <2>2
<1>2. ASSUME ~isgteq(a, b) PROVE Value(b) > Value(a)
  <2>1. a # b
    BY <1>2 DEF isgteq
  <2>2. PICK k0 \in 0..Top : a[k0] # b[k0]
    BY <2>1 DEF u256
  <2> DEFINE D == {d \in 0..Top : a[Top - d] # b[Top - d]}
  <2>3. Top - k0 \in D /\ D \in SUBSET Nat
    BY <2>2
  <2>4. PICK d \in D : \A e \in D : d <= e
    <3> HIDE DEF D
    <3> QED
        BY <2>3, LeastNumber
  <2> DEFINE k == Top - d
  <2>5. k \in 0..Top /\ a[k] # b[k]
    BY <2>4
  <2>6. ASSUME NEW j \in k+1..Top PROVE a[j] = b[j]
    <3>1. Top - j \in 0..Top /\ ~(d <= Top - j) /\ Top - (Top - j) = j
        BY <2>4, <2>6
    <3>2. Top - j \notin D
        BY <3>1, <2>4
    <3> QED
        BY <3>1, <3>2
  <2>7. a[k] \in Nat /\ b[k] \in Nat
    BY <2>5 DEF u256, Limb
  <2> HIDE DEF D, k
  <2>8. ~(a[k] > b[k])
    BY <2>5, <2>6, <1>2 DEF isgteq
  <2>9. b[k] > a[k]
    BY <2>5, <2>7, <2>8
  <2>10. \A j \in k+1..Top : b[j] = a[j]
    BY <2>6
  <2> QED
    BY ONLY <2>5, <2>9, <2>10, HigherLimb, a \in u256, b \in u256
<1> QED
    BY <1>0, <1>1, <1>2

\* The limbs of a number that fits stand for it.
LEMMA LimbsStand ==
    ASSUME NEW n \in Nat, n < Weight[Top + 1]
    PROVE  Limbs(n) \in u256 /\ Value(Limbs(n)) = n
<1> USE LimbAssumption
<1>1. ASSUME NEW k \in 0..Top
      PROVE  /\ Weight[k] \in Nat \ {0} /\ Weight[k + 1] \in Nat \ {0}
             /\ Weight[k + 1] = Base * Weight[k]
             /\ Limbs(n)[k] = (n \div Weight[k]) % Base
             /\ n \div Weight[k] \in Nat
             /\ n = Weight[k] * (n \div Weight[k]) + (n % Weight[k])
             /\ n % Weight[k] \in 0..Weight[k]-1
  <2>0. k \in 0..Top+1 /\ k + 1 \in 1..Top+1 /\ k + 1 \in 0..Top+1 /\ (k + 1) - 1 = k
    OBVIOUS
  <2>1. /\ Weight[k] \in Nat \ {0} /\ Weight[k + 1] \in Nat \ {0}
        /\ Weight[k + 1] = Base * Weight[k]
    BY <2>0, Weights
  <2>2. Limbs(n)[k] = (n \div Weight[k]) % Base
    BY DEF Limbs
  <2> DEFINE w == Weight[k]
  <2>3. w \in Nat \ {0}
    BY <2>1
  <2> HIDE DEF w
  <2>4. /\ n \div w \in Nat /\ n = w * (n \div w) + (n % w)
        /\ n % w \in 0..w-1
    BY <2>3
  <2> QED
    BY <2>1, <2>2, <2>4 DEF w
<1>2. Limbs(n) \in u256
  <2>1. \A k \in 0..Top : (n \div Weight[k]) % Base \in Limb
    <3> TAKE k \in 0..Top
    <3>1. n \div Weight[k] \in Nat
        BY <1>1
    <3>2. \A x \in Nat : x % Base \in 0..Base-1
        OBVIOUS
    <3> QED
        BY <3>1, <3>2 DEF Limb
  <2> QED
    BY <2>1 DEF Limbs, u256
<1>3. PICK s : Prefixes(Limbs(n), s)
    BY <1>2, ValueHasPrefixes
<1>4. /\ s[0] = Limbs(n)[0]
      /\ \A k \in 1..Top : s[k] = s[k - 1] + Limbs(n)[k] * Weight[k]
      /\ Value(Limbs(n)) = s[Top]
    BY <1>3 DEF Prefixes
<1> DEFINE P == {k \in 0..Top : s[k] = n % Weight[k + 1]}
<1>5. 0 \in P
  <2>1. Weight[0] = 1 /\ Weight[0 + 1] = Base * Weight[0] /\ 0 \in 0..Top
    BY <1>1, Weights
  <2>2. Weight[0 + 1] = Base
    BY <2>1
  <2>3. s[0] = (n \div 1) % Base
    BY <1>1, <1>4, <2>1
  <2>4. n \div 1 = n
    OBVIOUS
  <2> QED
    BY <2>1, <2>2, <2>3, <2>4
<1>6. ASSUME NEW k \in 1..Top, k - 1 \in P PROVE k \in P
  <2>0. (k - 1) + 1 = k /\ k \in 0..Top
    OBVIOUS
  <2>a. s[k - 1] = n % Weight[(k - 1) + 1]
    BY <1>6
  <2> DEFINE w == Weight[k]
             x == n \div w
             d == x % Base
             y == x \div Base
             r == n % w
  <2>1. s[k - 1] = r
    BY <2>0, <2>a
  <2>2. /\ w \in Nat \ {0} /\ Weight[k + 1] = Base * w /\ x \in Nat
        /\ n = w * x + r /\ r \in 0..w-1
    BY <2>0, <1>1
  <2>3. s[k] = r + d * w
    BY <2>0, <2>1, <1>1, <1>4
  <2> HIDE DEF w, x, r
  <2>4. x = Base * y + d /\ d \in Limb /\ y \in Nat
    BY <2>2 DEF Limb
  <2> HIDE DEF d, y
  <2>5. r + d * w \in 0..(Base * w) - 1 /\ Base * w \in Nat /\ d * w \in Nat
    BY <2>2, <2>4, LimbOver
  <2>6. n = (Base * w) * y + (r + d * w)
    <3>1. d \in Nat /\ w \in Nat /\ Base \in Nat /\ y \in Nat /\ r \in Nat
        BY <2>2, <2>4 DEF Limb
    <3>2. w * (Base * y + d) = (Base * w) * y + d * w
        BY <3>1
    <3>3. (Base * w) * y \in Nat /\ d * w \in Nat
        BY <3>1
    <3>4. n = (Base * w) * y + d * w + r
        BY ONLY <3>1, <3>2, <3>3, <2>2, <2>4
    <3> QED
        BY <3>1, <3>3, <3>4
  <2> DEFINE W == Base * w
             e == r + d * w
  <2>7. W \in Nat \ {0} /\ e \in 0..W-1 /\ n = W * y + e
    BY <2>5, <2>6
  <2> HIDE DEF W, e
  <2>8. n % W = e
    BY <2>7, <2>4, DivMod
  <2>9. s[k] = n % Weight[k + 1]
    BY <2>2, <2>3, <2>8 DEF W, e
  <2> QED
    BY <2>0, <2>9
<1> HIDE DEF P
<1>7. Top \in Nat
    OBVIOUS
<1>8. \A k \in 0..Top : k \in P
    BY ONLY <1>5, <1>6, <1>7, UpTo
<1>9. s[Top] = n % Weight[Top + 1]
    BY <1>8 DEF P
<1>10. n % Weight[Top + 1] = n
  <2> DEFINE W == Weight[Top + 1]
  <2>1. W \in Nat \ {0} /\ n < W
    BY <1>1, Top \in 0..Top
  <2> HIDE DEF W
  <2>2. n % W = n
    BY <2>1
  <2> QED
    BY <2>2 DEF W
<1> QED
    BY <1>2, <1>4, <1>9, <1>10

\* add() of numbers whose sum fits: the carry of each limb goes into the next.
LEMMA AddsUp ==
    ASSUME NEW a \in u256, NEW b \in u256, Value(a) + Value(b) < Weight[Top + 1]
    PROVE  add(a, b) \in u256 /\ Value(add(a, b)) = Value(a) + Value(b)
<1> USE LimbAssumption
<1> DEFINE Rec(f) == f = [k \in 0..Top |->
                a[k] + b[k] + IF k > 0 /\ f[k - 1] > Base - 1 THEN 1 ELSE 0]
           G == [k \in 1..Top |-> [x \in Nat |->
                a[k] + b[k] + IF x > Base - 1 THEN 1 ELSE 0]]
           c0 == a[0] + b[0]
<1>1. ASSUME NEW k \in 0..Top PROVE a[k] \in 0..Base-1 /\ b[k] \in 0..Base-1
    BY DEF u256, Limb
<1>2. c0 \in Nat /\ Top \in Nat
    BY <1>1, 0 \in 0..Top
<1>3. \A k \in 1..Top : \A x \in Nat :
          a[k] + b[k] + (IF x > Base - 1 THEN 1 ELSE 0) \in Nat
    BY <1>1
<1>4. G \in [1..Top -> [Nat -> Nat]]
    BY <1>3
<1>5. \A k \in 1..Top : \A x \in Nat :
          G[k][x] = a[k] + b[k] + IF x > Base - 1 THEN 1 ELSE 0
    OBVIOUS
<1> HIDE DEF G, c0
<1>6. PICK f : Steps(Top, Nat, c0, G, f)
    BY ONLY <1>2, <1>4, StepsExist
<1>7. f \in [0..Top -> Nat] /\ f[0] = c0 /\ \A k \in 1..Top : f[k] = G[k][f[k - 1]]
    BY <1>6 DEF Steps
<1>8. ASSUME NEW k \in 1..Top
      PROVE  f[k] = a[k] + b[k] + IF f[k - 1] > Base - 1 THEN 1 ELSE 0
  <2>1. k - 1 \in 0..Top
    OBVIOUS
  <2>2. f[k - 1] \in Nat
    BY <2>1, <1>7
  <2> QED
    BY <2>2, <1>5, <1>7
<1>9. Rec(f)
  <2>1. ASSUME NEW k \in 0..Top
        PROVE  f[k] = a[k] + b[k] + IF k > 0 /\ f[k - 1] > Base - 1 THEN 1 ELSE 0
    <3>1. CASE k = 0
        BY <3>1, <1>1, <1>7 DEF c0
    <3>2. CASE k # 0
        BY <3>2, <1>8
    <3> QED
        BY <3>1, <3>2
  <2>2. f = [k \in 0..Top |-> f[k]]
    BY <1>7
  <2> QED
    BY <2>1, <2>2
<1> DEFINE t == CHOOSE g : Rec(g)
           c == add(a, b)
<1>10. c = [k \in 0..Top |-> t[k] % Base]
    BY DEF add
<1>11. Rec(t)
  <2> HIDE DEF Rec
  <2> QED
    BY <1>9
<1> HIDE DEF t, c
<1>12. \A k \in 0..Top :
          t[k] = a[k] + b[k] + IF k > 0 /\ t[k - 1] > Base - 1 THEN 1 ELSE 0
    BY <1>11
<1> HIDE DEF Rec
<1> DEFINE carry(k) == IF t[k] > Base - 1 THEN 1 ELSE 0
<1>13. ASSUME NEW k \in 0..Top
       PROVE  /\ t[k] \in Nat /\ carry(k) \in {0, 1}
              /\ c[k] = t[k] - carry(k) * Base /\ c[k] \in 0..Base-1
  <2>1. t[k] \in 0..2*Base-1
    BY <1>1, <1>12
  <2>2. c[k] = t[k] % Base
    BY <1>10
  <2>3. CASE t[k] > Base - 1
    <3>1. t[k] = Base * 1 + (t[k] - Base) /\ t[k] - Base \in 0..Base-1 /\ t[k] \in Int
        BY <2>1, <2>3
    <3>2. t[k] % Base = t[k] - Base
        BY <3>1, DivMod, Base \in Nat \ {0}, 1 \in Int, ZenonT(60)
    <3> QED
        BY <2>1, <2>2, <2>3, <3>1, <3>2
  <2>4. CASE ~(t[k] > Base - 1)
    <3>1. t[k] = Base * 0 + t[k] /\ t[k] \in 0..Base-1 /\ t[k] \in Int
        BY <2>1, <2>4
    <3>2. t[k] % Base = t[k]
        BY <3>1, DivMod, Base \in Nat \ {0}, 0 \in Int
    <3> QED
        BY <2>1, <2>2, <2>4, <3>1, <3>2
  <2> QED
    BY <2>3, <2>4
<1>14. c \in u256
    BY <1>10, <1>13 DEF u256, Limb
<1>15. /\ t[0] = a[0] + b[0]
       /\ \A k \in 1..Top : t[k] = a[k] + b[k] + carry(k - 1)
    BY <1>1, <1>12
<1> HIDE DEF carry
<1>16. PICK s : Prefixes(a, s)
    BY ValueHasPrefixes
<1>17. PICK r : Prefixes(b, r)
    BY ValueHasPrefixes
<1>18. PICK u : Prefixes(c, u)
    BY <1>14, ValueHasPrefixes
<1>19. /\ s[0] = a[0] /\ r[0] = b[0] /\ u[0] = c[0]
       /\ \A j \in 1..Top : /\ s[j] = s[j - 1] + a[j] * Weight[j]
                            /\ r[j] = r[j - 1] + b[j] * Weight[j]
                            /\ u[j] = u[j - 1] + c[j] * Weight[j]
       /\ \A j \in 0..Top : /\ s[j] \in 0..Weight[j + 1]-1
                            /\ r[j] \in 0..Weight[j + 1]-1
                            /\ u[j] \in 0..Weight[j + 1]-1
       /\ Value(a) = s[Top] /\ Value(b) = r[Top] /\ Value(c) = u[Top]
    BY <1>16, <1>17, <1>18 DEF Prefixes
<1>20. ASSUME NEW j \in 0..Top
       PROVE  /\ Weight[j] \in Nat /\ Weight[j + 1] \in Nat
              /\ Weight[j + 1] = Base * Weight[j]
              /\ s[j] \in Nat /\ r[j] \in Nat /\ u[j] \in Nat
  <2>1. j \in 0..Top+1 /\ j + 1 \in 1..Top+1 /\ j + 1 \in 0..Top+1 /\ (j + 1) - 1 = j
    OBVIOUS
  <2>2. /\ Weight[j] \in Nat /\ Weight[j + 1] \in Nat
        /\ Weight[j + 1] = Base * Weight[j]
    BY <2>1, Weights
  <2> QED
    BY <2>2, <1>19
<1> DEFINE P == {k \in 0..Top : u[k] + carry(k) * Weight[k + 1] = s[k] + r[k]}
<1>21. 0 \in P
  <2>1. Weight[0] = 1 /\ Weight[0 + 1] = Base * Weight[0] /\ 0 \in 0..Top
    BY <1>20, Weights
  <2>2. Weight[0 + 1] = Base
    BY <2>1
  <2>a. carry(0) \in {0, 1} /\ c[0] = t[0] - carry(0) * Base /\ c[0] \in 0..Base-1
    BY <2>1, <1>13
  <2>3. c[0] = a[0] + b[0] - carry(0) * Base /\ carry(0) \in {0, 1} /\ c[0] \in 0..Base-1
    <3>1. a[0] \in Nat /\ b[0] \in Nat /\ carry(0) * Base \in Nat
        BY <2>1, <2>a, <1>1
    <3> QED
        BY <3>1, <2>a, <1>15
  <2>4. a[0] \in 0..Base-1 /\ b[0] \in 0..Base-1
    BY <2>1, <1>1
  <2> QED
    BY <2>1, <2>2, <2>3, <2>4, <1>19
<1>22. ASSUME NEW k \in 1..Top, k - 1 \in P PROVE k \in P
  <2>0. (k - 1) + 1 = k /\ k \in 0..Top /\ k - 1 \in 0..Top
    OBVIOUS
  <2>a. u[k - 1] + carry(k - 1) * Weight[(k - 1) + 1] = s[k - 1] + r[k - 1]
    BY <1>22
  <2> DEFINE w == Weight[k]
             low == carry(k - 1)
             o == carry(k)
             x == a[k]
             y == b[k]
             z == c[k]
  <2>1. u[k - 1] + low * w = s[k - 1] + r[k - 1]
    BY <2>0, <2>a
  <2>2. /\ w \in Nat /\ Weight[k + 1] = Base * w
        /\ u[k - 1] \in Nat /\ s[k - 1] \in Nat /\ r[k - 1] \in Nat
    BY <2>0, <1>20
  <2>3. /\ low \in {0, 1} /\ o \in {0, 1} /\ x \in Nat /\ y \in Nat /\ z \in Nat
        /\ z = x + y + low - o * Base
    BY <2>0, <1>1, <1>13, <1>15
  <2>4. s[k] = s[k - 1] + x * w /\ r[k] = r[k - 1] + y * w /\ u[k] = u[k - 1] + z * w
    BY <1>19
  <2> HIDE DEF w, low, o, x, y, z
  <2>5. z * w = x * w + y * w + low * w - o * (Base * w)
    <3>1. CASE o = 0
      <4>1. z = x + y + low
        BY <2>3, <3>1
      <4> QED
        BY <4>1, <2>2, <2>3, <3>1
    <3>2. CASE o = 1
      <4>1. z + Base = x + y + low
        BY <2>3, <3>2
      <4>2. z * w + Base * w = (x + y + low) * w
        BY <4>1, <2>2, <2>3
      <4> QED
        BY <4>2, <2>2, <2>3, <3>2
    <3> QED
        BY <2>3, <3>1, <3>2
  <2> DEFINE xw == x * w
             yw == y * w
             zw == z * w
             pw == low * w
             ow == o * (Base * w)
  <2>6. xw \in Int /\ yw \in Int /\ zw \in Int /\ pw \in Int /\ ow \in Int
    <3>1. \A m, n \in Nat : m * n \in Int
        OBVIOUS
    <3>2. Base * w \in Nat /\ o \in Nat /\ low \in Nat
        BY <2>2, <2>3
    <3> QED
        BY <3>1, <3>2, <2>2, <2>3
  <2>7. zw = xw + yw + pw - ow /\ u[k - 1] + pw = s[k - 1] + r[k - 1]
    BY <2>1, <2>5
  <2>8. s[k] = s[k - 1] + xw /\ r[k] = r[k - 1] + yw /\ u[k] = u[k - 1] + zw
    BY <2>4
  <2>9. ow = carry(k) * Weight[k + 1]
    BY <2>2 DEF o
  <2> HIDE DEF xw, yw, zw, pw, ow
  <2>10. u[k] + ow = s[k] + r[k]
    <3>1. u[k - 1] \in Nat /\ s[k - 1] \in Nat /\ r[k - 1] \in Nat
        BY <2>2
    <3>2. u[k] + ow = u[k - 1] + xw + yw + pw
        BY ONLY <3>1, <2>6, <2>7, <2>8
    <3>3. s[k] + r[k] = s[k - 1] + r[k - 1] + xw + yw
        BY ONLY <3>1, <2>6, <2>8
    <3> QED
        BY ONLY <3>1, <3>2, <3>3, <2>6, <2>7
  <2>11. u[k] + carry(k) * Weight[k + 1] = s[k] + r[k]
    BY <2>9, <2>10
  <2> QED
    BY <2>0, <2>11
<1> HIDE DEF P
<1>23. \A k \in 0..Top : k \in P
    BY ONLY <1>2, <1>21, <1>22, UpTo
<1>24. u[Top] + carry(Top) * Weight[Top + 1] = s[Top] + r[Top]
    BY <1>23 DEF P
<1>25. carry(Top) = 0
  <2>1. Top \in 0..Top
    OBVIOUS
  <2>2. /\ carry(Top) \in {0, 1} /\ Weight[Top + 1] \in Nat
        /\ u[Top] \in Nat /\ s[Top] + r[Top] < Weight[Top + 1]
        /\ s[Top] \in Nat /\ r[Top] \in Nat
    BY <2>1, <1>13, <1>19, <1>20
  <2> QED
    BY <2>2, <1>24
<1>26. Value(c) = Value(a) + Value(b)
    BY <1>19, <1>20, <1>24, <1>25, Top \in 0..Top
<1> QED
    BY <1>14, <1>26 DEF c

\* sub() of a number that is not the greater one: no borrow is lost while no
\* limb that can receive one is full.
LEMMA SubtractsDown ==
    ASSUME NEW a \in u256, NEW b \in u256, Value(a) >= Value(b), NoFullLimb(b)
    PROVE  Value(sub(a, b)) = Value(a) - Value(b)
<1> USE LimbAssumption
<1> DEFINE Rec(f) == f = [k \in 0..Top |->
                (b[k] + IF k > 0 /\ a[k - 1] < f[k - 1] THEN 1 ELSE 0) % Base]
           G == [k \in 1..Top |-> [x \in Limb |->
                (b[k] + IF a[k - 1] < x THEN 1 ELSE 0) % Base]]
           c0 == b[0]
<1>1. ASSUME NEW k \in 0..Top PROVE a[k] \in 0..Base-1 /\ b[k] \in 0..Base-1
    BY DEF u256, Limb
<1>2. c0 \in Limb /\ Top \in Nat
    BY <1>1, 0 \in 0..Top DEF Limb
<1>a. \A n \in Nat : n % Base \in 0..Base-1 /\ (n < Base => n % Base = n)
    OBVIOUS
<1>3. \A k \in 1..Top : \A x \in Limb :
          (b[k] + IF a[k - 1] < x THEN 1 ELSE 0) % Base \in Limb
    BY <1>1, <1>a DEF Limb
<1>4. G \in [1..Top -> [Limb -> Limb]]
    BY <1>3
<1>5. \A k \in 1..Top : \A x \in Limb :
          G[k][x] = (b[k] + IF a[k - 1] < x THEN 1 ELSE 0) % Base
    OBVIOUS
<1> HIDE DEF G, c0
<1>6. PICK f : Steps(Top, Limb, c0, G, f)
    BY ONLY <1>2, <1>4, StepsExist
<1>7. f \in [0..Top -> Limb] /\ f[0] = c0 /\ \A k \in 1..Top : f[k] = G[k][f[k - 1]]
    BY <1>6 DEF Steps
<1>8. ASSUME NEW k \in 1..Top
      PROVE  f[k] = (b[k] + IF a[k - 1] < f[k - 1] THEN 1 ELSE 0) % Base
  <2>1. k - 1 \in 0..Top
    OBVIOUS
  <2>2. f[k - 1] \in Limb
    BY <2>1, <1>7
  <2> QED
    BY <2>2, <1>5, <1>7
<1>9. Rec(f)
  <2>1. ASSUME NEW k \in 0..Top
        PROVE  f[k] = (b[k] + IF k > 0 /\ a[k - 1] < f[k - 1] THEN 1 ELSE 0) % Base
    <3>1. CASE k = 0
      <4>1. b[0] + 0 = b[0] /\ b[0] % Base = b[0]
        BY <1>1, <1>a, 0 \in 0..Top
      <4> QED
        BY <3>1, <4>1, <1>7 DEF c0
    <3>2. CASE k # 0
        BY <3>2, <1>8
    <3> QED
        BY <3>1, <3>2
  <2>2. f = [k \in 0..Top |-> f[k]]
    BY <1>7
  <2> QED
    BY <2>1, <2>2
<1> DEFINE v == CHOOSE g : Rec(g)
           c == sub(a, b)
<1>10. c = [k \in 0..Top |-> (a[k] - v[k]) % Base]
    BY DEF sub
<1>11. Rec(v)
  <2> HIDE DEF Rec
  <2> QED
    BY <1>9
<1> HIDE DEF v, c
<1>12. \A k \in 0..Top :
          v[k] = (b[k] + IF k > 0 /\ a[k - 1] < v[k - 1] THEN 1 ELSE 0) % Base
    BY <1>11
<1> HIDE DEF Rec
<1> DEFINE borrow(k) == IF a[k] < v[k] THEN 1 ELSE 0
<1>13. ASSUME NEW k \in 0..Top
       PROVE  /\ v[k] \in 0..Base-1 /\ borrow(k) \in {0, 1}
              /\ c[k] = a[k] - v[k] + borrow(k) * Base /\ c[k] \in 0..Base-1
  <2>0. a[k] \in 0..Base-1 /\ b[k] \in 0..Base-1
    BY <1>1
  <2>1. v[k] \in 0..Base-1
    BY <2>0, <1>a, <1>12
  <2>2. c[k] = (a[k] - v[k]) % Base
    BY <1>10
  <2>3. CASE a[k] < v[k]
    <3> DEFINE n == a[k] - v[k]
               m == -1
               e == n + Base
    <3>1. n \in Int /\ m \in Int /\ e \in 0..Base-1 /\ n = Base * m + e /\ Base \in Nat \ {0}
        BY <2>0, <2>1, <2>3
    <3> HIDE DEF n, m, e
    <3>a. n % Base = e
        BY ONLY <3>1, DivMod
    <3>2. (a[k] - v[k]) % Base = a[k] - v[k] + Base
        BY <3>a DEF n, e
    <3> QED
        BY <2>0, <2>1, <2>2, <2>3, <3>2
  <2>4. CASE ~(a[k] < v[k])
    <3>1. a[k] - v[k] \in Nat /\ a[k] - v[k] < Base
        BY <2>0, <2>1, <2>4
    <3>2. (a[k] - v[k]) % Base = a[k] - v[k]
        BY <3>1, <1>a
    <3> QED
        BY <2>0, <2>1, <2>2, <2>4, <3>1, <3>2
  <2> QED
    BY <2>3, <2>4
<1>14. c \in u256
    BY <1>10, <1>13 DEF u256, Limb
\* The highest limb may be full, the others are not when a borrow comes.
<1>15. /\ v[0] = b[0]
       /\ \A k \in 1..Top-1 : v[k] = b[k] + borrow(k - 1)
       /\ \/ v[Top] = b[Top] + borrow(Top - 1)
          \/ b[Top] + borrow(Top - 1) = Base
  <2>1. v[0] = b[0]
    <3>1. b[0] \in 0..Base-1 /\ v[0] = (b[0] + 0) % Base
        BY <1>1, <1>12, 0 \in 0..Top
    <3> QED
        BY <3>1, <1>a
  <2>2. ASSUME NEW k \in 1..Top
        PROVE  /\ v[k] = (b[k] + borrow(k - 1)) % Base
               /\ b[k] \in 0..Base-1 /\ borrow(k - 1) \in {0, 1}
    <3>1. k \in 0..Top /\ k - 1 \in 0..Top /\ k > 0
        OBVIOUS
    <3> QED
        BY <3>1, <1>1, <1>12
  <2>3. ASSUME NEW k \in 1..Top-1 PROVE v[k] = b[k] + borrow(k - 1)
    <3>1. b[k] # Base - 1
        BY DEF NoFullLimb
    <3>a. b[k] \in 0..Base-1 /\ borrow(k - 1) \in {0, 1}
        BY <2>2, k \in 1..Top
    <3>2. b[k] + borrow(k - 1) \in Nat /\ b[k] + borrow(k - 1) < Base
        BY ONLY <3>a, <3>1, LimbAssumption
    <3> QED
        BY <2>2, <3>2, <1>a
  <2>4. \/ v[Top] = b[Top] + borrow(Top - 1)
        \/ b[Top] + borrow(Top - 1) = Base
    <3>1. Top \in 1..Top
        OBVIOUS
    <3>2. b[Top] + borrow(Top - 1) \in Nat /\ b[Top] + borrow(Top - 1) <= Base
        BY <2>2, <3>1
    <3> QED
        BY <2>2, <3>1, <3>2, <1>a
  <2> QED
    BY <2>1, <2>3, <2>4
<1>b. \A k \in 0..Top : borrow(k) \in {0, 1} /\ (borrow(k) = 1 <=> a[k] < v[k])
    OBVIOUS
<1> HIDE DEF borrow
<1>16. PICK s : Prefixes(a, s)
    BY ValueHasPrefixes
<1>17. PICK r : Prefixes(b, r)
    BY ValueHasPrefixes
<1>18. PICK u : Prefixes(c, u)
    BY <1>14, ValueHasPrefixes
<1>19. /\ s[0] = a[0] /\ r[0] = b[0] /\ u[0] = c[0]
       /\ \A j \in 1..Top : /\ s[j] = s[j - 1] + a[j] * Weight[j]
                            /\ r[j] = r[j - 1] + b[j] * Weight[j]
                            /\ u[j] = u[j - 1] + c[j] * Weight[j]
       /\ \A j \in 0..Top : /\ s[j] \in 0..Weight[j + 1]-1
                            /\ r[j] \in 0..Weight[j + 1]-1
                            /\ u[j] \in 0..Weight[j + 1]-1
       /\ Value(a) = s[Top] /\ Value(b) = r[Top] /\ Value(c) = u[Top]
    BY <1>16, <1>17, <1>18 DEF Prefixes
<1>20. ASSUME NEW j \in 0..Top
       PROVE  /\ Weight[j] \in Nat /\ Weight[j + 1] \in Nat
              /\ Weight[j + 1] = Base * Weight[j]
              /\ s[j] \in Nat /\ r[j] \in Nat /\ u[j] \in Nat
  <2>1. j \in 0..Top+1 /\ j + 1 \in 1..Top+1 /\ j + 1 \in 0..Top+1 /\ (j + 1) - 1 = j
    OBVIOUS
  <2>2. /\ Weight[j] \in Nat /\ Weight[j + 1] \in Nat
        /\ Weight[j + 1] = Base * Weight[j]
    BY <2>1, Weights
  <2> QED
    BY <2>2, <1>19
\* One more limb: what is borrowed from it was lent to the limbs below.
<1>c. ASSUME NEW k \in 1..Top, v[k] = b[k] + borrow(k - 1),
             u[k - 1] = s[k - 1] - r[k - 1] + borrow(k - 1) * Weight[k]
      PROVE  u[k] = s[k] - r[k] + borrow(k) * Weight[k + 1]
  <2>0. k \in 0..Top /\ k - 1 \in 0..Top
    OBVIOUS
  <2> DEFINE w == Weight[k]
             low == borrow(k - 1)
             o == borrow(k)
             x == a[k]
             y == b[k]
             z == c[k]
  <2>1. u[k - 1] = s[k - 1] - r[k - 1] + low * w
    BY <1>c
  <2>2. /\ w \in Nat /\ Weight[k + 1] = Base * w
        /\ u[k - 1] \in Nat /\ s[k - 1] \in Nat /\ r[k - 1] \in Nat
    BY <2>0, <1>20
  <2>a. low \in {0, 1} /\ o \in {0, 1} /\ x \in Nat /\ y \in Nat /\ z \in Nat
    BY <2>0, <1>1, <1>13
  <2>b. z = x - (y + low) + o * Base
    BY <2>0, <1>13, <1>c
  <2>3. z + y + low = x + o * Base
    BY <2>a, <2>b
  <2>4. s[k] = s[k - 1] + x * w /\ r[k] = r[k - 1] + y * w /\ u[k] = u[k - 1] + z * w
    BY <1>19
  <2> HIDE DEF w, low, o, x, y, z
  <2> DEFINE xw == x * w
             yw == y * w
             zw == z * w
             pw == low * w
             ow == o * (Base * w)
  <2>5. zw + yw + pw = xw + ow
    <3>1. (z + y + low) * w = zw + yw + pw
        BY <2>2, <2>a
    <3>2. CASE o = 0
      <4>1. z + y + low = x
        BY <2>3, <2>a, <3>2
      <4> QED
        BY <4>1, <3>1, <3>2, <2>2, <2>a
    <3>3. CASE o = 1
      <4>1. z + y + low = x + Base
        BY <2>3, <2>a, <3>3
      <4>2. (x + Base) * w = xw + Base * w
        BY <2>2, <2>a
      <4> QED
        BY <4>1, <4>2, <3>1, <3>3, <2>2, <2>a
    <3> QED
        BY <2>a, <3>2, <3>3
  <2>6. xw \in Int /\ yw \in Int /\ zw \in Int /\ pw \in Int /\ ow \in Int
    <3>1. \A m, n \in Nat : m * n \in Int
        OBVIOUS
    <3>2. Base * w \in Nat /\ o \in Nat /\ low \in Nat
        BY <2>2, <2>a
    <3> QED
        BY <3>1, <3>2, <2>2, <2>a
  <2>7. u[k - 1] = s[k - 1] - r[k - 1] + pw
    BY <2>1
  <2>8. s[k] = s[k - 1] + xw /\ r[k] = r[k - 1] + yw /\ u[k] = u[k - 1] + zw
    BY <2>4
  <2>9. ow = borrow(k) * Weight[k + 1]
    BY <2>2 DEF o
  <2>10. u[k - 1] \in Nat /\ s[k - 1] \in Nat /\ r[k - 1] \in Nat
    BY <2>2
  <2> HIDE DEF xw, yw, zw, pw, ow
  <2>11. u[k] = s[k] - r[k] + ow
    BY ONLY <2>5, <2>6, <2>7, <2>8, <2>10
  <2> QED
    BY ONLY <2>9, <2>11
<1> DEFINE P == {k \in 0..Top-1 : u[k] = s[k] - r[k] + borrow(k) * Weight[k + 1]}
<1>21. 0 \in P
  <2>0. 0 \in 0..Top /\ 0 \in 0..Top-1
    OBVIOUS
  <2>1. Weight[0] = 1 /\ Weight[0 + 1] = Base * Weight[0]
    BY <2>0, <1>20, Weights
  <2>2. Weight[0 + 1] = Base
    BY <2>1
  <2>3. c[0] = a[0] - v[0] + borrow(0) * Base /\ borrow(0) \in {0, 1}
    BY <2>0, <1>13
  <2>4. v[0] = b[0] /\ u[0] = c[0] /\ s[0] = a[0] /\ r[0] = b[0]
    BY <1>15, <1>19
  <2>5. u[0] = s[0] - r[0] + borrow(0) * Weight[0 + 1]
    BY <2>2, <2>3, <2>4
  <2> QED
    BY <2>0, <2>5
<1>22. ASSUME NEW k \in 1..Top-1, k - 1 \in P PROVE k \in P
  <2>0. (k - 1) + 1 = k /\ k \in 1..Top /\ k \in 0..Top-1
    OBVIOUS
  <2>1. u[k - 1] = s[k - 1] - r[k - 1] + borrow(k - 1) * Weight[(k - 1) + 1]
    BY <1>22
  <2>2. u[k - 1] = s[k - 1] - r[k - 1] + borrow(k - 1) * Weight[k]
    BY <2>0, <2>1
  <2>3. v[k] = b[k] + borrow(k - 1)
    BY <1>15
  <2>4. u[k] = s[k] - r[k] + borrow(k) * Weight[k + 1]
    BY ONLY <2>0, <2>2, <2>3, <1>c
  <2> QED
    BY <2>0, <2>4
<1> HIDE DEF P
<1>23. Top - 1 \in Nat
    OBVIOUS
<1>24. \A k \in 0..Top-1 : k \in P
    BY ONLY <1>21, <1>22, <1>23, UpTo
<1> DEFINE l == Top - 1
<1>25. l \in 0..Top-1 /\ l \in 0..Top /\ l + 1 = Top /\ Top \in 1..Top /\ Top \in 0..Top
    OBVIOUS
<1> HIDE DEF l
<1>26. u[l] = s[l] - r[l] + borrow(l) * Weight[Top]
  <2>1. u[l] = s[l] - r[l] + borrow(l) * Weight[l + 1]
    BY <1>24, <1>25 DEF P
  <2> QED
    BY <2>1, <1>25
<1> DEFINE w == Weight[Top]
           x == a[Top]
           y == b[Top]
           low == borrow(l)
           xw == x * w
           yw == y * w
           pw == low * w
<1>27. /\ w \in Nat /\ x \in 0..Base-1 /\ y \in 0..Base-1 /\ low \in {0, 1}
       /\ u[l] \in 0..w-1 /\ s[l] \in Nat /\ r[l] \in Nat
  <2>1. u[l] \in 0..Weight[l + 1]-1
    BY <1>19, <1>25
  <2>2. w \in Nat /\ s[l] \in Nat /\ r[l] \in Nat
    BY <1>20, <1>25
  <2>3. x \in 0..Base-1 /\ y \in 0..Base-1 /\ low \in {0, 1}
    BY <1>1, <1>13, <1>25
  <2> QED
    BY <2>1, <2>2, <2>3, <1>25
<1>28. /\ s[Top] = s[l] + xw /\ r[Top] = r[l] + yw /\ s[Top] >= r[Top]
       /\ u[l] = s[l] - r[l] + pw
  <2>1. s[Top] = s[Top - 1] + a[Top] * Weight[Top] /\ r[Top] = r[Top - 1] + b[Top] * Weight[Top]
    BY <1>19, <1>25
  <2> QED
    BY <2>1, <1>19, <1>26 DEF l
<1> HIDE DEF w, x, y, low
<1>29. x >= y + low
  <2> SUFFICES ASSUME x < y + low PROVE FALSE
    BY <1>27
  <2> DEFINE d == y + low - x - 1
  <2>1. d \in Nat /\ y + low = x + 1 + d
    BY <1>27
  <2> HIDE DEF d
  <2>2. (y + low) * w = yw + pw /\ (x + 1 + d) * w = xw + w + d * w
    BY <1>27, <2>1
  <2>3. d * w \in Nat /\ xw \in Nat /\ yw \in Nat /\ pw \in Nat
    BY <1>27, <2>1
  <2>4. yw + pw = xw + w + d * w
    BY <2>1, <2>2
  <2> DEFINE dw == d * w
  <2> HIDE DEF xw, yw, pw, dw
  <2>5. /\ dw \in Nat /\ xw \in Nat /\ yw \in Nat /\ pw \in Nat
        /\ yw + pw = xw + w + dw
    BY <2>3, <2>4 DEF dw
  <2> QED
    BY ONLY <2>5, <1>27, <1>28
<1>30. v[Top] = y + low
  <2>1. y + low # Base
    BY <1>27, <1>29
  <2> QED
    BY <2>1, <1>15 DEF y, low, l
<1>31. borrow(Top) = 0
    BY <1>b, <1>25, <1>27, <1>29, <1>30 DEF x
<1>32. u[Top] = s[Top] - r[Top] + borrow(Top) * Weight[Top + 1]
  <2>1. v[Top] = b[Top] + borrow(Top - 1)
    BY <1>30 DEF y, low, l
  <2>2. u[Top - 1] = s[Top - 1] - r[Top - 1] + borrow(Top - 1) * Weight[Top]
    BY <1>26 DEF l
  <2> QED
    BY ONLY <2>1, <2>2, <1>25, <1>c
<1>33. Value(c) = Value(a) - Value(b)
    BY <1>19, <1>20, <1>25, <1>31, <1>32
<1> QED
    BY <1>33 DEF c

\* Every message fits into the limbs: it is less than the number of sets.
LEMMA MessageFits ==
    ASSUME IInv, i = 1, q = 1
    PROVE  msg \in Nat /\ msg < Weight[Top + 1]
<1> USE SizeAssumption
<1> DEFINE n == k2sn_t - 1
           A == Choices(n, tb2)
           B == Choices(n, tb2 - 1)
<1>1. /\ n \in Cells /\ n \in 0..k2sn_t /\ tb2 \in Cols /\ tb2 - 1 \in Cols
      /\ k2sn_t \in 1..k2sn_t /\ tb2 \in Nat \ {0} /\ k2sn_t - k2sn_t = 0
    BY DEF Cells, Cols
<1>2. row = k2sn_t /\ TypeOK /\ Table
    BY DEF IInv, Found
<1>3. msg < binoTab[n][tb2 - 1] + binoTab[n][tb2]
    BY DEF IInv, Left, Running
<1>4. Cardinality(A) = binoTab[n][tb2] /\ Cardinality(B) = binoTab[n][tb2 - 1]
    BY <1>1, <1>2, TableCounts
<1>5. KeySets = Choices(k2sn_t, tb2)
  <2>1. Last(k2sn_t) = 0..k2sn_t-1
    BY DEF Last
  <2> QED
    BY <2>1 DEF KeySets, Choices
<1>6. KeySets = A \cup Extended({0}, B) /\ A \cap Extended({0}, B) = {}
    BY <1>1, <1>5, ChoicesSplit
<1>7. IsFiniteSet(A) /\ IsFiniteSet(B)
    BY <1>1, LastFinite
<1>8. Without({0}, B)
    BY <1>1, <1>7 DEF Choices, Last, Without
<1> HIDE DEF A, B
<1>9. IsFiniteSet(Extended({0}, B)) /\ Cardinality(Extended({0}, B)) = Cardinality(B)
    BY <1>8, ExtendedCount
<1>10. Cardinality(A \cup Extended({0}, B))
         = Cardinality(A) + Cardinality(Extended({0}, B)) - Cardinality({})
    BY <1>6, <1>7, <1>9, FS_Union
<1>11. Cardinality(A) \in Nat /\ Cardinality(B) \in Nat
    BY <1>7, FS_CardinalityType
<1>12. Cardinality(KeySets) = Cardinality(A) + Cardinality(B)
    BY <1>6, <1>9, <1>10, <1>11, FS_EmptySet
<1>13. Weight[Top + 1] \in Nat /\ Cardinality(KeySets) <= Weight[Top + 1]
    BY LimbAssumption, Weights
<1>14. msg \in Nat
    BY <1>2 DEF TypeOK
<1> QED
    BY <1>3, <1>4, <1>11, <1>12, <1>13, <1>14

\* For every base and number of limbs that hold the messages, the long numbers
\* of cff() are exact: isgteq() decides between a message and any cell, sub()
\* of a cell takes it off although a borrow into a full limb would be lost, and
\* add() of a cell and any number that fits is their sum.
THEOREM LongNumbersExact == Spec => []LimbsExact
<1>1. IInv => LimbsExact
  <2> SUFFICES ASSUME IInv PROVE LimbsExact
    OBVIOUS
  <2>1. ASSUME i = 1, q = 1, NEW b \in u256
        PROVE  /\ isgteq(Limbs(msg), b) <=> msg >= Value(b)
               /\ isgteq(Limbs(msg), b) /\ NoFullLimb(b) =>
                    Value(sub(Limbs(msg), b)) = msg - Value(b)
    <3>1. Limbs(msg) \in u256 /\ Value(Limbs(msg)) = msg
        BY <2>1, MessageFits, LimbsStand
    <3>2. isgteq(Limbs(msg), b) <=> msg >= Value(b)
        BY <3>1, Compares
    <3>3. ASSUME isgteq(Limbs(msg), b), NoFullLimb(b)
          PROVE  Value(sub(Limbs(msg), b)) = msg - Value(b)
      <4> DEFINE a == Limbs(msg)
      <4>1. a \in u256 /\ Value(a) >= Value(b)
        BY <3>1, <3>2, <3>3
      <4> HIDE DEF a
      <4>2. Value(sub(a, b)) = Value(a) - Value(b)
        BY ONLY <4>1, <3>3, b \in u256, SubtractsDown
      <4> QED
        BY <4>2, <3>1 DEF a
    <3> QED
        BY <3>2, <3>3
  <2>2. ASSUME NEW n \in 0..k2sn_t-1, NEW m \in 0..tb2, NEW b \in u256,
               binoTab[n][m] + Value(b) < Weight[Top + 1]
        PROVE  Value(add(Limbs(binoTab[n][m]), b)) = binoTab[n][m] + Value(b)
    <3> DEFINE x == binoTab[n][m]
    <3>1. x \in Nat
        BY Types, CellsAreNat DEF IInv, Cells, Cols
    <3>2. Value(b) \in Nat /\ Weight[Top + 1] \in Nat /\ x + Value(b) < Weight[Top + 1]
      <4>1. PICK s : Prefixes(b, s)
        BY ValueHasPrefixes
      <4>2. Top + 1 \in 0..Top+1 /\ Top \in 0..Top
        BY LimbAssumption
      <4>3. Weight[Top + 1] \in Nat /\ Value(b) \in 0..Weight[Top + 1]-1
        BY <4>1, <4>2, Weights DEF Prefixes
      <4> QED
        BY <4>3, <2>2
    <3> HIDE DEF x
    <3> DEFINE a == Limbs(x)
    <3>3. a \in u256 /\ Value(a) = x
        BY <3>1, <3>2, LimbsStand
    <3> HIDE DEF a
    <3>4. Value(add(a, b)) = x + Value(b)
        BY <3>2, <3>3, AddsUp
    <3> QED
        BY <3>4 DEF a, x
  <2> QED
    BY <2>1, <2>2 DEF LimbsExact
<1> QED
    BY <1>1, InitEstablishes, StepKeeps, PTL DEF Spec

-----------------------------------------------------------------------------
(* Powers of two *)

\* The powers up to n.
Doubled(n, f) ==
    f \in [0..n -> Nat] /\ f[0] = 1 /\ \A k \in 1..n : f[k] = 2 * f[k - 1]

LEMMA DoubledExists ==
    ASSUME NEW n \in Nat
    PROVE  \E f : Doubled(n, f)
<1> DEFINE G == [k \in 1..n |-> [x \in Nat |-> 2 * x]]
<1>1. 1 \in Nat /\ G \in [1..n -> [Nat -> Nat]]
    OBVIOUS
<1>2. \A k \in 1..n : \A x \in Nat : G[k][x] = 2 * x
    OBVIOUS
<1> HIDE DEF G
<1>3. PICK f : Steps(n, Nat, 1, G, f)
    BY ONLY <1>1, StepsExist, n \in Nat
<1>4. f \in [0..n -> Nat] /\ f[0] = 1 /\ \A k \in 1..n : f[k] = G[k][f[k - 1]]
    BY <1>3 DEF Steps
<1>5. ASSUME NEW k \in 1..n PROVE f[k] = 2 * f[k - 1]
  <2>1. k - 1 \in 0..n
    OBVIOUS
  <2>2. f[k - 1] \in Nat
    BY <2>1, <1>4
  <2> QED
    BY <2>2, <1>2, <1>4
<1>6. Doubled(n, f)
    BY <1>4, <1>5 DEF Doubled
<1> QED
    BY <1>6

LEMMA DoubledAgree ==
    ASSUME NEW m \in Nat, NEW n \in Nat, m <= n, NEW f, NEW g,
           Doubled(m, f), Doubled(n, g)
    PROVE  f[m] = g[m]
<1> DEFINE P == {k \in 0..m : f[k] = g[k]}
<1>1. 0 \in P
    BY DEF Doubled
<1>2. ASSUME NEW k \in 1..m, k - 1 \in P PROVE k \in P
    BY <1>2 DEF Doubled
<1> HIDE DEF P
<1>3. \A k \in 0..m : k \in P
    BY ONLY <1>1, <1>2, UpTo, m \in Nat
<1> QED
    BY <1>3 DEF P

LEMMA Pow2Facts ==
    /\ Pow2[0] = 1
    /\ \A n \in Nat : Pow2[n] \in Nat \ {0} /\ Pow2[n + 1] = 2 * Pow2[n]
<1> DEFINE Rec(f) == f = [n \in Nat |-> IF n = 0 THEN 1 ELSE 2 * f[n - 1]]
           up(n) == CHOOSE f : Doubled(n, f)
           g == [n \in Nat |-> up(n)[n]]
<1>1. \A n \in Nat : Doubled(n, up(n))
    BY DoubledExists
<1> HIDE DEF up
<1>2. g[0] = 1 /\ \A n \in Nat : g[n] \in Nat
    BY <1>1 DEF Doubled
<1>3. ASSUME NEW n \in Nat, n # 0 PROVE g[n] = 2 * g[n - 1]
  <2>1. n - 1 \in Nat /\ n - 1 <= n /\ n \in 1..n
    BY <1>3
  <2>2. Doubled(n, up(n)) /\ Doubled(n - 1, up(n - 1))
    BY <1>1, <2>1
  <2>3. up(n - 1)[n - 1] = up(n)[n - 1]
    BY <2>1, <2>2, DoubledAgree
  <2>4. up(n)[n] = 2 * up(n)[n - 1]
    BY <2>1, <2>2 DEF Doubled
  <2> QED
    BY <2>1, <2>3, <2>4
<1>4. Rec(g)
  <2>1. \A n \in Nat : g[n] = IF n = 0 THEN 1 ELSE 2 * g[n - 1]
    BY <1>2, <1>3
  <2>2. g = [n \in Nat |-> g[n]]
    OBVIOUS
  <2> HIDE DEF g
  <2> QED
    BY <2>1, <2>2
<1>5. Rec(Pow2)
  <2>1. Pow2 = CHOOSE f : Rec(f)
    BY DEF Pow2
  <2> HIDE DEF Rec, g
  <2> QED
    BY <1>4, <2>1
<1>6. Pow2[0] = 1 /\ \A n \in Nat : n # 0 => Pow2[n] = 2 * Pow2[n - 1]
    BY <1>5
<1>7. ASSUME NEW n \in Nat PROVE Pow2[n] \in Nat \ {0}
  <2> DEFINE P == {k \in 0..n : Pow2[k] \in Nat \ {0}}
  <2>1. 0 \in P
    BY <1>6
  <2>2. ASSUME NEW k \in 1..n, k - 1 \in P PROVE k \in P
    <3>1. Pow2[k] = 2 * Pow2[k - 1] /\ Pow2[k - 1] \in Nat \ {0}
        BY <1>6, <2>2
    <3> QED
        BY <3>1
  <2> HIDE DEF P
  <2>3. \A k \in 0..n : k \in P
    BY ONLY <2>1, <2>2, UpTo, n \in Nat
  <2> QED
    BY <2>3 DEF P
<1>8. ASSUME NEW n \in Nat PROVE Pow2[n + 1] = 2 * Pow2[n]
  <2>1. n + 1 \in Nat /\ n + 1 # 0 /\ (n + 1) - 1 = n
    OBVIOUS
  <2> QED
    BY <2>1, <1>6
<1> QED
    BY <1>6, <1>7, <1>8

\* Exponents add up, and a higher power is a multiple of a lower one.
LEMMA Pow2Add ==
    ASSUME NEW m \in Nat, NEW n \in Nat
    PROVE  Pow2[m + n] = Pow2[m] * Pow2[n]
<1> DEFINE P == {k \in 0..n : Pow2[m + k] = Pow2[m] * Pow2[k]}
<1>1. 0 \in P
  <2>1. Pow2[m] \in Nat /\ Pow2[0] = 1
    BY Pow2Facts
  <2> QED
    BY <2>1
<1>2. ASSUME NEW k \in 1..n, k - 1 \in P PROVE k \in P
  <2>1. k - 1 \in Nat /\ m + (k - 1) \in Nat /\ (k - 1) + 1 = k /\ (m + (k - 1)) + 1 = m + k
    OBVIOUS
  <2>2. Pow2[k] = 2 * Pow2[k - 1] /\ Pow2[m + k] = 2 * Pow2[m + (k - 1)]
    BY <2>1, Pow2Facts
  <2>3. Pow2[m] \in Nat /\ Pow2[k - 1] \in Nat
    BY <2>1, Pow2Facts
  <2> DEFINE a == Pow2[m]
             b == Pow2[k - 1]
  <2>4. Pow2[m + (k - 1)] = a * b
    BY <1>2
  <2>5. a \in Nat /\ b \in Nat
    BY <2>3
  <2> HIDE DEF a, b
  <2>6. 2 * (a * b) = a * (2 * b)
    BY <2>5
  <2>7. Pow2[m + k] = Pow2[m] * Pow2[k]
    BY <2>2, <2>4, <2>6 DEF a, b
  <2> QED
    BY <2>7
<1> HIDE DEF P
<1>3. \A k \in 0..n : k \in P
    BY ONLY <1>1, <1>2, UpTo, n \in Nat
<1> QED
    BY <1>3 DEF P

\* A larger power is at least twice a smaller one.
LEMMA Pow2Grows ==
    ASSUME NEW m \in Nat, NEW n \in Nat, m < n
    PROVE  2 * Pow2[m] <= Pow2[n]
<1> DEFINE d == n - (m + 1)
<1>1. d \in Nat /\ (m + 1) + d = n /\ m + 1 \in Nat
    OBVIOUS
<1> HIDE DEF d
<1>2. Pow2[n] = Pow2[m + 1] * Pow2[d]
    BY <1>1, Pow2Add
<1>3. Pow2[m + 1] = 2 * Pow2[m] /\ Pow2[m] \in Nat /\ Pow2[d] \in Nat \ {0}
    BY <1>1, Pow2Facts
<1> DEFINE a == 2 * Pow2[m]
           e == Pow2[d] - 1
<1>4. a \in Nat /\ e \in Nat /\ Pow2[d] = e + 1
    BY <1>3
<1> HIDE DEF a, e
<1>5. Pow2[n] = a * (e + 1)
    BY <1>2, <1>3, <1>4 DEF a
<1>6. a * (e + 1) = a * e + a /\ a * e \in Nat
    BY <1>4
<1>7. a <= Pow2[n]
    BY <1>4, <1>5, <1>6
<1> QED
    BY <1>7 DEF a

-----------------------------------------------------------------------------
(* The stacks of the TreeHash instances *)

StackNodes == [key : Int \X Int, height : Nat, indx : Nat]

\* The heights on a stack get smaller towards its top, and are below j.
Falling(st) ==
    /\ st \in Seq(StackNodes)
    /\ \A k, l \in 1..Len(st) : k < l => st[k].height > st[l].height
Below(st, j) == \A k \in 1..Len(st) : st[k].height < j

\* The leaves under the nodes of a stack, from its bottom up to each node.
Leaves(st, s) ==
    /\ s \in [0..Len(st) -> Nat]
    /\ s[0] = 0
    /\ \A k \in 1..Len(st) : s[k] = s[k - 1] + Pow2[st[k].height]

LEMMA LeavesExist ==
    ASSUME NEW st \in Seq(StackNodes)
    PROVE  \E s : Leaves(st, s)
<1> DEFINE n == Len(st)
           G == [k \in 1..n |-> [x \in Nat |-> x + Pow2[st[k].height]]]
<1>1. n \in Nat /\ 0 \in Nat
    OBVIOUS
<1>2. \A k \in 1..n : st[k].height \in Nat
  <2>1. \A k \in 1..n : st[k] \in StackNodes
    OBVIOUS
  <2> QED
    BY <2>1 DEF StackNodes
<1>3. \A k \in 1..n : Pow2[st[k].height] \in Nat
    BY <1>2, Pow2Facts
<1>4. G \in [1..n -> [Nat -> Nat]]
    BY <1>3
<1>5. \A k \in 1..n : \A x \in Nat : G[k][x] = x + Pow2[st[k].height]
    OBVIOUS
<1> HIDE DEF n, G
<1>6. PICK s : Steps(n, Nat, 0, G, s)
    BY ONLY <1>1, <1>4, StepsExist
<1>7. s \in [0..n -> Nat] /\ s[0] = 0 /\ \A k \in 1..n : s[k] = G[k][s[k - 1]]
    BY <1>6 DEF Steps
<1>8. ASSUME NEW k \in 1..n PROVE s[k] = s[k - 1] + Pow2[st[k].height]
  <2>1. k - 1 \in 0..n
    BY <1>1
  <2>2. s[k - 1] \in Nat
    BY <2>1, <1>7
  <2> QED
    BY <2>2, <1>5, <1>7
<1>9. Leaves(st, s)
    BY <1>7, <1>8 DEF Leaves, n
<1> QED
    BY <1>9

\* Fewer leaves than under one node of height j, and at most j nodes.
LEMMA FallingIsSmall ==
    ASSUME NEW j \in Nat, NEW st, Falling(st), Below(st, j), NEW s, Leaves(st, s)
    PROVE  Len(st) <= j /\ s[Len(st)] < Pow2[j]
<1> DEFINE n == Len(st)
<1>1. n \in Nat /\ \A k \in 1..n : st[k].height \in Nat /\ st[k].height < j
  <2>1. n \in Nat /\ \A k \in 1..n : st[k] \in StackNodes
    BY DEF Falling
  <2> QED
    BY <2>1 DEF Below, StackNodes
<1>2. \A k \in 2..n : st[k].height < st[k - 1].height
  <2> TAKE k \in 2..n
  <2>1. k \in 1..n /\ k - 1 \in 1..n /\ k - 1 < k
    BY <1>1
  <2> QED
    BY <2>1 DEF Falling
<1>3. \A k \in 1..n : Pow2[st[k].height] \in Nat \ {0}
    BY <1>1, Pow2Facts
<1>4. Pow2[j] \in Nat \ {0}
    BY Pow2Facts
<1>5. s[0] = 0 /\ \A k \in 1..n : s[k] = s[k - 1] + Pow2[st[k].height]
    BY DEF Leaves
<1> DEFINE P == {k \in 0..n : k = 0 \/ /\ s[k] + Pow2[st[k].height] <= Pow2[j]
                                       /\ s[k] \in Nat
                                       /\ st[k].height <= j - k}
<1> HIDE DEF n
<1>6. 0 \in P
    BY <1>1
<1>7. ASSUME NEW k \in 1..n, k - 1 \in P PROVE k \in P
  <2> DEFINE h == st[k].height
  <2>0. h \in Nat /\ h < j /\ Pow2[h] \in Nat \ {0} /\ s[k] = s[k - 1] + Pow2[h]
    BY <1>1, <1>3, <1>5
  <2>1. CASE k = 1
    <3>1. 2 * Pow2[h] <= Pow2[j]
        BY <2>0, Pow2Grows
    <3>2. s[k] = Pow2[h]
        BY <2>0, <2>1, <1>5
    <3> HIDE DEF h
    <3>3. s[k] + Pow2[h] <= Pow2[j] /\ s[k] \in Nat /\ h <= j - k
        BY <2>0, <2>1, <3>1, <3>2
    <3> QED
        BY <3>3, <1>1 DEF h
  <2>2. CASE k # 1
    <3> DEFINE g == st[k - 1].height
    <3>1. k \in 2..n /\ k - 1 \in 1..n /\ k - 1 # 0
        BY <1>1, <2>2
    <3>2. g \in Nat /\ h < g /\ Pow2[g] \in Nat
        BY <3>1, <1>1, <1>2, <1>3
    <3>3. s[k - 1] + Pow2[g] <= Pow2[j] /\ s[k - 1] \in Nat /\ g <= j - (k - 1)
        BY <3>1, <1>7
    <3>4. 2 * Pow2[h] <= Pow2[g]
        BY <2>0, <3>2, Pow2Grows
    <3> HIDE DEF g, h
    <3>5. s[k] + Pow2[h] <= Pow2[j] /\ s[k] \in Nat /\ h <= j - k
        BY <2>0, <3>1, <3>2, <3>3, <3>4, <1>4
    <3> QED
        BY <3>5, <1>1 DEF h
  <2> QED
    BY <2>1, <2>2
<1> HIDE DEF P
<1>8. \A k \in 0..n : k \in P
    BY ONLY <1>1, <1>6, <1>7, UpTo
<1>9. n = 0 \/ /\ s[n] + Pow2[st[n].height] <= Pow2[j]
               /\ s[n] \in Nat
               /\ st[n].height <= j - n
    BY <1>1, <1>8 DEF P
<1>10. n <= j /\ s[n] < Pow2[j]
  <2>1. CASE n = 0
    BY <2>1, <1>4, <1>5
  <2>2. CASE n # 0
    <3>1. n \in 1..n
        BY <2>2, <1>1
    <3>2. st[n].height \in Nat /\ Pow2[st[n].height] \in Nat \ {0}
        BY <3>1, <1>1, <1>3
    <3> QED
        BY <3>2, <2>2, <1>1, <1>4, <1>9
  <2> QED
    BY <2>1, <2>2
<1> QED
    BY <1>10 DEF n

\* A leaf climbs over the nodes at the top that are as high as it has become:
\* they had the heights 0, 1, 2, ..., and a higher one or none is left.
Climbs(st, path, e, nd) ==
    /\ e \in 0..Len(st) /\ Len(path) = e + 1 /\ path[e + 1] = nd
    /\ nd \in StackNodes /\ nd.height = e
    /\ \A k \in 0..e-1 : st[Len(st) - k].height = k
    /\ e < Len(st) => st[Len(st) - e].height # e

\* Each node on its way is the one before it, merged with the top.
Merges(st, path, e) ==
    \A k \in 1..e :
        path[k] \in StackNodes /\ path[k + 1] = Merge(st[Len(st) - k + 1], path[k])

LEMMA Climbing ==
    ASSUME NEW st \in Seq(StackNodes), NEW nd \in StackNodes, nd.height = 0
    PROVE  /\ Climb(st, nd)[1] = nd
           /\ \E e, x : Climbs(st, Climb(st, nd), e, x) /\ Merges(st, Climb(st, nd), e)
<1> DEFINE n == Len(st)
           Rec(f) == f = [k \in 0..n |-> IF k = 0 THEN nd ELSE Merge(st[n - k + 1], f[k - 1])]
           G == [k \in 1..n |-> [x \in StackNodes |-> Merge(st[n - k + 1], x)]]
<1>1. n \in Nat
    OBVIOUS
<1>2. ASSUME NEW l \in StackNodes, NEW x \in StackNodes
      PROVE  Merge(l, x) \in StackNodes /\ Merge(l, x).height = x.height + 1
  <2>1. x.height \in Nat /\ x.indx \in Nat
    BY DEF StackNodes
  <2>2. x.height + 1 \in Nat /\ x.indx \div 2 \in Nat
    BY <2>1
  <2>3. <<x.height + 1, x.indx \div 2>> \in Int \X Int /\ <<-1, 0>> \in Int \X Int
    BY <2>2
  <2>4. Parent(l.key, x.key, x.height + 1, x.indx \div 2) \in Int \X Int
    BY <2>3 DEF Parent, Junk
  <2> QED
    BY <2>2, <2>4 DEF Merge, StackNode, StackNodes
<1>3. \A k \in 1..n : \A x \in StackNodes : Merge(st[n - k + 1], x) \in StackNodes
  <2> TAKE k \in 1..n
  <2>1. n - k + 1 \in 1..Len(st)
    BY <1>1
  <2>2. st[n - k + 1] \in StackNodes
    BY <2>1
  <2> QED
    BY <2>2, <1>2
<1>4. G \in [1..n -> [StackNodes -> StackNodes]]
    BY <1>3
<1>5. \A k \in 1..n : \A x \in StackNodes : G[k][x] = Merge(st[n - k + 1], x)
    OBVIOUS
<1> HIDE DEF G
<1> HIDE DEF n
<1>6. PICK g : Steps(n, StackNodes, nd, G, g)
    BY ONLY <1>1, <1>4, StepsExist, nd \in StackNodes
<1>7. g \in [0..n -> StackNodes] /\ g[0] = nd /\ \A k \in 1..n : g[k] = G[k][g[k - 1]]
    BY <1>6 DEF Steps
<1>8. ASSUME NEW k \in 1..n PROVE g[k] = Merge(st[n - k + 1], g[k - 1])
  <2>1. k - 1 \in 0..n
    BY <1>1
  <2>2. g[k - 1] \in StackNodes
    BY <2>1, <1>7
  <2> QED
    BY <2>2, <1>5, <1>7
<1>9. Rec(g)
  <2>1. ASSUME NEW k \in 0..n
        PROVE  g[k] = IF k = 0 THEN nd ELSE Merge(st[n - k + 1], g[k - 1])
    <3>1. CASE k = 0
        BY <3>1, <1>7
    <3>2. CASE k # 0
      <4>1. k \in 1..n
        BY <3>2, <1>1
      <4> QED
        BY <4>1, <3>2, <1>8
    <3> QED
        BY <3>1, <3>2
  <2>2. g = [k \in 0..n |-> g[k]]
    BY <1>7
  <2> QED
    BY <2>1, <2>2
<1> DEFINE f == CHOOSE h : Rec(h)
           Meets(k) == k < n /\ st[n - k].height = f[k].height
           last == CHOOSE k \in 0..n : ~Meets(k) /\ \A j \in 0..k-1 : Meets(j)
<1>10. Climb(st, nd) = [k \in 1..last+1 |-> f[k - 1]]
    BY DEF Climb, n
<1>11. Rec(f)
  <2> HIDE DEF Rec
  <2> QED
    BY <1>9
<1> HIDE DEF f
<1>12. \A k \in 0..n : f[k] = IF k = 0 THEN nd ELSE Merge(st[n - k + 1], f[k - 1])
    BY <1>11
<1> HIDE DEF Rec
<1> DEFINE P == {k \in 0..n : f[k] \in StackNodes /\ f[k].height = k}
<1>13. 0 \in P
    BY <1>1, <1>12
<1>14. ASSUME NEW k \in 1..n, k - 1 \in P PROVE k \in P
  <2>1. f[k - 1] \in StackNodes /\ f[k - 1].height = k - 1
    BY <1>14
  <2>2. n - k + 1 \in 1..Len(st) /\ (k - 1) + 1 = k /\ k \in 0..n /\ k # 0
    BY <1>1 DEF n
  <2>3. st[n - k + 1] \in StackNodes
    BY <2>2
  <2>4. f[k] = Merge(st[n - k + 1], f[k - 1])
    BY <2>2, <1>12
  <2>5. f[k] \in StackNodes /\ f[k].height = k
    BY <2>1, <2>2, <2>3, <2>4, <1>2
  <2> QED
    BY <2>2, <2>5
<1> HIDE DEF P
<1>15. \A k \in 0..n : k \in P
    BY ONLY <1>1, <1>13, <1>14, UpTo
<1>16. \A k \in 0..n : f[k] \in StackNodes /\ f[k].height = k
    BY <1>15 DEF P
<1>17. last \in 0..n /\ ~Meets(last) /\ \A j \in 0..last-1 : Meets(j)
  <2> DEFINE D == {k \in 0..n : ~Meets(k)}
  <2>1. n \in D /\ D \in SUBSET Nat
    BY <1>1
  <2>2. PICK k \in D : \A j \in D : k <= j
    <3> HIDE DEF D
    <3> QED
        BY <2>1, LeastNumber
  <2>3. k \in 0..n /\ ~Meets(k)
    BY <2>2
  <2>4. ASSUME NEW j \in 0..k-1 PROVE Meets(j)
    <3>1. j \in 0..n /\ ~(k <= j)
        BY <2>3, <1>1
    <3>2. j \notin D
        BY <3>1, <2>2
    <3> QED
        BY <3>1, <3>2
  <2> HIDE DEF D, Meets
  <2>5. \E m \in 0..n : ~Meets(m) /\ \A j \in 0..m-1 : Meets(j)
    BY <2>3, <2>4
  <2> QED
    BY <2>5
<1> HIDE DEF last
<1>18. \A k \in 0..last-1 : st[n - k].height = k
  <2> TAKE k \in 0..last-1
  <2>1. Meets(k) /\ k \in 0..n
    BY <1>17, <1>1
  <2> QED
    BY <2>1, <1>16
<1>19. last < n => st[n - last].height # last
    BY <1>16, <1>17
<1> DEFINE path == Climb(st, nd)
<1>20. path = [k \in 1..last+1 |-> f[k - 1]] /\ last + 1 \in Nat
    BY <1>10, <1>17, <1>1
<1> HIDE DEF path
<1>21. Len(path) = last + 1 /\ path[last + 1] = f[last]
  <2>1. last + 1 \in 1..last+1 /\ (last + 1) - 1 = last
    BY <1>20, <1>17, <1>1
  <2>2. path[last + 1] = f[last]
    BY <2>1, <1>20
  <2>3. DOMAIN path = 1..last+1 /\ path \in Seq(StackNodes)
    <3>1. \A k \in 1..last+1 : f[k - 1] \in StackNodes
        BY <1>16, <1>17, <1>1
    <3> QED
        BY <3>1, <1>20
  <2> QED
    BY <2>2, <2>3, <1>20
<1>22. Climbs(st, path, last, f[last])
    BY <1>16, <1>17, <1>18, <1>19, <1>21 DEF Climbs, n
<1>23. path[1] = nd
  <2>1. 1 \in 1..last+1 /\ 1 - 1 = 0 /\ 0 \in 0..n
    BY <1>1, <1>17
  <2>2. path[1] = f[1 - 1]
    BY <2>1, <1>20
  <2> QED
    BY <2>1, <2>2, <1>12
<1>24. Merges(st, path, last)
  <2> SUFFICES ASSUME NEW k \in 1..last
               PROVE  path[k] \in StackNodes /\ path[k + 1] = Merge(st[n - k + 1], path[k])
    BY DEF Merges, n
  <2>1. /\ k \in 1..last+1 /\ k + 1 \in 1..last+1 /\ (k + 1) - 1 = k
        /\ k \in 0..n /\ k # 0 /\ k - 1 \in 0..n
    BY <1>1, <1>17
  <2>2. path[k] = f[k - 1] /\ path[k + 1] = f[k]
    BY <2>1, <1>20
  <2> QED
    BY <2>1, <2>2, <1>12, <1>16
<1> QED
    BY <1>22, <1>23, <1>24 DEF path

\* Under the nodes taken off are all leaves of a node as high as the new one
\* but one, and what is left is higher than the new node.
LEMMA ClimbSums ==
    ASSUME NEW st, Falling(st), NEW s, Leaves(st, s),
           NEW path, NEW e, NEW x, Climbs(st, path, e, x)
    PROVE  /\ e \in 0..Len(st)
           /\ \A k \in 1..Len(st)-e : st[k].height > e
           /\ \A k \in 0..e : s[Len(st)] + 1 = s[Len(st) - k] + Pow2[k]
<1> DEFINE n == Len(st)
           m == n - e
<1>1. st \in Seq(StackNodes) /\ n \in Nat
    BY DEF Falling
<1>3. /\ e \in 0..n /\ Len(path) = e + 1 /\ path[e + 1] = x
      /\ x \in StackNodes /\ x.height = e
      /\ \A k \in 0..e-1 : st[n - k].height = k
      /\ e < n => st[n - e].height # e
    BY DEF Climbs
<1>5. \A k \in 1..n : st[k] \in StackNodes /\ st[k].height \in Nat
  <2>1. \A k \in 1..n : st[k] \in StackNodes
    BY <1>1
  <2> QED
    BY <2>1 DEF StackNodes
<1>7. m \in Nat /\ m <= n
    BY <1>1, <1>3
<1> HIDE DEF m
<1>11. \A k \in 1..m : st[k].height > e
  <2>1. m # 0 => st[m].height > e
    <3> SUFFICES ASSUME m # 0 PROVE st[m].height > e
        OBVIOUS
    <3>1. m \in 1..n /\ e < n /\ n - e = m
        BY <1>1, <1>3, <1>7 DEF m
    <3>2. st[m].height # e /\ st[m].height \in Nat
        BY <3>1, <1>3, <1>5
    <3>3. CASE e = 0
        BY <3>2, <3>3
    <3>4. CASE e # 0
      <4>a. e \in Nat /\ e # 0 /\ m \in Nat /\ n \in Nat /\ n - e = m
        BY <3>4, <3>1, <1>1, <1>3, <1>7
      <4>1. e - 1 \in 0..e-1 /\ n - (e - 1) = m + 1 /\ m + 1 \in 1..n /\ m < m + 1
        BY ONLY <4>a
      <4>2. st[m + 1].height = e - 1
        BY <4>1, <1>3
      <4>3. st[m].height > st[m + 1].height
        BY <4>1, <3>1 DEF Falling
      <4> QED
        BY <4>2, <4>3, <3>2, <1>3
    <3> QED
        BY <3>3, <3>4
  <2> TAKE k \in 1..m
  <2>2. CASE k = m
    BY <2>1, <2>2, <1>7
  <2>3. CASE k # m
    <3>1. k \in 1..n /\ m \in 1..n /\ k < m /\ m # 0
        BY <2>3, <1>7, <1>1
    <3>2. st[k].height > st[m].height
        BY <3>1 DEF Falling
    <3>3. st[k].height \in Nat /\ st[m].height \in Nat
        BY <3>1, <1>5
    <3> QED
        BY <3>1, <3>2, <3>3, <2>1, <1>3
  <2> QED
    BY <2>2, <2>3
<1>15. \A k \in 0..e : s[n] + 1 = s[n - k] + Pow2[k]
  <2> DEFINE P == {k \in 0..e : s[n] + 1 = s[n - k] + Pow2[k]}
  <2>0. \A k \in 0..n : s[k] \in Nat
    BY DEF Leaves
  <2>1. 0 \in P
    <3>1. Pow2[0] = 1 /\ n - 0 = n /\ 0 \in 0..e
        BY Pow2Facts, <1>1, <1>3
    <3> QED
        BY <3>1
  <2>2. ASSUME NEW k \in 1..e, k - 1 \in P PROVE k \in P
    <3>1. k - 1 \in 0..e-1 /\ n - (k - 1) \in 1..n /\ (n - (k - 1)) - 1 = n - k
        BY <1>1, <1>3
    <3>2. s[n - (k - 1)] = s[n - k] + Pow2[k - 1]
      <4>1. s[n - (k - 1)] = s[(n - (k - 1)) - 1] + Pow2[st[n - (k - 1)].height]
        BY <3>1 DEF Leaves
      <4>2. st[n - (k - 1)].height = k - 1
        BY <3>1, <1>3
      <4> QED
        BY <4>1, <4>2, <3>1
    <3>3. Pow2[k] = 2 * Pow2[k - 1] /\ Pow2[k - 1] \in Nat
      <4>1. k - 1 \in Nat /\ (k - 1) + 1 = k
        BY <1>3
      <4> QED
        BY <4>1, Pow2Facts
    <3>4. s[n] + 1 = s[n - (k - 1)] + Pow2[k - 1]
        BY <2>2
    <3>5. s[n - k] \in Nat /\ s[n] \in Nat
      <4>1. n - k \in 0..n /\ n \in 0..n
        BY <1>1, <1>3
      <4> QED
        BY <4>1, <2>0
    <3>6. s[n] + 1 = s[n - k] + Pow2[k]
        BY <3>2, <3>3, <3>4, <3>5
    <3> QED
        BY <3>6, <1>3
  <2>3. e \in Nat
    BY <1>3
  <2> HIDE DEF P
  <2>4. \A k \in 0..e : k \in P
    BY ONLY <2>1, <2>2, <2>3, UpTo
  <2> QED
    BY <2>3, <2>4 DEF P, m
<1> QED
    BY <1>3, <1>11, <1>15 DEF m

\* A stack after a leaf: it still falls and covers one leaf more.
LEMMA PushedFalls ==
    ASSUME NEW j \in Nat, NEW st, Falling(st), Below(st, j), NEW s, Leaves(st, s),
           NEW nd \in StackNodes, nd.height = 0
    PROVE  LET path == Climb(st, nd)
               end  == path[Len(path)]
           IN  /\ end.height \in Nat /\ end.height <= j
               /\ end.height # j =>
                    /\ Falling(Pushed(st, path)) /\ Below(Pushed(st, path), j)
                    /\ Pushed(st, path)[1].height \in Nat
                    /\ \E u : /\ Leaves(Pushed(st, path), u)
                              /\ u[Len(Pushed(st, path))] = s[Len(st)] + 1
<1> DEFINE n == Len(st)
           path == Climb(st, nd)
<1>1. st \in Seq(StackNodes) /\ n \in Nat
    BY DEF Falling
<1>2. PICK e, x : Climbs(st, path, e, x)
    BY <1>1, Climbing
<1> HIDE DEF path
<1>3. /\ e \in 0..n /\ Len(path) = e + 1 /\ path[e + 1] = x
      /\ x \in StackNodes /\ x.height = e
      /\ \A k \in 0..e-1 : st[n - k].height = k
      /\ e < n => st[n - e].height # e
    BY <1>2 DEF Climbs
<1>4. path[Len(path)] = x
    BY <1>3
<1>5. \A k \in 1..n : st[k] \in StackNodes /\ st[k].height \in Nat /\ st[k].height < j
  <2>1. \A k \in 1..n : st[k] \in StackNodes
    BY <1>1
  <2> QED
    BY <2>1 DEF StackNodes, Below
<1>6. e <= j
  <2>1. CASE e = 0
    BY <2>1
  <2>2. CASE e # 0
    <3>1. e - 1 \in 0..e-1 /\ n - (e - 1) \in 1..n
        BY <2>2, <1>1, <1>3
    <3>2. st[n - (e - 1)].height = e - 1 /\ st[n - (e - 1)].height < j
        BY <3>1, <1>3, <1>5
    <3> QED
        BY <3>2, <1>3
  <2> QED
    BY <2>1, <2>2
<1> DEFINE m == n - e
           rest == SubSeq(st, 1, m)
           new == Pushed(st, path)
<1>7. m \in Nat /\ m <= n /\ n - Len(path) + 1 = m
    BY <1>1, <1>3
<1>8. rest \in Seq(StackNodes) /\ Len(rest) = m /\ \A k \in 1..m : rest[k] = st[k]
    BY <1>1, <1>7
<1>9. new = rest \o <<x>>
    BY <1>4, <1>7 DEF Pushed
<1> HIDE DEF m, rest, new
<1>10. /\ new \in Seq(StackNodes) /\ Len(new) = m + 1
       /\ \A k \in 1..m : new[k] = st[k]
       /\ new[m + 1] = x
    BY <1>3, <1>7, <1>8, <1>9
<1>11. (\A k \in 1..m : st[k].height > e) /\ s[n] + 1 = s[m] + Pow2[e]
  <2>1. e \in 0..e
    BY <1>3
  <2> QED
    BY <1>2, <2>1, ClimbSums DEF m
<1>12. Falling(new)
  <2>1. ASSUME NEW k \in 1..Len(new), NEW l \in 1..Len(new), k < l
        PROVE  new[k].height > new[l].height
    <3>1. k \in 1..m /\ k \in 1..n
        BY <2>1, <1>7, <1>10, <1>1
    <3>2. CASE l = m + 1
        BY <3>1, <3>2, <1>3, <1>10, <1>11
    <3>3. CASE l # m + 1
      <4>1. l \in 1..m /\ l \in 1..n
        BY <3>3, <1>7, <1>10, <1>1
      <4> QED
        BY <2>1, <3>1, <4>1, <1>10 DEF Falling
    <3> QED
        BY <3>2, <3>3
  <2> QED
    BY <2>1, <1>10 DEF Falling
<1>13. ASSUME e # j PROVE Below(new, j)
  <2> SUFFICES ASSUME NEW k \in 1..Len(new) PROVE new[k].height < j
    BY DEF Below
  <2>1. CASE k = m + 1
    BY <2>1, <1>3, <1>6, <1>10, <1>13
  <2>2. CASE k # m + 1
    <3>1. k \in 1..m /\ k \in 1..n
        BY <2>2, <1>7, <1>10, <1>1
    <3> QED
        BY <3>1, <1>5, <1>10
  <2> QED
    BY <2>1, <2>2
<1>14. new[1].height \in Nat
  <2>1. 1 \in 1..Len(new)
    BY <1>7, <1>10
  <2>2. new[1] \in StackNodes
    BY <2>1, <1>10
  <2> QED
    BY <2>2 DEF StackNodes
<1>16. PICK u : Leaves(new, u)
    BY <1>10, LeavesExist
<1>17. u[m] = s[m]
  <2> DEFINE P == {k \in 0..m : u[k] = s[k]}
  <2>1. 0 \in P
    BY <1>7, <1>16 DEF Leaves
  <2>2. ASSUME NEW k \in 1..m, k - 1 \in P PROVE k \in P
    <3>1. k \in 1..n /\ k \in 1..Len(new) /\ u[k - 1] = s[k - 1] /\ new[k] = st[k]
        BY <2>2, <1>1, <1>7, <1>10
    <3>2. u[k] = u[k - 1] + Pow2[new[k].height] /\ s[k] = s[k - 1] + Pow2[st[k].height]
        BY <3>1, <1>16 DEF Leaves
    <3> QED
        BY <3>1, <3>2
  <2> HIDE DEF P
  <2>3. \A k \in 0..m : k \in P
    BY ONLY <2>1, <2>2, <1>7, UpTo
  <2> QED
    BY <2>3, <1>7 DEF P
<1>18. u[Len(new)] = s[n] + 1
  <2>1. m + 1 \in 1..Len(new) /\ (m + 1) - 1 = m
    BY <1>7, <1>10
  <2>2. u[m + 1] = u[(m + 1) - 1] + Pow2[new[m + 1].height]
    BY <2>1, <1>16 DEF Leaves
  <2> QED
    BY <2>1, <2>2, <1>3, <1>10, <1>11, <1>17
<1> QED
    BY <1>3, <1>4, <1>6, <1>12, <1>13, <1>14, <1>16, <1>18 DEF path, new

\* A TreeHash instance of height j that is in bounds: an unfinished one has
\* room for the leaves it still needs.
Bounded(x, j) ==
    /\ DOMAIN x = {"v", "stack", "finalized", "startleaf", "lowheight"}
    /\ x.startleaf \in Nat /\ x.startleaf < usr
    /\ x.lowheight \in Nat
    /\ Falling(x.stack) /\ Below(x.stack, j)
    /\ x.finalized # 1 =>
         \E s : Leaves(x.stack, s) /\ x.startleaf + Pow2[j] <= usr + s[Len(x.stack)]

Heights == 0..hlength-3
AllBounded(ins) == DOMAIN ins = Heights /\ \A j \in Heights : Bounded(ins[j], j)

LEMMA EmptyStack ==
    /\ Falling(<<>>) /\ \A j : Below(<<>>, j)
    /\ \E s : Leaves(<<>>, s) /\ s[Len(<<>>)] = 0
<1>1. <<>> \in Seq(StackNodes) /\ Len(<<>>) = 0
    OBVIOUS
<1>2. \A k : k \notin 1..Len(<<>>)
    BY <1>1
<1>3. Falling(<<>>) /\ \A j : Below(<<>>, j)
    BY <1>1, <1>2 DEF Falling, Below
<1>4. PICK s : Leaves(<<>>, s)
    BY <1>1, LeavesExist
<1>5. s[Len(<<>>)] = 0
    BY <1>1, <1>4 DEF Leaves
<1> QED
    BY <1>3, <1>4, <1>5

\* One more leaf for an unfinished instance.
LEMMA UpdatedBounded ==
    ASSUME NEW j \in Nat, NEW x, Bounded(x, j), x.finalized # 1
    PROVE  Bounded(Updated(x, j), j)
<1> USE DEF Infy
<1> DEFINE nd   == StackNode(Leaf(x.startleaf), 0, x.startleaf)
           path == Climb(x.stack, nd)
           end  == path[Len(path)]
           st   == Pushed(x.stack, path)
<1>0. /\ DOMAIN x = {"v", "stack", "finalized", "startleaf", "lowheight"}
      /\ x.startleaf \in Nat /\ x.startleaf < usr
      /\ x.lowheight \in Nat
      /\ Falling(x.stack) /\ Below(x.stack, j)
    BY DEF Bounded
<1>1. PICK s : Leaves(x.stack, s) /\ x.startleaf + Pow2[j] <= usr + s[Len(x.stack)]
    BY DEF Bounded
<1>2. nd \in StackNodes /\ nd.height = 0
    BY <1>0 DEF StackNode, Leaf, StackNodes
<1> HIDE DEF nd
<1>3. /\ end.height \in Nat /\ end.height <= j
      /\ end.height # j =>
           /\ Falling(st) /\ Below(st, j) /\ st[1].height \in Nat
           /\ \E u : Leaves(st, u) /\ u[Len(st)] = s[Len(x.stack)] + 1
    BY <1>0, <1>1, <1>2, PushedFalls
<1>4. Updated(x, j) =
        IF j = 0 THEN [x EXCEPT !.v = nd.key, !.finalized = 1, !.lowheight = Infy]
        ELSE IF x.stack = <<>> THEN [x EXCEPT !.stack = <<nd>>, !.startleaf = @ + 1]
        ELSE IF end.height = j
        THEN [x EXCEPT !.v = end.key, !.finalized = 1, !.lowheight = Infy, !.stack = <<>>]
        ELSE [x EXCEPT !.stack = st, !.startleaf = @ + 1,
                       !.lowheight = IF Len(st) = 1 THEN end.height ELSE @]
    BY DEF Updated, nd
<1> DEFINE y == Updated(x, j)
<1>5. CASE j = 0
  <2>1. y = [x EXCEPT !.v = nd.key, !.finalized = 1, !.lowheight = Infy]
    BY <1>4, <1>5
  <2> HIDE DEF y
  <2>2. /\ DOMAIN y = {"v", "stack", "finalized", "startleaf", "lowheight"}
        /\ y.startleaf = x.startleaf /\ y.lowheight = Infy /\ y.stack = x.stack
        /\ y.finalized = 1
    BY <2>1, <1>0
  <2>3. Bounded(y, j)
    BY <2>2, <1>0 DEF Bounded
  <2> QED
    BY <2>3 DEF y
\* A leaf that is pushed, alone or on the others.
<1>6. ASSUME NEW z, z.stack = st, z.startleaf = x.startleaf + 1, z.lowheight \in Nat,
             DOMAIN z = {"v", "stack", "finalized", "startleaf", "lowheight"},
             end.height # j
      PROVE  Bounded(z, j)
  <2>1. PICK u : Leaves(st, u) /\ u[Len(st)] = s[Len(x.stack)] + 1
    BY <1>3, <1>6
  <2>2. Falling(st) /\ Below(st, j)
    BY <1>3, <1>6
  <2> HIDE DEF st, end
  <2>3. u[Len(st)] < Pow2[j] /\ u[Len(st)] \in Nat
    <3>1. u[Len(st)] < Pow2[j]
        BY <2>1, <2>2, FallingIsSmall
    <3>2. Len(st) \in 0..Len(st)
        BY <2>2 DEF Falling
    <3> QED
        BY <3>1, <3>2, <2>1 DEF Leaves
  <2>4. usr \in Nat /\ Pow2[j] \in Nat /\ s[Len(x.stack)] \in Nat
    <3>1. usr \in Nat /\ Pow2[j] \in Nat
        BY Pow2Facts, HeightAssumption DEF usr
    <3>2. Len(x.stack) \in 0..Len(x.stack)
        BY <1>0 DEF Falling
    <3> QED
        BY <3>1, <3>2, <1>1 DEF Leaves
  <2>5. x.startleaf + 1 + Pow2[j] <= usr + u[Len(st)] /\ x.startleaf + 1 < usr
    BY <1>0, <1>1, <2>1, <2>3, <2>4
  <2>6. Leaves(z.stack, u) /\ z.startleaf + Pow2[j] <= usr + u[Len(z.stack)]
    BY <1>6, <2>1, <2>5
  <2>7. /\ z.startleaf \in Nat /\ z.startleaf < usr
        /\ Falling(z.stack) /\ Below(z.stack, j)
    BY <1>0, <1>6, <2>2, <2>5
  <2> QED
    BY <1>6, <2>6, <2>7 DEF Bounded
<1>7. CASE j # 0 /\ x.stack = <<>>
  <2>1. y = [x EXCEPT !.stack = <<nd>>, !.startleaf = @ + 1]
    BY <1>4, <1>7
  <2>2. st = <<nd>> /\ end.height # j
    <3>1. <<>> \in Seq(StackNodes) /\ Len(<<>>) = 0
        OBVIOUS
    <3>2. PICK e, h : Climbs(<<>>, path, e, h)
        BY <1>2, <1>7, <3>1, Climbing
    <3>4. path[1] = nd
        BY <1>2, <1>7, <3>1, Climbing
    <3> HIDE DEF path
    <3>3. e = 0 /\ Len(path) = 1 /\ path[1] = h /\ h.height = 0
        BY <3>1, <3>2 DEF Climbs
    <3>5. st = SubSeq(<<>>, 1, 0) \o <<nd>>
        BY <1>7, <3>1, <3>3, <3>4 DEF Pushed
    <3>6. SubSeq(<<>>, 1, 0) = <<>> /\ <<>> \o <<nd>> = <<nd>>
        OBVIOUS
    <3> QED
        BY <1>7, <3>3, <3>5, <3>6
  <2> HIDE DEF y, st, end
  <2>3. /\ DOMAIN y = {"v", "stack", "finalized", "startleaf", "lowheight"}
        /\ y.startleaf = x.startleaf + 1 /\ y.lowheight = x.lowheight
        /\ y.stack = <<nd>>
    BY <2>1, <1>0
  <2>4. Bounded(y, j)
    BY <2>2, <2>3, <1>0, <1>6
  <2> QED
    BY <2>4 DEF y
<1>8. CASE j # 0 /\ x.stack # <<>> /\ end.height = j
  <2>1. y = [x EXCEPT !.v = end.key, !.finalized = 1, !.lowheight = Infy, !.stack = <<>>]
    BY <1>4, <1>8
  <2> HIDE DEF y, end
  <2>2. /\ DOMAIN y = {"v", "stack", "finalized", "startleaf", "lowheight"}
        /\ y.startleaf = x.startleaf /\ y.lowheight = Infy /\ y.stack = <<>>
        /\ y.finalized = 1
    BY <2>1, <1>0
  <2>3. Bounded(y, j)
    BY <2>2, <1>0, EmptyStack DEF Bounded
  <2> QED
    BY <2>3 DEF y
<1>9. CASE j # 0 /\ x.stack # <<>> /\ end.height # j
  <2>1. y = [x EXCEPT !.stack = st, !.startleaf = @ + 1,
                      !.lowheight = IF Len(st) = 1 THEN end.height ELSE @]
    BY <1>4, <1>9
  <2>2. end.height \in Nat
    BY <1>3
  <2> HIDE DEF y, st, end
  <2>3. /\ DOMAIN y = {"v", "stack", "finalized", "startleaf", "lowheight"}
        /\ y.startleaf = x.startleaf + 1 /\ y.lowheight \in Nat
        /\ y.stack = st
    BY <2>1, <2>2, <1>0
  <2>4. Bounded(y, j)
    BY <2>3, <1>6, <1>9
  <2> QED
    BY <2>4 DEF y
<1> QED
    BY <1>5, <1>7, <1>8, <1>9

\* Work for the instances: each turn gives one unfinished one a leaf.
Turn(w) ==
    IF \A j \in DOMAIN w : ~Busy(w, j) THEN w
    ELSE [w EXCEPT ![Served(w)] = Updated(w[Served(w)], Served(w))]

\* The instance served is the one of the least height among those with the
\* least low height.
ServedFirst(w, t) ==
    /\ t \in Heights /\ Busy(w, t)
    /\ \A k \in Heights : Busy(w, k) =>
           \/ w[t].lowheight < w[k].lowheight
           \/ w[t].lowheight = w[k].lowheight /\ t <= k

LEMMA ServedIs ==
    ASSUME NEW w, AllBounded(w), \E j \in DOMAIN w : Busy(w, j)
    PROVE  /\ ServedFirst(w, Served(w))
           /\ DOMAIN Turn(w) = Heights
           /\ \A k \in Heights :
                  Turn(w)[k] = IF k = Served(w) THEN Updated(w[k], k) ELSE w[k]
<1> DEFINE B == {j \in Heights : Busy(w, j)}
           H == {w[j].lowheight : j \in B}
<1>1. \A j \in B : w[j].lowheight \in Nat /\ j \in Nat
    BY DEF AllBounded, Bounded, Heights
<1>2. H \in SUBSET Nat /\ H # {}
    BY <1>1 DEF AllBounded
<1> HIDE DEF H
<1>3. PICK h \in H : \A g \in H : h <= g
    BY <1>2, LeastNumber
<1> DEFINE C == {j \in B : w[j].lowheight = h}
<1>4. C \in SUBSET Nat /\ C # {}
    BY <1>1, <1>3 DEF H
<1> HIDE DEF B, C
<1>5. PICK c \in C : \A d \in C : c <= d
    BY <1>4, LeastNumber
<1>6. c \in B /\ w[c].lowheight = h
    BY <1>5 DEF C
<1>7. ASSUME NEW k \in B
      PROVE  \/ w[c].lowheight < w[k].lowheight
             \/ w[c].lowheight = w[k].lowheight /\ c <= k
  <2>1. h <= w[k].lowheight /\ h \in Nat /\ w[k].lowheight \in Nat
      BY <1>1, <1>2, <1>3 DEF H
  <2>2. CASE w[k].lowheight = h
    <3>1. k \in C
      BY <2>2 DEF C
    <3> QED
      BY <3>1, <2>2, <1>5, <1>6
  <2>3. CASE w[k].lowheight # h
      BY <2>1, <2>3, <1>6
  <2> QED
      BY <2>2, <2>3
<1> DEFINE Best(j) == Busy(w, j) /\
               \A k \in DOMAIN w : Busy(w, k) =>
                   \/ w[j].lowheight < w[k].lowheight
                   \/ w[j].lowheight = w[k].lowheight /\ j <= k
<1>8. c \in DOMAIN w /\ Best(c)
    BY <1>6, <1>7 DEF AllBounded, B
<1>9. Served(w) \in DOMAIN w /\ Best(Served(w))
  <2>1. Served(w) = CHOOSE j \in DOMAIN w : Best(j)
      BY DEF Served
  <2>2. (CHOOSE j \in DOMAIN w : Best(j)) \in DOMAIN w /\ Best(CHOOSE j \in DOMAIN w : Best(j))
    <3> HIDE DEF Best
    <3> QED
      BY <1>8
  <2> QED
      BY <2>1, <2>2
<1>10. ServedFirst(w, Served(w))
    BY <1>9 DEF AllBounded, ServedFirst
<1>11. Turn(w) = [w EXCEPT ![Served(w)] = Updated(w[Served(w)], Served(w))]
    BY DEF Turn
<1> QED
    BY <1>10, <1>11 DEF AllBounded

LEMMA TurnBounded ==
    ASSUME NEW w, AllBounded(w)
    PROVE  AllBounded(Turn(w))
<1>1. CASE \A j \in DOMAIN w : ~Busy(w, j)
    BY <1>1 DEF Turn
<1>2. CASE \E j \in DOMAIN w : Busy(w, j)
  <2> DEFINE t == Served(w)
             y == Updated(w[t], t)
             z == Turn(w)
  <2>1. /\ ServedFirst(w, t)
        /\ DOMAIN z = Heights /\ \A j \in Heights : z[j] = IF j = t THEN Updated(w[j], j) ELSE w[j]
    BY <1>2, ServedIs
  <2>2. Bounded(y, t)
    <3>1. t \in Heights /\ Bounded(w[t], t) /\ w[t].finalized # 1
        BY <2>1 DEF AllBounded, Busy, ServedFirst
    <3>2. t \in Nat
        BY <3>1 DEF Heights
    <3> HIDE DEF t
    <3> QED
        BY <3>1, <3>2, UpdatedBounded
  <2> HIDE DEF t, z
  <2>3. AllBounded(z)
    BY <2>1, <2>2 DEF AllBounded
  <2> QED
    BY <2>3 DEF z
<1> QED
    BY <1>1, <1>2

\* The turns of one call.
Turns(ins, n, f) ==
    DOMAIN f = 0..n /\ f[0] = ins /\ \A k \in 1..n : f[k] = Turn(f[k - 1])

LEMMA TurnsExist ==
    ASSUME NEW n \in Nat, NEW ins
    PROVE  \E f : Turns(ins, n, f)
<1> DEFINE P == {m \in 0..n : \E f : Turns(ins, m, f)}
<1>1. 0 \in P
  <2> DEFINE g == [k \in 0..0 |-> ins]
  <2>1. DOMAIN g = 0..0 /\ g[0] = ins /\ \A k : k \notin 1..0
    OBVIOUS
  <2> HIDE DEF g
  <2>2. Turns(ins, 0, g)
    BY <2>1 DEF Turns
  <2> QED
    BY <2>2
<1>2. ASSUME NEW m \in 1..n, m - 1 \in P PROVE m \in P
  <2>1. PICK f : Turns(ins, m - 1, f)
    BY <1>2
  <2> DEFINE g == [k \in 0..m |-> IF k = m THEN Turn(f[m - 1]) ELSE f[k]]
  <2>2. DOMAIN g = 0..m /\ \A k \in 0..m : g[k] = IF k = m THEN Turn(f[m - 1]) ELSE f[k]
    OBVIOUS
  <2> HIDE DEF g
  <2>3. g[0] = ins
    BY <2>1, <2>2 DEF Turns
  <2>4. ASSUME NEW k \in 1..m PROVE g[k] = Turn(g[k - 1])
    <3>1. k - 1 \in 0..m /\ k - 1 # m /\ k \in 0..m
        OBVIOUS
    <3>2. g[k - 1] = f[k - 1]
        BY <3>1, <2>2
    <3>3. CASE k = m
        BY <3>1, <3>2, <3>3, <2>2
    <3>4. CASE k # m
      <4>1. k \in 1..m-1
        BY <3>4
      <4>2. f[k] = Turn(f[k - 1])
        BY <4>1, <2>1 DEF Turns
      <4> QED
        BY <4>2, <3>1, <3>2, <3>4, <2>2
    <3> QED
        BY <3>3, <3>4
  <2>5. Turns(ins, m, g)
    BY <2>2, <2>3, <2>4 DEF Turns
  <2> QED
    BY <2>5, m \in 0..n
<1> HIDE DEF P
<1>3. \A k \in 0..n : k \in P
    BY ONLY <1>1, <1>2, UpTo, n \in Nat
<1>4. n \in P
    BY <1>3
<1> QED
    BY <1>4 DEF P

LEMMA WorkedTurns ==
    ASSUME NEW ins, AllBounded(ins)
    PROVE  \E w : /\ Worked(ins) = w[updateiter] /\ w[0] = ins
                 /\ \A k \in 1..updateiter : w[k] = Turn(w[k - 1])
                 /\ \A m \in 0..updateiter : AllBounded(w[m])
<1> DEFINE n == updateiter
           Rec(w) == w = [k \in 0..n |->
                IF k = 0 THEN ins
                ELSE IF \A j \in DOMAIN ins : ~Busy(w[k-1], j) THEN w[k-1]
                ELSE LET j == Served(w[k-1])
                     IN  [w[k-1] EXCEPT ![j] = Updated(w[k-1][j], j)]]
<1>1. n \in Nat
    BY HeightAssumption DEF updateiter
<1>2. Worked(ins) = (CHOOSE w : Rec(w))[n]
    BY DEF Worked
<1> HIDE DEF n
<1>3. PICK f : Turns(ins, n, f)
    BY <1>1, TurnsExist
<1>4. \A k \in 0..n : AllBounded(f[k])
  <2> DEFINE P == {k \in 0..n : AllBounded(f[k])}
  <2>1. 0 \in P
    BY <1>1, <1>3 DEF Turns
  <2>2. ASSUME NEW k \in 1..n, k - 1 \in P PROVE k \in P
    <3>1. AllBounded(f[k - 1]) /\ f[k] = Turn(f[k - 1])
        BY <1>3, <2>2 DEF Turns
    <3>2. AllBounded(f[k])
        BY <3>1, TurnBounded
    <3> QED
        BY <3>2
  <2> HIDE DEF P
  <2>3. \A k \in 0..n : k \in P
    BY ONLY <2>1, <2>2, <1>1, UpTo
  <2> QED
    BY <2>3 DEF P
\* The turns are what the recursive function computes.
<1>5. ASSUME NEW w, AllBounded(w)
      PROVE  Turn(w) = IF \A j \in DOMAIN ins : ~Busy(w, j) THEN w
                       ELSE LET j == Served(w) IN [w EXCEPT ![j] = Updated(w[j], j)]
    BY <1>5 DEF AllBounded, Turn
<1> DEFINE g == [k \in 0..n |-> f[k]]
<1>6. Rec(g)
  <2>1. ASSUME NEW k \in 0..n
        PROVE  g[k] = IF k = 0 THEN ins
                      ELSE IF \A j \in DOMAIN ins : ~Busy(g[k-1], j) THEN g[k-1]
                      ELSE LET j == Served(g[k-1])
                           IN  [g[k-1] EXCEPT ![j] = Updated(g[k-1][j], j)]
    <3>1. CASE k = 0
        BY <3>1, <1>3 DEF Turns
    <3>2. CASE k # 0
      <4>1. k \in 1..n /\ k - 1 \in 0..n
        BY <3>2, <1>1
      <4>2. g[k] = f[k] /\ g[k - 1] = f[k - 1] /\ f[k] = Turn(f[k - 1])
        BY <4>1, <1>3 DEF Turns
      <4>3. AllBounded(g[k - 1]) /\ g[k] = Turn(g[k - 1])
        BY <4>1, <4>2, <1>4
      <4> HIDE DEF g
      <4> QED
        BY <4>3, <3>2, <1>5
    <3> QED
        BY <3>1, <3>2
  <2>2. g = [k \in 0..n |-> g[k]]
    OBVIOUS
  <2> HIDE DEF g
  <2> QED
    BY <2>1, <2>2
<1> DEFINE w == CHOOSE h : Rec(h)
<1>7. Rec(w)
  <2> HIDE DEF Rec, g
  <2> QED
    BY <1>6
<1> HIDE DEF w
<1>8. \A k \in 0..n : w[k] =
          IF k = 0 THEN ins
          ELSE IF \A j \in DOMAIN ins : ~Busy(w[k-1], j) THEN w[k-1]
          ELSE LET j == Served(w[k-1])
               IN  [w[k-1] EXCEPT ![j] = Updated(w[k-1][j], j)]
    BY <1>7
<1> DEFINE P == {k \in 0..n : AllBounded(w[k])}
<1>9. 0 \in P
  <2>1. 0 \in 0..n
    BY <1>1
  <2>2. w[0] = ins
    BY <2>1, <1>8
  <2> QED
    BY <2>1, <2>2
<1>10. ASSUME NEW k \in 1..n, k - 1 \in P PROVE k \in P
  <2>1. AllBounded(w[k - 1]) /\ k \in 0..n /\ k # 0
    BY <1>10
  <2>2. w[k] = Turn(w[k - 1])
    BY <2>1, <1>5, <1>8
  <2>3. AllBounded(w[k])
    BY <2>1, <2>2, TurnBounded
  <2> QED
    BY <2>1, <2>3
<1> HIDE DEF P
<1>11. \A k \in 0..n : k \in P
    BY ONLY <1>1, <1>9, <1>10, UpTo
<1>12. \A k \in 0..n : AllBounded(w[k])
    BY <1>11 DEF P
<1>13. w[0] = ins /\ \A k \in 1..n : w[k] = Turn(w[k - 1])
  <2>0. 0 \in 0..n
    BY <1>1
  <2>1. w[0] = ins
    BY <2>0, <1>8
  <2> SUFFICES ASSUME NEW k \in 1..n PROVE w[k] = Turn(w[k - 1])
    BY <2>1
  <2>2. k \in 0..n /\ k # 0 /\ k - 1 \in 0..n
    BY <1>1
  <2> QED
    BY <2>2, <1>5, <1>8, <1>12
<1>14. Worked(ins) = w[n]
    BY <1>2 DEF w
<1> QED
    BY <1>12, <1>13, <1>14 DEF n

LEMMA WorkedBounded ==
    ASSUME NEW ins, AllBounded(ins)
    PROVE  AllBounded(Worked(ins))
<1>1. PICK w : /\ Worked(ins) = w[updateiter]
               /\ \A k \in 0..updateiter : AllBounded(w[k])
    BY WorkedTurns
<1>2. updateiter \in 0..updateiter
    BY HeightAssumption DEF updateiter
<1> QED
    BY <1>1, <1>2

\* What is left over is divisible by every power up to the one of Tau().
LEMMA TauDivides ==
    ASSUME NEW id \in 0..usr-1
    PROVE  /\ Tau(id) \in 0..hlength
           /\ Tau(id) > 0 => (id + 1) % Pow2[Tau(id)] = 0
           /\ (id + 1) % Pow2[Tau(id) + 1] # 0
<1> DEFINE n == id + 1
           Good(t) == n % Pow2[t] = 0 /\ n % Pow2[t + 1] # 0
<1>1. CASE id % 2 = 0
  <2>1. Tau(id) = 0 /\ Tau(id) \in 0..hlength
    BY <1>1, HeightAssumption DEF Tau
  <2>2. Pow2[0] = 1 /\ Pow2[0 + 1] = 2 * Pow2[0]
    BY Pow2Facts
  <2>3. usr \in Nat /\ id \in Nat
    BY HeightAssumption, Pow2Facts DEF usr
  <2>4. (id + 1) % 2 # 0
    BY <2>3, <1>1
  <2> QED
    BY <2>1, <2>2, <2>4
<1>2. CASE id % 2 # 0
  <2>1. usr \in Nat /\ id \in Nat /\ n \in Nat \ {0} /\ n <= usr /\ n % 2 = 0 /\ hlength \in Nat
    <3>1. usr \in Nat /\ hlength \in Nat
        BY HeightAssumption, Pow2Facts DEF usr
    <3> QED
        BY <3>1, <1>2
  <2> DEFINE D == {d \in 0..hlength+1 : n % Pow2[d] # 0}
  <2>2. hlength + 1 \in D
    <3>1. Pow2[hlength + 1] = 2 * usr /\ usr \in Nat \ {0} /\ hlength + 1 \in 0..hlength+1
        BY <2>1, Pow2Facts DEF usr
    <3> DEFINE w == Pow2[hlength + 1]
    <3>2. w \in Nat \ {0} /\ n < w
        BY <3>1, <2>1
    <3> HIDE DEF w, n
    <3>3. n % w = n
        BY <3>2, <2>1
    <3> QED
        BY <3>1, <3>3, <2>1 DEF w
  <2>3. D \in SUBSET Nat
    BY <2>1
  <2>4. PICK d \in D : \A e \in D : d <= e
    <3> HIDE DEF D
    <3> QED
        BY <2>2, <2>3, LeastNumber
  <2>5. d # 0 /\ d # 1
    <3>1. Pow2[0] = 1 /\ Pow2[0 + 1] = 2 * Pow2[0]
        BY Pow2Facts
    <3>2. n % 1 = 0 /\ n % 2 = 0
        BY <2>1
    <3> QED
        BY <3>1, <3>2, <2>4
  <2> DEFINE c == d - 1
  <2>6. c \in 1..hlength /\ c + 1 = d /\ c \notin D /\ c \in 0..hlength+1
    <3>1. c \in 1..hlength /\ c + 1 = d /\ c \in 0..hlength+1 /\ ~(d <= c)
        BY <2>1, <2>4, <2>5
    <3> QED
        BY <3>1, <2>4
  <2>7. Good(c)
    BY <2>4, <2>6
  <2> HIDE DEF c, D
  <2>8. Tau(id) = CHOOSE t \in 1..hlength : Good(t)
    BY <1>2 DEF Tau
  <2> HIDE DEF Good
  <2>9. Tau(id) \in 1..hlength /\ Good(Tau(id))
    BY <2>6, <2>7, <2>8
  <2> QED
    BY <2>1, <2>9 DEF Good
<1> QED
    BY <1>1, <1>2

\* An instance that is restarted has all its leaves below the last one.
LEMMA SubtreeFits ==
    ASSUME NEW id \in 0..usr-1, NEW k \in Heights, k < Tau(id),
           id + 1 + 3 * Pow2[k] < usr
    PROVE  id + 1 + 3 * Pow2[k] + Pow2[k] <= usr
<1> DEFINE t == Tau(id)
           n == id + 1
           w == Pow2[k]
           a == Pow2[t - k]
           b == Pow2[hlength - k]
           m == n \div Pow2[t]
<1>1. t \in 0..hlength /\ k \in Nat /\ k < t /\ n % Pow2[t] = 0 /\ hlength \in Nat
    BY TauDivides, HeightAssumption DEF Heights
<1> HIDE DEF t
<1>2. /\ t \in Nat /\ t - k \in Nat /\ k + (t - k) = t
      /\ hlength - k \in Nat /\ k + (hlength - k) = hlength
    BY <1>1
<1>3. Pow2[t] = w * a /\ usr = w * b
    BY <1>1, <1>2, Pow2Add DEF usr
<1>4. w \in Nat \ {0} /\ a \in Nat \ {0} /\ b \in Nat \ {0}
    BY <1>1, <1>2, Pow2Facts
<1>5. Pow2[t] \in Nat \ {0} /\ n \in Nat
    BY <1>2, Pow2Facts
<1>6. m \in Nat /\ n = Pow2[t] * m
  <2> DEFINE z == Pow2[t]
  <2>1. z \in Nat \ {0} /\ n \in Nat /\ n % z = 0
    BY <1>1, <1>5
  <2> HIDE DEF z, n
  <2>2. n \div z \in Nat /\ n = z * (n \div z)
    BY <2>1
  <2> QED
    BY <2>2 DEF z
<1>7. n + 3 * w < w * b
    BY <1>3
<1> HIDE DEF w, a, b, m, n
<1> DEFINE c == a * m + 3
<1>8. c \in Nat /\ n + 3 * w = w * c
  <2>1. a * m \in Nat
    BY <1>4, <1>6
  <2>2. n = (w * a) * m
    BY <1>3, <1>6
  <2>3. (w * a) * m = w * (a * m)
    BY <1>4, <1>6
  <2> DEFINE y == a * m
  <2>4. y \in Nat /\ n = w * y
    BY <2>1, <2>2, <2>3
  <2> HIDE DEF y
  <2>5. w * (y + 3) = w * y + 3 * w
    BY <2>4, <1>4
  <2> QED
    BY <2>4, <2>5 DEF y
<1> HIDE DEF c
<1>9. c < b
  <2> SUFFICES ASSUME c >= b PROVE FALSE
    BY <1>4, <1>8
  <2> DEFINE x == c - b
  <2>1. x \in Nat /\ c = b + x
    BY <1>4, <1>8
  <2> HIDE DEF x
  <2>2. w * c = w * b + w * x /\ w * x \in Nat /\ w * b \in Nat
    BY <2>1, <1>4
  <2> QED
    BY <2>2, <1>7, <1>8
<1>10. w * c + w <= w * b
  <2> DEFINE x == b - c - 1
  <2>1. x \in Nat /\ b = c + 1 + x
    BY <1>4, <1>8, <1>9
  <2> HIDE DEF x
  <2>2. w * b = w * c + w + w * x /\ w * x \in Nat /\ w * c \in Nat
    BY <2>1, <1>4, <1>8
  <2> QED
    BY <2>2, <1>4
<1>11. n + 3 * w + w <= usr
    BY <1>3, <1>8, <1>10
<1> QED
    BY <1>11 DEF n, w

\* The inductive invariant of the instances: they are in bounds, and so is the
\* leaf or one-time key that comes next.
InstancesInv ==
    /\ AllBounded(instance)
    /\ next \in 0..usr
    /\ treestack # <<>> => next < usr

LEMMA LeafBounded ==
    ASSUME AllBounded(instance), NEW id \in 0..usr-1, GenerateLeaf(id)
    PROVE  InstancesInv'
<1> DEFINE path == Climb(treestack, StackNode(Leaf(id), 0, id))
           At(h, n) == \E k \in 1..Len(path)-1 : path[k].height = h /\ path[k].indx = n
           Key(h) == path[h + 1].key
           Done(h) == [instance[h] EXCEPT !.v = Key(h), !.finalized = 1,
                                          !.lowheight = Infy, !.stack = <<>>]
           new == [h \in DOMAIN instance |-> IF At(h, 3) THEN Done(h) ELSE instance[h]]
<1>0. usr \in Nat /\ usr > 1
  <2>1. 0 < hlength /\ hlength \in Nat
    BY HeightAssumption
  <2>2. 2 * Pow2[0] <= usr /\ Pow2[0] = 1 /\ usr \in Nat
    BY <2>1, Pow2Grows, Pow2Facts DEF usr
  <2> QED
    BY <2>2
<1>1. instance' = new
    BY DEF GenerateLeaf
<1>2. next' \in 0..usr-1
  <2>1. CASE id = usr - 1
    <3>1. next' = 0
        BY <2>1 DEF GenerateLeaf
    <3> QED
        BY <3>1, <1>0
  <2>2. CASE id # usr - 1
    <3>1. next' = id + 1
        BY <2>2 DEF GenerateLeaf
    <3> QED
        BY <3>1, <2>2, <1>0
  <2> QED
    BY <2>1, <2>2
<1> HIDE DEF path, At, Key
<1>3. ASSUME NEW h \in Heights PROVE Bounded(Done(h), h)
  <2> DEFINE y == Done(h)
  <2>1. Bounded(instance[h], h)
    BY DEF AllBounded
  <2>2. /\ DOMAIN y = {"v", "stack", "finalized", "startleaf", "lowheight"}
        /\ y.startleaf = instance[h].startleaf /\ y.lowheight = Infy /\ y.stack = <<>>
        /\ y.finalized = 1
    BY <2>1 DEF Bounded
  <2> HIDE DEF y
  <2>3. Bounded(y, h)
    BY <2>1, <2>2, EmptyStack DEF Bounded, Infy
  <2> QED
    BY <2>3 DEF y
<1> HIDE DEF Done
<1>4. DOMAIN new = Heights /\ \A h \in Heights : new[h] = IF At(h, 3) THEN Done(h) ELSE instance[h]
    BY DEF AllBounded
<1> HIDE DEF new
<1>5. AllBounded(new)
    BY <1>3, <1>4 DEF AllBounded
<1>6. AllBounded(instance)'
  <2>1. AllBounded(instance)' <=> AllBounded(instance')
    BY DEF AllBounded, Bounded, Falling, Below, Leaves
  <2> QED
    BY <2>1, <1>1, <1>5
<1> QED
    BY <1>0, <1>2, <1>6 DEF InstancesInv

LEMMA RestartedBounded ==
    ASSUME AllBounded(instance), NEW id \in 0..usr-1
    PROVE  AllBounded(Restarted(id, Tau(id)))
<1> DEFINE t == Tau(id)
           Again(k) == [instance[k] EXCEPT !.finalized = 0,
                !.startleaf = id + 1 + 3 * Pow2[k],
                !.lowheight = IF instance[k].stack = <<>> THEN 0 ELSE @]
           new == Restarted(id, t)
<1>1. DOMAIN new = Heights
    BY DEF Restarted, AllBounded
<1>2. \A k \in Heights :
          new[k] = IF k < t /\ id + 1 + 3 * Pow2[k] < usr THEN Again(k) ELSE instance[k]
    BY DEF Restarted, AllBounded
<1>3. ASSUME NEW k \in Heights, k < t, id + 1 + 3 * Pow2[k] < usr
      PROVE  Bounded(Again(k), k)
  <2> DEFINE y == Again(k)
             z == id + 1 + 3 * Pow2[k]
  <2>1. Bounded(instance[k], k)
    BY DEF AllBounded
  <2>2. /\ DOMAIN y = {"v", "stack", "finalized", "startleaf", "lowheight"}
        /\ y.startleaf = z /\ y.lowheight \in Nat
        /\ y.stack = instance[k].stack
    BY <2>1 DEF Bounded
  <2>3. /\ usr \in Nat /\ Pow2[k] \in Nat /\ k \in Nat
        /\ z \in Nat /\ z < usr /\ z + Pow2[k] <= usr
    <3>1. k \in Nat /\ usr \in Nat /\ Pow2[k] \in Nat
        BY HeightAssumption, Pow2Facts DEF Heights, usr
    <3>2. z + Pow2[k] <= usr
        BY <1>3, SubtreeFits
    <3> QED
        BY <3>1, <3>2, <1>3
  <2> HIDE DEF y, z
  <2>4. Falling(y.stack) /\ Below(y.stack, k)
    BY <2>1, <2>2 DEF Bounded
  <2>5. PICK s : Leaves(y.stack, s)
    BY <2>4, LeavesExist DEF Falling
  <2>6. s[Len(y.stack)] \in Nat
    <3>1. Len(y.stack) \in 0..Len(y.stack)
        BY <2>4 DEF Falling
    <3> QED
        BY <3>1, <2>5 DEF Leaves
  <2>7. y.startleaf + Pow2[k] <= usr + s[Len(y.stack)]
    BY <2>2, <2>3, <2>6
  <2>8. Bounded(y, k)
    BY <2>2, <2>3, <2>4, <2>5, <2>7 DEF Bounded
  <2> QED
    BY <2>8 DEF y
<1> HIDE DEF new, Again, t
<1>4. ASSUME NEW k \in Heights PROVE Bounded(new[k], k)
  <2>1. CASE k < t /\ id + 1 + 3 * Pow2[k] < usr
    BY <2>1, <1>2, <1>3
  <2>2. CASE ~(k < t /\ id + 1 + 3 * Pow2[k] < usr)
    BY <2>2, <1>2 DEF AllBounded
  <2> QED
    BY <2>1, <2>2
<1>5. AllBounded(new)
    BY <1>1, <1>4 DEF AllBounded
<1> QED
    BY <1>5 DEF new, t

LEMMA MssInitBounded == MssInit => InstancesInv
<1> SUFFICES ASSUME MssInit PROVE InstancesInv
    OBVIOUS
<1>0. usr \in Nat \ {0}
    BY HeightAssumption, Pow2Facts DEF usr
<1> DEFINE x == NewInstance
<1>1. ASSUME NEW k \in Heights PROVE Bounded(x, k)
  <2>1. /\ DOMAIN x = {"v", "stack", "finalized", "startleaf", "lowheight"}
        /\ x.startleaf = 0 /\ x.lowheight = 0 /\ x.stack = <<>>
    BY DEF NewInstance
  <2> HIDE DEF x
  <2>2. PICK s : Leaves(<<>>, s) /\ s[Len(<<>>)] = 0
    BY EmptyStack
  <2>3. Pow2[k] \in Nat /\ Pow2[k] <= usr
    <3>1. k \in Nat /\ hlength \in Nat /\ k < hlength
        BY HeightAssumption DEF Heights
    <3>2. 2 * Pow2[k] <= usr /\ Pow2[k] \in Nat
        BY <3>1, Pow2Grows, Pow2Facts DEF usr
    <3> QED
        BY <3>2, <1>0
  <2>4. x.startleaf + Pow2[k] <= usr + s[Len(x.stack)]
    BY <2>1, <2>2, <2>3, <1>0
  <2>5. Leaves(x.stack, s) /\ Falling(x.stack) /\ Below(x.stack, k)
    BY <2>1, <2>2, EmptyStack
  <2> QED
    BY <2>1, <2>4, <2>5, <1>0 DEF Bounded
<1>2. instance = [h \in Heights |-> x] /\ next = 0 /\ treestack = <<>>
    BY DEF MssInit, Heights
<1> HIDE DEF x
<1>3. AllBounded(instance)
    BY <1>1, <1>2 DEF AllBounded
<1> QED
    BY <1>0, <1>2, <1>3 DEF InstancesInv

LEMMA MssNextBounded == InstancesInv /\ [MssNext]_mssvars => InstancesInv'
<1> SUFFICES ASSUME InstancesInv, [MssNext]_mssvars PROVE InstancesInv'
    OBVIOUS
<1>0. usr \in Nat \ {0} /\ AllBounded(instance)
    BY HeightAssumption, Pow2Facts DEF usr, InstancesInv
<1>1. CASE KeyGeneration
    BY <1>0, <1>1, LeafBounded DEF KeyGeneration
<1>2. CASE GenerateNext
  <2>1. next \in 0..usr-1
    BY <1>0, <1>2 DEF InstancesInv, GenerateNext
  <2> QED
    BY <2>1, <1>0, <1>2, LeafBounded DEF GenerateNext
<1>3. CASE SignNext
  <2>1. next \in 0..usr-1 /\ next' = next + 1 /\ treestack = <<>> /\ treestack' = treestack
    BY <1>0, <1>3 DEF InstancesInv, SignNext, ksnmss_sign
  <2>2. instance' = Worked(Restarted(next, Tau(next)))
    BY <1>3 DEF SignNext, ksnmss_sign
  <2>3. AllBounded(Worked(Restarted(next, Tau(next))))
    BY <2>1, <1>0, RestartedBounded, WorkedBounded
  <2>4. AllBounded(instance)' <=> AllBounded(instance')
    BY DEF AllBounded, Bounded, Falling, Below, Leaves
  <2>5. AllBounded(instance)'
    BY <2>2, <2>3, <2>4
  <2> QED
    BY <2>1, <2>5, <1>0 DEF InstancesInv
<1>4. CASE UNCHANGED mssvars
  <2>1. AllBounded(instance)' <=> AllBounded(instance')
    BY DEF AllBounded, Bounded, Falling, Below, Leaves
  <2> QED
    BY <2>1, <1>4 DEF mssvars, InstancesInv
<1> QED
    BY <1>1, <1>2, <1>3, <1>4 DEF MssNext

\* For every even height of the tree, a TreeHash instance of ksnmss_sign()
\* computes only with leaves of the tree and never has more than j nodes on its
\* stack, all below its own height j.
THEOREM TreeHashInBounds == K2snSpec => []InstancesInBounds
<1>1. K2snInit => InstancesInv
    BY MssInitBounded DEF K2snInit
<1>2. InstancesInv /\ [K2snNext]_k2snvars => InstancesInv'
  <2> SUFFICES ASSUME InstancesInv, [K2snNext]_k2snvars PROVE InstancesInv'
    OBVIOUS
  <2>1. [MssNext]_mssvars
    BY DEF K2snNext, k2snvars
  <2> QED
    BY <2>1, MssNextBounded
<1>3. InstancesInv => InstancesInBounds
  <2> SUFFICES ASSUME InstancesInv, NEW j \in Heights
               PROVE  /\ instance[j].startleaf < usr
                      /\ Len(instance[j].stack) <= j
                      /\ \A k \in 1..Len(instance[j].stack) : instance[j].stack[k].height < j
    BY DEF InstancesInv, AllBounded, InstancesInBounds
  <2>1. Bounded(instance[j], j) /\ j \in Nat
    BY DEF InstancesInv, AllBounded, Heights
  <2>2. Falling(instance[j].stack) /\ Below(instance[j].stack, j)
    BY <2>1 DEF Bounded
  <2>3. PICK s : Leaves(instance[j].stack, s)
    BY <2>2, LeavesExist DEF Falling
  <2>4. Len(instance[j].stack) <= j
    BY <2>1, <2>2, <2>3, FallingIsSmall
  <2> QED
    BY <2>1, <2>2, <2>4 DEF Bounded, Below
<1> QED
    BY <1>1, <1>2, <1>3, PTL DEF K2snSpec

-----------------------------------------------------------------------------
(* Multiples *)

Divides(w, n) == \E z \in Nat : n = z * w

LEMMA Cancel ==
    ASSUME NEW w \in Nat \ {0}, NEW x \in Int, NEW y \in Int, x * w = y * w
    PROVE  x = y
<1> DEFINE d == x - y
<1>1. d \in Int /\ d * w = 0 /\ x = y + d
    OBVIOUS
<1> HIDE DEF d
<1>2. d = 0
    BY <1>1
<1> QED
    BY <1>1, <1>2

LEMMA DividesMod ==
    ASSUME NEW w \in Nat \ {0}, NEW n \in Nat
    PROVE  Divides(w, n) <=> n % w = 0
<1>1. ASSUME NEW z \in Nat, n = z * w PROVE n % w = 0
  <2>1. n = w * z + 0 /\ 0 \in 0..w-1 /\ z \in Int /\ n \in Int
    BY <1>1
  <2> QED
    BY ONLY <2>1, DivMod, w \in Nat \ {0}
<1>2. ASSUME n % w = 0 PROVE \E z \in Nat : n = z * w
  <2> DEFINE z == n \div w
             r == n % w
  <2>1. n = w * z + r /\ z \in Nat /\ r = 0
    BY <1>2
  <2> HIDE DEF z, r
  <2>3. z \in Nat /\ n = z * w
    BY <2>1
  <2> QED
    BY <2>3
<1> QED
    BY <1>1, <1>2 DEF Divides

LEMMA DividesAdds ==
    ASSUME NEW w \in Nat, NEW m \in Nat, NEW n \in Nat, Divides(w, m), Divides(w, n)
    PROVE  Divides(w, m + n)
<1>1. PICK x \in Nat : m = x * w
    BY DEF Divides
<1>2. PICK y \in Nat : n = y * w
    BY DEF Divides
<1>3. m + n = (x + y) * w /\ x + y \in Nat
    BY <1>1, <1>2
<1> QED
    BY <1>3 DEF Divides

\* A multiple below a multiple is at least one step below it.
LEMMA DividesGap ==
    ASSUME NEW w \in Nat \ {0}, NEW m \in Nat, NEW n \in Nat,
           Divides(w, m), Divides(w, n), m < n
    PROVE  m + w <= n /\ Divides(w, n - m)
<1>1. PICK x \in Nat : m = x * w
    BY DEF Divides
<1>2. PICK y \in Nat : n = y * w
    BY DEF Divides
<1> DEFINE d == y - x
<1>3. d \in Int /\ n - m = d * w
    BY <1>1, <1>2
<1> HIDE DEF d
<1>4. d >= 1
  <2> SUFFICES ASSUME d <= 0 PROVE FALSE
    BY <1>3
  <2>1. -d \in Nat
    BY <1>3
  <2>2. (-d) * w \in Nat /\ d * w = -((-d) * w)
    BY <2>1, <1>3
  <2> QED
    BY <2>2, <1>3
<1>5. d - 1 \in Nat /\ d * w = (d - 1) * w + w /\ (d - 1) * w \in Nat
    BY <1>3, <1>4
<1>6. m + w <= n
    BY <1>3, <1>5
<1>7. d \in Nat
    BY <1>3, <1>4
<1> QED
    BY <1>3, <1>6, <1>7 DEF Divides

\* A lower power divides what a higher one does.
LEMMA DividesLower ==
    ASSUME NEW k \in Nat, NEW d \in Nat, k <= d, NEW n, Divides(Pow2[d], n)
    PROVE  Divides(Pow2[k], n)
<1>1. PICK z \in Nat : n = z * Pow2[d]
    BY DEF Divides
<1> DEFINE c == d - k
<1>2. c \in Nat /\ k + c = d
    OBVIOUS
<1> HIDE DEF c
<1>3. Pow2[d] = Pow2[k] * Pow2[c] /\ Pow2[k] \in Nat /\ Pow2[c] \in Nat
    BY <1>2, Pow2Add, Pow2Facts
<1> DEFINE a == Pow2[k]
           b == Pow2[c]
<1>4. a \in Nat /\ b \in Nat /\ n = z * (a * b)
    BY <1>1, <1>3
<1> HIDE DEF a, b
<1>5. z * (a * b) = (z * b) * a /\ z * b \in Nat
    BY <1>4
<1> QED
    BY <1>4, <1>5 DEF Divides, a

\* An odd multiple of a power is not one of the next power.
LEMMA OddMultiple ==
    ASSUME NEW k \in Nat, NEW z \in Nat
    PROVE  ~Divides(Pow2[k + 1], (2 * z + 1) * Pow2[k])
<1> SUFFICES ASSUME NEW y \in Nat, (2 * z + 1) * Pow2[k] = y * Pow2[k + 1] PROVE FALSE
    BY DEF Divides
<1>1. Pow2[k + 1] = 2 * Pow2[k] /\ Pow2[k] \in Nat \ {0}
    BY Pow2Facts
<1> DEFINE a == Pow2[k]
<1>2. a \in Nat \ {0} /\ (2 * z + 1) * a = y * (2 * a)
    BY <1>1
<1> HIDE DEF a
<1>3. y * (2 * a) = (2 * y) * a /\ 2 * z + 1 \in Int /\ 2 * y \in Int
    BY <1>2
<1>4. 2 * z + 1 = 2 * y
    BY ONLY <1>2, <1>3, Cancel
<1> QED
    BY <1>4

\* What the step from n to n + 1 does to a quotient.
LEMMA NextQuotient ==
    ASSUME NEW w \in Nat \ {0}, NEW n \in Nat
    PROVE  /\ n \div w \in Nat
           /\ Divides(w, n + 1) => /\ (n + 1) \div w = n \div w + 1
                                   /\ n + 1 = (n \div w + 1) * w
           /\ ~Divides(w, n + 1) => (n + 1) \div w = n \div w
<1> DEFINE x == n \div w
           r == n % w
           y == (n + 1) \div w
           e == (n + 1) % w
<1>1. n = w * x + r /\ x \in Nat /\ r \in 0..w-1
    OBVIOUS
<1>2. n + 1 = w * y + e /\ y \in Nat /\ e \in 0..w-1
    OBVIOUS
<1>3. Divides(w, n + 1) <=> e = 0
    BY DividesMod
<1> HIDE DEF x, r, y, e
<1>4. ASSUME r = w - 1
      PROVE  Divides(w, n + 1) /\ y = x + 1 /\ n + 1 = (x + 1) * w
  <2>1. n + 1 = w * (x + 1) + 0 /\ x + 1 \in Int /\ 0 \in 0..w-1 /\ n + 1 \in Int
    BY <1>1, <1>4
  <2>2. (n + 1) % w = 0
    BY ONLY <2>1, DivMod, w \in Nat \ {0}
  <2>3. e = 0
    BY <2>2 DEF e
  <2>4. (x + 1) * w = y * w /\ x + 1 \in Int /\ y \in Int
    BY <2>1, <2>3, <1>1, <1>2
  <2>5. x + 1 = y
    BY ONLY <2>4, Cancel, w \in Nat \ {0}
  <2>6. n + 1 = (x + 1) * w
    BY <2>1, <1>1
  <2> QED
    BY <2>3, <2>5, <2>6, <1>3
<1>5. ASSUME r # w - 1
      PROVE  ~Divides(w, n + 1) /\ y = x
  <2> DEFINE r1 == r + 1
             n1 == n + 1
  <2>1. /\ n1 = w * x + r1 /\ x \in Int /\ r1 \in 0..w-1 /\ n1 \in Int
        /\ r1 = r + 1 /\ r1 # 0
    BY <1>1, <1>5
  <2> HIDE DEF r1, n1
  <2>2. n1 % w = r1
    BY ONLY <2>1, DivMod, w \in Nat \ {0}, ZenonT(60)
  <2>3. e = r + 1 /\ e # 0
    BY <2>1, <2>2, <1>1 DEF e, n1
  <2>4. x * w = y * w /\ x \in Int /\ y \in Int
    BY <2>1, <2>3, <1>1, <1>2 DEF n1
  <2>5. x = y
    BY ONLY <2>4, Cancel, w \in Nat \ {0}
  <2> QED
    BY <2>3, <2>5, <1>3
<1>6. /\ x \in Nat
      /\ Divides(w, n + 1) => y = x + 1 /\ n + 1 = (x + 1) * w
      /\ ~Divides(w, n + 1) => y = x
    BY <1>1, <1>4, <1>5
<1> QED
    BY <1>6 DEF x, y

-----------------------------------------------------------------------------
(* What the nodes on a stack are *)

\* Every node on the stack is the one over its leaves, which begin at leaf b.
Sound(st, s, b) ==
    \A k \in 1..Len(st) :
        /\ st[k].key = <<st[k].height, st[k].indx>>
        /\ st[k].indx * Pow2[st[k].height] = b + s[k - 1]

LEMMA SumDivides ==
    ASSUME NEW st \in Seq(StackNodes), NEW s, Leaves(st, s), NEW m \in 0..Len(st),
           NEW d \in Nat, \A k \in 1..m : st[k].height >= d
    PROVE  Divides(Pow2[d], s[m])
<1> DEFINE P == {k \in 0..m : Divides(Pow2[d], s[k])}
<1>1. 0 \in P
  <2> DEFINE w == Pow2[d]
  <2>1. w \in Nat /\ s[0] = 0
    BY Pow2Facts DEF Leaves
  <2> HIDE DEF w
  <2>2. s[0] = 0 * w /\ 0 \in Nat
    BY <2>1
  <2> QED
    BY <2>2 DEF Divides, w
<1>2. ASSUME NEW k \in 1..m, k - 1 \in P PROVE k \in P
  <2>1. k \in 1..Len(st) /\ k - 1 \in 0..Len(st)
    OBVIOUS
  <2>2. st[k] \in StackNodes
    BY <2>1
  <2>3. st[k].height \in Nat /\ d <= st[k].height
    BY <2>2 DEF StackNodes
  <2>4. Divides(Pow2[d], Pow2[st[k].height])
    <3> DEFINE w == Pow2[st[k].height]
    <3>1. w \in Nat
        BY <2>3, Pow2Facts
    <3> HIDE DEF w
    <3>2. w = 1 * w /\ 1 \in Nat
        BY <3>1
    <3>3. Divides(w, w)
        BY <3>2 DEF Divides
    <3> QED
        BY <2>3, <3>3, DividesLower DEF w
  <2>5. /\ s[k] = s[k - 1] + Pow2[st[k].height] /\ s[k - 1] \in Nat
        /\ Pow2[st[k].height] \in Nat /\ Pow2[d] \in Nat
    BY <2>1, <2>3, Pow2Facts DEF Leaves
  <2>6. Divides(Pow2[d], s[k - 1])
    BY <1>2
  <2>7. Divides(Pow2[d], s[k - 1] + Pow2[st[k].height])
    BY ONLY <2>4, <2>5, <2>6, DividesAdds
  <2> QED
    BY <2>5, <2>7
<1> HIDE DEF P
<1>3. \A k \in 0..m : k \in P
    BY ONLY <1>1, <1>2, UpTo, m \in 0..Len(st), Len(st) \in Nat
<1> QED
    BY <1>3 DEF P

\* The nodes that a leaf climbs to are the ones whose last leaf it is.
LEMMA ClimbKeys ==
    ASSUME NEW st, Falling(st), NEW s, Leaves(st, s), NEW b \in Nat, Sound(st, s, b),
           NEW d \in Nat, Below(st, d), Divides(Pow2[d], b),
           NEW id \in Nat, id = b + s[Len(st)],
           NEW path, NEW e, NEW x, Climbs(st, path, e, x), Merges(st, path, e),
           path[1] = StackNode(Leaf(id), 0, id)
    PROVE  \A k \in 0..e :
               /\ path[k + 1] \in StackNodes /\ path[k + 1].height = k
               /\ path[k + 1].key = <<k, path[k + 1].indx>>
               /\ (path[k + 1].indx + 1) * Pow2[k] = id + 1
<1> DEFINE n == Len(st)
           Good(k) == /\ path[k + 1] \in StackNodes /\ path[k + 1].height = k
                      /\ path[k + 1].key = <<k, path[k + 1].indx>>
                      /\ (path[k + 1].indx + 1) * Pow2[k] = id + 1
           P == {k \in 0..e : Good(k)}
<1>1. st \in Seq(StackNodes) /\ n \in Nat
    BY DEF Falling
<1>2. e \in 0..n /\ e \in Nat
    BY <1>1 DEF Climbs
<1>3. 0 \in P
  <2>1. path[0 + 1] = path[1]
    OBVIOUS
  <2>2. /\ path[1].height = 0 /\ path[1].indx = id /\ path[1].key = <<0, id>>
        /\ path[1] \in StackNodes
    BY DEF StackNode, Leaf, StackNodes
  <2>3. Pow2[0] = 1
    BY Pow2Facts
  <2>4. Good(0)
    BY <2>1, <2>2, <2>3
  <2> QED
    BY <2>4, <1>2
<1>4. ASSUME NEW k \in 1..e, k - 1 \in P PROVE k \in P
  <2> DEFINE h == k - 1
             c == n - h
             l == st[c]
             nd == path[k]
             w == Pow2[h]
  <2>1. h \in Nat /\ h \in 0..e-1 /\ h + 1 = k /\ c \in 1..n /\ c = n - k + 1 /\ c - 1 = n - k
    BY <1>1, <1>2
  <2>2. nd \in StackNodes /\ nd.height = h /\ nd.key = <<h, nd.indx>> /\ (nd.indx + 1) * w = id + 1
    <3>1. Good(h)
        BY <1>4
    <3> QED
        BY <3>1, <2>1
  <2>3. l \in StackNodes /\ l.height = h
    BY <2>1, <1>1 DEF Climbs
  <2>4. l.key = <<h, l.indx>> /\ l.indx * w = b + s[c - 1] /\ s[c] = s[c - 1] + w
    <3>1. l.key = <<l.height, l.indx>> /\ l.indx * Pow2[l.height] = b + s[c - 1]
        BY <2>1 DEF Sound
    <3>2. s[c] = s[c - 1] + Pow2[l.height]
        BY <2>1 DEF Leaves
    <3> QED
        BY <3>1, <3>2, <2>3
  <2>5. s[n] + 1 = s[c] + w
    <3>1. h \in 0..e
        BY <2>1, <1>2
    <3> QED
        BY <3>1, ClimbSums
  <2>6. s[c - 1] \in Nat /\ s[c] \in Nat /\ s[n] \in Nat /\ w \in Nat \ {0} /\ Pow2[k] = 2 * w
    <3>1. c - 1 \in 0..n /\ c \in 0..n /\ n \in 0..n
        BY <2>1, <1>1
    <3>2. Pow2[h + 1] = 2 * Pow2[h] /\ Pow2[h] \in Nat \ {0}
        BY <2>1, Pow2Facts
    <3> QED
        BY <3>1, <3>2, <2>1 DEF Leaves
  <2>7. nd.indx \in Nat /\ l.indx \in Nat
    BY <2>2, <2>3 DEF StackNodes
  <2> DEFINE a == s[c - 1]
             hi == nd.indx
             lo == l.indx
  <2>8. hi = lo + 1
    <3>1. (hi + 1) * w = b + a + w + w
      <4>1. (hi + 1) * w = id + 1 /\ s[n] + 1 = (a + w) + w /\ id = b + s[n]
        BY <2>2, <2>4, <2>5
      <4>2. a \in Nat /\ w \in Nat /\ s[n] \in Nat
        BY <2>6
      <4> HIDE DEF a, w, hi, n
      <4> QED
        BY <4>1, <4>2
    <3>2. lo * w = b + a
        BY <2>4
    <3>3. hi \in Nat /\ lo \in Nat /\ w \in Nat \ {0} /\ a \in Nat
        BY <2>6, <2>7
    <3> HIDE DEF hi, lo, w, a
    <3>4. (lo + 2) * w = lo * w + w + w
        BY <3>3
    <3>5. (hi + 1) * w = (lo + 2) * w /\ hi + 1 \in Int /\ lo + 2 \in Int
        BY <3>1, <3>2, <3>3, <3>4
    <3>6. hi + 1 = lo + 2
        BY ONLY <3>3, <3>5, Cancel
    <3> QED
        BY <3>3, <3>6
  <2>9. Divides(Pow2[k], b + a)
    <3>1. Divides(Pow2[k], b)
      <4>1. l.height < d
        BY <2>1 DEF Below
      <4>2. k \in Nat /\ k <= d
        BY <4>1, <2>1, <2>3
      <4> QED
        BY <4>2, DividesLower
    <3>2. Divides(Pow2[k], a)
      <4>1. c - 1 \in 0..Len(st) /\ k \in Nat
        BY <2>1, <1>1
      <4>2. ASSUME NEW j \in 1..c-1 PROVE st[j].height >= k
        <5>1. j \in 1..n /\ c \in 1..n /\ j < c
            BY <2>1, <1>1
        <5>2. st[j].height > st[c].height
            BY <5>1 DEF Falling
        <5>3. st[j] \in StackNodes
            BY <5>1, <1>1
        <5>4. st[j].height \in Nat
            BY <5>3 DEF StackNodes
        <5> QED
            BY <5>2, <5>4, <2>1, <2>3
      <4> HIDE DEF c
      <4> QED
        BY <4>1, <4>2, <1>1, SumDivides
    <3>3. Pow2[k] \in Nat /\ a \in Nat
        BY <2>6
    <3> HIDE DEF a
    <3> QED
        BY ONLY <3>1, <3>2, <3>3, DividesAdds, b \in Nat
  <2>10. PICK z \in Nat : lo = 2 * z
    <3>1. PICK z \in Nat : b + a = z * Pow2[k]
        BY <2>9 DEF Divides
    <3>2. lo * w = z * (2 * w)
        BY <3>1, <2>4, <2>6
    <3>3. lo \in Nat /\ w \in Nat \ {0}
        BY <2>6, <2>7
    <3> HIDE DEF lo, w
    <3>4. lo * w = (2 * z) * w /\ lo \in Int /\ 2 * z \in Int
        BY <3>2, <3>3
    <3>5. lo = 2 * z
        BY ONLY <3>3, <3>4, Cancel
    <3> QED
        BY <3>5
  <2> DEFINE y == path[k + 1]
  <2>11. y = Merge(l, nd)
    BY <2>1 DEF Merges
  <2>12. hi \div 2 = z
    BY <2>8, <2>10
  <2>13. y = StackNode(Parent(l.key, nd.key, k, z), k, z)
    BY <2>1, <2>2, <2>11, <2>12 DEF Merge
  <2>14. Parent(l.key, nd.key, k, z) = <<k, z>>
    <3>1. l.key = <<k - 1, 2 * z>> /\ nd.key = <<k - 1, 2 * z + 1>>
        BY <2>2, <2>4, <2>8, <2>10
    <3> HIDE DEF l, nd
    <3> QED
        BY <3>1 DEF Parent
  <2>15. y.height = k /\ y.indx = z /\ y.key = <<k, z>> /\ y \in StackNodes
    BY <2>13, <2>14, <2>1 DEF StackNode, StackNodes
  <2>16. (z + 1) * Pow2[k] = id + 1
    <3>1. (hi + 1) * w = id + 1 /\ hi = 2 * z + 1 /\ Pow2[k] = 2 * w
        BY <2>2, <2>6, <2>8, <2>10
    <3>2. w \in Nat
        BY <2>6
    <3> HIDE DEF hi, w
    <3>3. (z + 1) * (2 * w) = (2 * z + 2) * w
        BY <3>2
    <3> QED
        BY <3>1, <3>3
  <2>17. Good(k)
    BY <2>15, <2>16
  <2> QED
    BY <2>17, <1>2
<1> HIDE DEF P
<1>5. \A k \in 0..e : k \in P
    BY ONLY <1>2, <1>3, <1>4, UpTo
<1> QED
    BY <1>5 DEF P

\* From the first leaf on, a leaf climbs as high as its end is aligned.
LEMMA ClimbReaches ==
    ASSUME NEW st, Falling(st), NEW s, Leaves(st, s),
           NEW path, NEW e, NEW x, Climbs(st, path, e, x),
           NEW h \in Nat, Divides(Pow2[h], s[Len(st)] + 1)
    PROVE  h <= e
<1> DEFINE n == Len(st)
           m == n - e
<1>1. st \in Seq(StackNodes) /\ n \in Nat
    BY DEF Falling
<1>2. /\ e \in 0..n /\ e \in Nat /\ m \in 0..n
      /\ \A k \in 1..m : st[k].height > e
      /\ s[n] + 1 = s[m] + Pow2[e]
  <2>1. e \in 0..n
    BY DEF Climbs
  <2>2. e \in 0..e
    BY <2>1, <1>1
  <2> QED
    BY <2>1, <2>2, <1>1, ClimbSums
<1> SUFFICES ASSUME e < h PROVE FALSE
    BY <1>2
<1> HIDE DEF m
<1>3. Divides(Pow2[e + 1], s[m])
  <2>1. ASSUME NEW k \in 1..m PROVE st[k].height >= e + 1
    <3>1. k \in 1..n
        BY <1>1, <1>2
    <3>2. st[k] \in StackNodes
        BY <3>1, <1>1
    <3>3. st[k].height \in Nat
        BY <3>2 DEF StackNodes
    <3> QED
        BY <3>3, <1>2
  <2> QED
    BY <2>1, <1>1, <1>2, SumDivides
<1>4. PICK z \in Nat : s[m] = z * Pow2[e + 1]
    BY <1>3 DEF Divides
<1>5. Divides(Pow2[e + 1], s[n] + 1)
  <2>1. e + 1 \in Nat /\ e + 1 <= h
    BY <1>2
  <2> QED
    BY <2>1, DividesLower
<1>6. Pow2[e + 1] = 2 * Pow2[e] /\ Pow2[e] \in Nat
    BY <1>2, Pow2Facts
<1> DEFINE w == Pow2[e]
<1>7. w \in Nat /\ s[n] + 1 = z * (2 * w) + w
    BY <1>2, <1>4, <1>6
<1> HIDE DEF w
<1>8. s[n] + 1 = (2 * z + 1) * w
    BY <1>7
<1> QED
    BY <1>2, <1>5, <1>8, OddMultiple DEF w

\* A stack with exactly the leaves from b to n-1, all nodes below height d.
Stacked(st, b, d, n) ==
    /\ Falling(st) /\ Below(st, d)
    /\ \E s : Leaves(st, s) /\ Sound(st, s, b) /\ n = b + s[Len(st)]

\* What leaf id becomes on its way: at each height the node whose last leaf
\* it is.
Ends(path, e, id) ==
    \A k \in 0..e :
        /\ path[k + 1] \in StackNodes /\ path[k + 1].height = k
        /\ path[k + 1].key = <<k, path[k + 1].indx>>
        /\ (path[k + 1].indx + 1) * Pow2[k] = id + 1

\* The way ends at height e; below d, the stack has one leaf more.
Pushes(st, path, new, b, d, id, e) ==
    /\ e \in 0..d /\ e <= Len(st) /\ Len(path) = e + 1 /\ Ends(path, e, id)
    /\ path[1] = StackNode(Leaf(id), 0, id)
    /\ b = 0 => \A h \in Nat : Divides(Pow2[h], id + 1) => h <= e
    /\ e # d =>
         /\ Stacked(new, b, d, id + 1) /\ Len(new) \in Nat \ {0}
         /\ new[1].height = IF Len(new) = 1 THEN e ELSE st[1].height

LEMMA Pushing ==
    ASSUME NEW st, NEW b \in Nat, NEW d \in Nat, Divides(Pow2[d], b),
           NEW id \in Nat, Stacked(st, b, d, id),
           NEW path, path = Climb(st, StackNode(Leaf(id), 0, id)),
           NEW new, new = Pushed(st, path)
    PROVE  \E e : Pushes(st, path, new, b, d, id, e)
<1> DEFINE n == Len(st)
           nd == StackNode(Leaf(id), 0, id)
<1>1. PICK s : Leaves(st, s) /\ Sound(st, s, b) /\ id = b + s[Len(st)]
    BY DEF Stacked
<1>2. Falling(st) /\ Below(st, d) /\ st \in Seq(StackNodes) /\ n \in Nat
    BY DEF Stacked, Falling
<1>3. nd \in StackNodes /\ nd.height = 0
    BY DEF StackNode, Leaf, StackNodes
<1>4. path = Climb(st, nd)
    OBVIOUS
<1> HIDE DEF nd
<1>5. PICK e, x : Climbs(st, path, e, x) /\ Merges(st, path, e)
    BY ONLY <1>2, <1>3, <1>4, Climbing
<1>6. path[1] = nd
    BY ONLY <1>2, <1>3, <1>4, Climbing
<1>7. Ends(path, e, id)
  <2>1. path[1] = StackNode(Leaf(id), 0, id)
    BY <1>6 DEF nd
  <2> QED
    BY <2>1, <1>1, <1>2, <1>5, ClimbKeys, SMTT(60) DEF Ends
<1>8. e \in 0..n /\ e \in Nat /\ Len(path) = e + 1 /\ path[e + 1] = x /\ x.height = e
    BY <1>2, <1>5 DEF Climbs
<1>9. path[Len(path)] = x
    BY <1>8
<1> DEFINE last == path[Len(path)]
<1>10. /\ last.height <= d
       /\ last.height # d =>
            /\ Falling(Pushed(st, path)) /\ Below(Pushed(st, path), d)
            /\ \E u : /\ Leaves(Pushed(st, path), u)
                      /\ u[Len(Pushed(st, path))] = s[Len(st)] + 1
    BY <1>1, <1>2, <1>3, <1>4, PushedFalls
<1>11. e \in 0..d
    BY <1>8, <1>9, <1>10
<1>12. ASSUME b = 0, NEW h \in Nat, Divides(Pow2[h], id + 1) PROVE h <= e
  <2>1. s[n] \in Nat
    <3>1. n \in 0..n
        BY <1>2
    <3> QED
        BY <3>1, <1>1 DEF Leaves
  <2>2. id + 1 = s[Len(st)] + 1
    BY <2>1, <1>1, <1>12
  <2>3. Divides(Pow2[h], s[Len(st)] + 1)
    BY <2>2, <1>12
  <2> QED
    BY <2>3, <1>1, <1>2, <1>5, ClimbReaches
<1> DEFINE m == n - e
           rest == SubSeq(st, 1, m)
<1>13. m \in Nat /\ m <= n /\ n - Len(path) + 1 = m
    BY <1>2, <1>8
<1>14. rest \in Seq(StackNodes) /\ Len(rest) = m /\ \A k \in 1..m : rest[k] = st[k]
    BY <1>2, <1>13
<1>15. new = rest \o <<x>>
    BY <1>9, <1>13 DEF Pushed
<1>16. x \in StackNodes
    BY <1>5 DEF Climbs
<1> HIDE DEF m, rest
<1>17. /\ new \in Seq(StackNodes) /\ Len(new) = m + 1
       /\ \A k \in 1..m : new[k] = st[k]
       /\ new[m + 1] = x
  <2>1. m \in Nat
    BY <1>13
  <2> QED
    BY ONLY <2>1, <1>14, <1>15, <1>16
<1>18. new[1].height = IF Len(new) = 1 THEN e ELSE st[1].height
  <2>1. CASE m = 0
    BY <2>1, <1>8, <1>17
  <2>2. CASE m # 0
    <3>1. 1 \in 1..m
        BY <2>2, <1>13
    <3> QED
        BY <3>1, <2>2, <1>13, <1>17
  <2> QED
    BY <2>1, <2>2
<1>19. ASSUME e # d PROVE Stacked(new, b, d, id + 1)
  <2>1. last.height # d
    BY <1>8, <1>9, <1>19
  <2>2. Falling(new) /\ Below(new, d)
    BY <2>1, <1>10
  <2>3. PICK u : Leaves(new, u) /\ u[Len(new)] = s[Len(st)] + 1
    BY <2>1, <1>10
  <2> HIDE DEF last
  <2>4. \A k \in 0..m : u[k] = s[k]
    <3> DEFINE P == {k \in 0..m : u[k] = s[k]}
    <3>1. 0 \in P
        BY <1>1, <1>13, <2>3 DEF Leaves
    <3>2. ASSUME NEW k \in 1..m, k - 1 \in P PROVE k \in P
      <4>1. k \in 1..n /\ k \in 1..Len(new) /\ u[k - 1] = s[k - 1] /\ new[k] = st[k]
        BY <3>2, <1>2, <1>13, <1>17
      <4>2. u[k] = u[k - 1] + Pow2[new[k].height] /\ s[k] = s[k - 1] + Pow2[st[k].height]
        BY <4>1, <1>1, <2>3 DEF Leaves
      <4> QED
        BY <4>1, <4>2
    <3> HIDE DEF P
    <3>3. \A k \in 0..m : k \in P
        BY ONLY <3>1, <3>2, <1>13, UpTo
    <3> QED
        BY <3>3 DEF P
  <2>5. Sound(new, u, b)
    <3> SUFFICES ASSUME NEW k \in 1..Len(new)
                 PROVE  /\ new[k].key = <<new[k].height, new[k].indx>>
                        /\ new[k].indx * Pow2[new[k].height] = b + u[k - 1]
        BY DEF Sound
    <3>1. CASE k = m + 1
      <4>1. new[k] = x /\ x = path[e + 1] /\ k - 1 = m /\ u[k - 1] = s[m]
        <5>1. m \in 0..m
            BY <1>13
        <5> QED
            BY <5>1, <3>1, <2>4, <1>8, <1>13, <1>17
      <4>2. e \in 0..e
        BY <1>8
      <4>3. x.height = e /\ x.key = <<e, x.indx>> /\ (x.indx + 1) * Pow2[e] = id + 1
        BY <4>1, <4>2, <1>7 DEF Ends
      <4>4. s[n] + 1 = s[m] + Pow2[e]
        BY <4>2, <1>1, <1>2, <1>5, ClimbSums DEF m
      <4>5. s[m] \in Nat /\ s[n] \in Nat /\ Pow2[e] \in Nat /\ x.indx \in Nat
        <5>1. m \in 0..n /\ n \in 0..n
            BY <1>2, <1>13
        <5> QED
            BY <5>1, <1>1, <1>8, <1>16, Pow2Facts DEF Leaves, StackNodes
      <4> DEFINE w == Pow2[e]
                 y == x.indx
                 a == s[m]
                 c == s[n]
      <4>6. w \in Nat /\ y \in Nat /\ a \in Nat /\ c \in Nat /\ (y + 1) * w = id + 1 /\ c + 1 = a + w /\ id = b + c
        BY <4>3, <4>4, <4>5, <1>1
      <4> HIDE DEF w, y, a, c
      <4>7. y * w = b + a
        BY <4>6
      <4> QED
        BY <4>1, <4>3, <4>7 DEF w, y, a
    <3>2. CASE k # m + 1
      <4>1. k \in 1..m /\ k \in 1..n /\ k - 1 \in 0..m
        BY <3>2, <1>2, <1>13, <1>17
      <4>2. new[k] = st[k] /\ u[k - 1] = s[k - 1]
        BY <4>1, <2>4, <1>17
      <4> QED
        BY <4>1, <4>2, <1>1 DEF Sound
    <3> QED
        BY <3>1, <3>2
  <2>6. id + 1 = b + u[Len(new)]
    <3>1. s[n] \in Nat
      <4>1. n \in 0..n
        BY <1>2
      <4> QED
        BY <4>1, <1>1 DEF Leaves
    <3> QED
        BY <3>1, <2>3, <1>1
  <2> QED
    BY <2>2, <2>3, <2>5, <2>6 DEF Stacked
<1>20. Len(new) \in Nat \ {0}
    BY <1>13, <1>17
<1> HIDE DEF last
<1>21. Pushes(st, path, new, b, d, id, e)
  <2>1. path[1] = StackNode(Leaf(id), 0, id) /\ e <= Len(st)
    BY <1>2, <1>6, <1>8 DEF nd
  <2> QED
    BY <2>1, <1>7, <1>8, <1>11, <1>12, <1>18, <1>19, <1>20 DEF Pushes
<1> QED
    BY <1>21

\* Nothing is on an empty stack.
LEMMA StackedEmpty ==
    ASSUME NEW b \in Nat, NEW d
    PROVE  Stacked(<<>>, b, d, b)
<1>1. PICK s : Leaves(<<>>, s) /\ s[Len(<<>>)] = 0
    BY EmptyStack
<1>2. Falling(<<>>) /\ Below(<<>>, d) /\ Sound(<<>>, s, b) /\ b = b + s[Len(<<>>)]
    BY <1>1, EmptyStack DEF Sound
<1> QED
    BY <1>1, <1>2 DEF Stacked

\* The leaves on a stack: fewer than under a node of height d, and at least
\* those under its first node but fewer than twice as many.
LEMMA StackedSize ==
    ASSUME NEW st, NEW b \in Nat, NEW d \in Nat, NEW n, Stacked(st, b, d, n)
    PROVE  /\ st \in Seq(StackNodes)
           /\ n \in Nat /\ b <= n /\ n < b + Pow2[d]
           /\ st = <<>> => n = b
           /\ st # <<>> => /\ st[1].height \in Nat /\ st[1].height < d
                           /\ n < b + 2 * Pow2[st[1].height]
<1>1. PICK s : Leaves(st, s) /\ Sound(st, s, b) /\ n = b + s[Len(st)]
    BY DEF Stacked
<1>2. Falling(st) /\ Below(st, d) /\ st \in Seq(StackNodes) /\ Len(st) \in Nat
    BY DEF Stacked, Falling
<1>3. s[Len(st)] \in Nat /\ s[0] = 0
  <2>1. Len(st) \in 0..Len(st)
    BY <1>2
  <2> QED
    BY <2>1, <1>1 DEF Leaves
<1>4. s[Len(st)] < Pow2[d] /\ Pow2[d] \in Nat
    BY <1>1, <1>2, FallingIsSmall, Pow2Facts
<1>5. ASSUME st # <<>>
      PROVE  /\ st[1].height \in Nat /\ st[1].height < d
             /\ n < b + 2 * Pow2[st[1].height]
  <2>1. 1 \in 1..Len(st)
    BY <1>5, <1>2
  <2>2. st[1] \in StackNodes
    BY <2>1, <1>2
  <2> DEFINE h == st[1].height
  <2>3. h \in Nat /\ h < d
    BY <2>1, <2>2, <1>2 DEF StackNodes, Below
  <2>4. Below(st, h + 1)
    <3> SUFFICES ASSUME NEW k \in 1..Len(st) PROVE st[k].height < h + 1
        BY DEF Below
    <3>1. CASE k = 1
        BY <3>1, <2>3
    <3>2. CASE k # 1
      <4>1. 1 < k
        BY <3>2
      <4>2. st[1].height > st[k].height
        BY <4>1, <2>1, <1>2 DEF Falling
      <4>3. st[k] \in StackNodes
        BY <1>2
      <4>4. st[k].height \in Nat
        BY <4>3 DEF StackNodes
      <4> QED
        BY <4>2, <4>4, <2>3
    <3> QED
        BY <3>1, <3>2
  <2>5. Pow2[h + 1] = 2 * Pow2[h] /\ h + 1 \in Nat /\ Pow2[h] \in Nat
    BY <2>3, Pow2Facts
  <2> HIDE DEF h
  <2>6. s[Len(st)] < Pow2[h + 1]
    BY <2>4, <2>5, <1>1, <1>2, FallingIsSmall
  <2>7. n < b + 2 * Pow2[h]
    BY <2>5, <2>6, <1>1, <1>3
  <2> QED
    BY <2>3, <2>7 DEF h
<1>6. st = <<>> => n = b
    BY <1>1, <1>3
<1> QED
    BY <1>1, <1>2, <1>3, <1>4, <1>5, <1>6

-----------------------------------------------------------------------------
(* key_generation() *)

PathStarted(a, n) ==
    /\ DOMAIN a = 0..hlength-1
    /\ \A h \in 0..hlength-1 : 2 * Pow2[h] <= n => a[h] = <<h, 1>>

Ready(x, h) ==
    x.finalized = 1 /\ x.v = <<h, 3>> /\ x.stack = <<>> /\ x.lowheight = Infy
FirstResults(ins, n) == \A h \in Heights : 4 * Pow2[h] <= n => Ready(ins[h], h)

\* After n leaves: they are on the stack, and what the first path and the
\* instances need of them is saved.
Growing(st, a, ins, n) ==
    Stacked(st, 0, hlength, n) /\ PathStarted(a, n) /\ FirstResults(ins, n)

\* A leaf passes the node with the odd index c at height h if it is the last
\* leaf under it.
LEMMA PassesBy ==
    ASSUME NEW path, NEW e \in Nat, Len(path) = e + 1, NEW id \in Nat, Ends(path, e, id),
           \A j \in Nat : Divides(Pow2[j], id + 1) => j <= e,
           NEW h \in Nat, NEW c \in {1, 3}
    PROVE  /\ (\E k \in 1..Len(path)-1 : path[k].height = h /\ path[k].indx = c)
                <=> (c + 1) * Pow2[h] = id + 1
           /\ (c + 1) * Pow2[h] = id + 1 => path[h + 1].key = <<h, c>>
<1>1. ASSUME NEW k \in 1..Len(path)-1, path[k].height = h, path[k].indx = c
      PROVE  (c + 1) * Pow2[h] = id + 1
  <2>1. k - 1 \in 0..e /\ (k - 1) + 1 = k
    OBVIOUS
  <2>2. path[k].height = k - 1 /\ (path[k].indx + 1) * Pow2[k - 1] = id + 1
    BY <2>1 DEF Ends
  <2> QED
    BY <2>2, <1>1
<1>2. ASSUME (c + 1) * Pow2[h] = id + 1
      PROVE  /\ h + 1 \in 1..Len(path)-1
             /\ path[h + 1].height = h /\ path[h + 1].indx = c /\ path[h + 1].key = <<h, c>>
  <2>1. Pow2[h + 1] = 2 * Pow2[h] /\ Pow2[h] \in Nat \ {0} /\ h + 1 \in Nat
    BY ONLY Pow2Facts, h \in Nat
  <2>2. Divides(Pow2[h + 1], id + 1)
    <3> DEFINE w == Pow2[h]
               z == IF c = 1 THEN 1 ELSE 2
    <3>1. w \in Nat /\ z \in Nat /\ c + 1 = 2 * z /\ id + 1 = (c + 1) * w
        BY <1>2, <2>1
    <3> HIDE DEF w, z
    <3>2. (2 * z) * w = z * (2 * w)
        BY <3>1
    <3>3. id + 1 = z * (2 * w)
        BY <3>1, <3>2
    <3> QED
        BY <2>1, <3>1, <3>3 DEF Divides, w
  <2>3. h + 1 <= e /\ h \in 0..e
    BY <2>1, <2>2
  <2>4. /\ path[h + 1] \in StackNodes /\ path[h + 1].height = h
        /\ path[h + 1].key = <<h, path[h + 1].indx>>
        /\ (path[h + 1].indx + 1) * Pow2[h] = id + 1
    BY <2>3 DEF Ends
  <2> DEFINE y == path[h + 1].indx
             w == Pow2[h]
  <2>5. y \in Nat /\ w \in Nat \ {0} /\ (y + 1) * w = (c + 1) * w
    BY <1>2, <2>1, <2>4 DEF StackNodes
  <2> HIDE DEF y, w
  <2>6. y + 1 \in Int /\ c + 1 \in Int
    BY <2>5
  <2>7. y + 1 = c + 1
    BY ONLY <2>5, <2>6, Cancel
  <2>8. y = c
    BY <2>5, <2>7
  <2> QED
    BY <2>3, <2>4, <2>8 DEF y
<1> QED
    BY <1>1, <1>2

LEMMA LeafGrows ==
    ASSUME AllBounded(instance), NEW id \in 0..usr-1,
           Growing(treestack, auth, instance, id), GenerateLeaf(id)
    PROVE  /\ PathStarted(auth', id + 1) /\ FirstResults(instance', id + 1)
           /\ id # usr - 1 => next' = id + 1 /\ Growing(treestack', auth', instance', id + 1)
           /\ id = usr - 1 => next' = 0 /\ treestack' = <<>> /\ retain' = <<hlength - 2, 3>>
<1> DEFINE path == Climb(treestack, StackNode(Leaf(id), 0, id))
           new == Pushed(treestack, path)
           At(h, c) == \E k \in 1..Len(path)-1 : path[k].height = h /\ path[k].indx = c
           Key(h) == path[h + 1].key
           Done(h) == [instance[h] EXCEPT !.v = Key(h), !.finalized = 1,
                                          !.lowheight = Infy, !.stack = <<>>]
           ins == [h \in DOMAIN instance |-> IF At(h, 3) THEN Done(h) ELSE instance[h]]
<1>0. /\ usr \in Nat \ {0} /\ usr = Pow2[hlength] /\ hlength \in Nat /\ hlength >= 4
      /\ id \in Nat /\ 0 \in Nat
    BY HeightAssumption, Pow2Facts DEF usr
<1>1. PICK e : Pushes(treestack, path, new, 0, hlength, id, e)
  <2>1. Divides(Pow2[hlength], 0)
    <3> DEFINE w == Pow2[hlength]
    <3>1. w \in Nat
        BY <1>0
    <3> HIDE DEF w
    <3>2. 0 = 0 * w
        BY <3>1
    <3> QED
        BY <3>2 DEF Divides, w
  <2>2. Stacked(treestack, 0, hlength, id)
    BY DEF Growing
  <2> QED
    BY <1>0, <2>1, <2>2, Pushing
<1>2. /\ auth' = [h \in DOMAIN auth |-> IF At(h, 1) THEN Key(h) ELSE auth[h]]
      /\ instance' = ins
      /\ retain' = IF At(hlength - 2, 3) THEN Key(hlength - 2) ELSE retain
      /\ id = usr - 1 => treestack' = <<>> /\ next' = 0
      /\ id # usr - 1 => treestack' = new /\ next' = id + 1
    BY DEF GenerateLeaf
<1> HIDE DEF path, new
<1>3. /\ e \in Nat /\ e <= hlength /\ Len(path) = e + 1 /\ Ends(path, e, id)
      /\ \A h \in Nat : Divides(Pow2[h], id + 1) => h <= e
      /\ e # hlength => Stacked(new, 0, hlength, id + 1)
    BY <1>0, <1>1 DEF Pushes
<1>4. ASSUME NEW h \in Nat, NEW c \in {1, 3}
      PROVE  /\ At(h, c) <=> (c + 1) * Pow2[h] = id + 1
             /\ At(h, c) => Key(h) = <<h, c>>
  <2>1. /\ e \in Nat /\ Len(path) = e + 1 /\ id \in Nat /\ Ends(path, e, id)
        /\ \A j \in Nat : Divides(Pow2[j], id + 1) => j <= e
    BY <1>0, <1>3
  <2>2. /\ (\E k \in 1..Len(path)-1 : path[k].height = h /\ path[k].indx = c)
                <=> (c + 1) * Pow2[h] = id + 1
        /\ (c + 1) * Pow2[h] = id + 1 => path[h + 1].key = <<h, c>>
    BY ONLY <2>1, PassesBy, h \in Nat, c \in {1, 3}, ZenonT(60)
  <2> QED
    BY <2>2
<1> HIDE DEF At, Key
<1>5. PathStarted(auth', id + 1)
  <2>1. DOMAIN auth = 0..hlength-1 /\ DOMAIN auth' = 0..hlength-1
    BY <1>2 DEF Growing, PathStarted
  <2>2. ASSUME NEW h \in 0..hlength-1, 2 * Pow2[h] <= id + 1 PROVE auth'[h] = <<h, 1>>
    <3>1. h \in Nat /\ Pow2[h] \in Nat /\ 1 \in {1, 3} /\ (1 + 1) * Pow2[h] = 2 * Pow2[h]
        BY <1>0, Pow2Facts
    <3>2. auth'[h] = IF At(h, 1) THEN Key(h) ELSE auth[h]
        BY <1>2, <2>1
    <3>3. At(h, 1) <=> 2 * Pow2[h] = id + 1
        BY <3>1, <1>4
    <3>4. At(h, 1) => Key(h) = <<h, 1>>
        BY <3>1, <1>4
    <3>5. 2 * Pow2[h] <= id => auth[h] = <<h, 1>>
        BY DEF Growing, PathStarted
    <3> QED
        BY <3>1, <3>2, <3>3, <3>4, <3>5, <2>2, <1>0
  <2> QED
    BY <2>1, <2>2 DEF PathStarted
<1>6. FirstResults(instance', id + 1)
  <2> SUFFICES ASSUME NEW h \in Heights, 4 * Pow2[h] <= id + 1 PROVE Ready(ins[h], h)
    BY <1>2 DEF FirstResults
  <2>1. h \in Nat /\ Pow2[h] \in Nat /\ 3 \in {1, 3} /\ (3 + 1) * Pow2[h] = 4 * Pow2[h]
    BY <1>0, Pow2Facts DEF Heights
  <2>2. At(h, 3) <=> 4 * Pow2[h] = id + 1
    BY <2>1, <1>4
  <2>3. DOMAIN instance = Heights /\ Bounded(instance[h], h)
    BY DEF AllBounded
  <2>4. DOMAIN instance[h] = {"v", "stack", "finalized", "startleaf", "lowheight"}
    BY <2>3 DEF Bounded
  <2>5. CASE At(h, 3)
    <3>1. Key(h) = <<h, 3>>
        BY <2>1, <2>5, <1>4
    <3>2. ins[h] = Done(h)
        BY <2>3, <2>5
    <3>3. /\ Done(h).v = Key(h) /\ Done(h).finalized = 1 /\ Done(h).lowheight = Infy
          /\ Done(h).stack = <<>>
        BY <2>4
    <3> HIDE DEF Done, ins
    <3> QED
        BY <3>1, <3>2, <3>3 DEF Ready
  <2>6. CASE ~At(h, 3)
    <3>1. ins[h] = instance[h]
        BY <2>3, <2>6
    <3>2. 4 * Pow2[h] <= id
        BY <2>1, <2>2, <2>6, <1>0
    <3>3. Ready(instance[h], h)
        BY <3>2 DEF Growing, FirstResults
    <3> QED
        BY <3>1, <3>3
  <2> QED
    BY <2>5, <2>6
<1>7. ASSUME id # usr - 1 PROVE e # hlength
  <2> SUFFICES ASSUME e = hlength PROVE FALSE
    OBVIOUS
  <2>1. e \in 0..e
    BY <1>3
  <2>2. path[e + 1] \in StackNodes /\ (path[e + 1].indx + 1) * Pow2[e] = id + 1
    BY <2>1, <1>3 DEF Ends
  <2> DEFINE y == path[e + 1].indx
  <2>3. y \in Nat /\ (y + 1) * usr = id + 1
    BY <2>2, <1>0 DEF StackNodes
  <2> HIDE DEF y
  <2> DEFINE w == usr
             g == y * w
  <2>4. y \in Nat /\ w \in Nat
    BY <2>3, <1>0
  <2>5. (y + 1) * w = g + w /\ g \in Nat
    <3> HIDE DEF w
    <3> QED
        BY ONLY <2>4
  <2> HIDE DEF g
  <2>6. g + usr = id + 1
    BY <2>3, <2>5
  <2> QED
    BY <2>5, <2>6, <1>0, <1>7
<1>8. ASSUME id = usr - 1 PROVE retain' = <<hlength - 2, 3>>
  <2>1. hlength - 2 \in Nat /\ (hlength - 2) + 1 \in Nat /\ ((hlength - 2) + 1) + 1 = hlength
    BY <1>0
  <2>2. Pow2[(hlength - 2) + 1] = 2 * Pow2[hlength - 2] /\ Pow2[hlength] = 2 * Pow2[(hlength - 2) + 1]
        /\ Pow2[hlength - 2] \in Nat
    BY <2>1, Pow2Facts
  <2>3. (3 + 1) * Pow2[hlength - 2] = id + 1 /\ 3 \in {1, 3}
    BY <2>2, <1>0, <1>8
  <2>4. At(hlength - 2, 3) /\ Key(hlength - 2) = <<hlength - 2, 3>>
    BY <2>1, <2>3, <1>4
  <2> QED
    BY <2>4, <1>2
<1> QED
    BY <1>2, <1>3, <1>5, <1>6, <1>7, <1>8 DEF Growing

-----------------------------------------------------------------------------
(* The path of the next one-time key *)

LEMMA Quotient ==
    ASSUME NEW w \in Nat \ {0}, NEW y \in Int, NEW e \in 0..w-1, NEW n \in Int,
           n = w * y + e
    PROVE  n \div w = y
<1> DEFINE x == n \div w
           r == n % w
<1>1. n = w * x + r /\ x \in Int
    OBVIOUS
<1>2. r = e
    BY DivMod
<1> HIDE DEF x, r
<1>3. x * w = y * w
    BY <1>1, <1>2
<1>4. x = y
    BY <1>1, <1>3, Cancel
<1> QED
    BY <1>4 DEF x

LEMMA Halved ==
    ASSUME NEW w \in Nat \ {0}, NEW n \in Nat
    PROVE  n \div (2 * w) = (n \div w) \div 2
<1> DEFINE x == n \div w
           r == n % w
           y == x \div 2
           c == x % 2
           w2 == 2 * w
           e == w * c + r
<1>1. n = w * x + r /\ x \in Nat /\ r \in 0..w-1
    OBVIOUS
<1>2. x = 2 * y + c /\ y \in Nat /\ c \in {0, 1}
    BY <1>1
<1>3. w2 \in Nat \ {0} /\ w2 = 2 * w
    OBVIOUS
<1> HIDE DEF x, r, y, c, w2
<1>4. e \in 0..w2-1
    BY <1>1, <1>2, <1>3
<1>5. n = w2 * y + e
    BY <1>1, <1>2, <1>3
<1> HIDE DEF e
<1>6. n \div w2 = y
    BY <1>2, <1>3, <1>4, <1>5, Quotient
<1> QED
    BY <1>3, <1>6 DEF x, y

LEMMA TauExact ==
    ASSUME NEW id \in 0..usr-1
    PROVE  /\ Tau(id) \in 0..hlength
           /\ \A h \in Nat : Divides(Pow2[h], id + 1) <=> h <= Tau(id)
<1> DEFINE t == Tau(id)
           n == id + 1
<1>1. t \in 0..hlength /\ (t > 0 => n % Pow2[t] = 0) /\ n % Pow2[t + 1] # 0
    BY TauDivides
<1>2. hlength \in Nat /\ t \in Nat /\ n \in Nat
  <2>1. hlength \in Nat /\ usr \in Nat
    BY HeightAssumption, Pow2Facts DEF usr
  <2> QED
    BY <2>1, <1>1
<1> HIDE DEF t, n
<1>3. Divides(Pow2[t], n)
  <2>1. CASE t = 0
    <3>1. Pow2[0] = 1 /\ n = n * 1
        BY Pow2Facts, <1>2
    <3> QED
        BY <2>1, <3>1, <1>2 DEF Divides
  <2>2. CASE t # 0
    <3>1. n % Pow2[t] = 0 /\ Pow2[t] \in Nat \ {0}
        BY <2>2, <1>1, <1>2, Pow2Facts
    <3> QED
        BY <3>1, <1>2, DividesMod
  <2> QED
    BY <2>1, <2>2
<1>4. ~Divides(Pow2[t + 1], n)
  <2>1. t + 1 \in Nat /\ Pow2[t + 1] \in Nat \ {0}
    BY <1>2, Pow2Facts
  <2> QED
    BY <2>1, <1>1, <1>2, DividesMod
<1>5. ASSUME NEW h \in Nat, h <= t PROVE Divides(Pow2[h], n)
    BY <1>5, <1>2, <1>3, DividesLower
<1>6. ASSUME NEW h \in Nat, Divides(Pow2[h], n) PROVE h <= t
  <2> SUFFICES ASSUME t + 1 <= h PROVE FALSE
    BY <1>2
  <2>1. t + 1 \in Nat
    BY <1>2
  <2>2. Divides(Pow2[t + 1], n)
    BY <2>1, <1>6, DividesLower
  <2> QED
    BY <2>2, <1>4
<1> QED
    BY <1>1, <1>5, <1>6 DEF t, n

\* The node over one-time key id at height h, and what becomes of it with the
\* next key.
LEMMA NodeStep ==
    ASSUME NEW id \in 0..usr-1, NEW h \in Nat,
           NEW x, x = id \div Pow2[h], NEW y, y = (id + 1) \div Pow2[h]
    PROVE  /\ x \in Nat /\ y \in Nat
           /\ h > Tau(id) => y = x
           /\ h <= Tau(id) => y = x + 1 /\ id + 1 = y * Pow2[h]
           /\ h < Tau(id) => y % 2 = 0
           /\ h = Tau(id) => y % 2 = 1
           /\ id \div Pow2[h + 1] = x \div 2
           /\ (id + 1) \div Pow2[h + 1] = y \div 2
<1> DEFINE w == Pow2[h]
           t == Tau(id)
<1>1. /\ w \in Nat \ {0} /\ Pow2[h + 1] = 2 * w /\ Pow2[h + 1] \in Nat \ {0}
      /\ h + 1 \in Nat /\ id \in Nat /\ id + 1 \in Nat
  <2>1. usr \in Nat
    BY HeightAssumption, Pow2Facts DEF usr
  <2>2. id \in Nat /\ h + 1 \in Nat
    BY <2>1
  <2> QED
    BY <2>2, Pow2Facts
<1>2. t \in Int /\ (Divides(w, id + 1) <=> h <= t) /\ (Divides(Pow2[h + 1], id + 1) <=> h + 1 <= t)
    BY <1>1, TauExact
<1>3. x = id \div w /\ y = (id + 1) \div w
    OBVIOUS
<1> HIDE DEF w, t
<1>4. /\ x \in Nat
      /\ Divides(w, id + 1) => y = x + 1 /\ id + 1 = y * w
      /\ ~Divides(w, id + 1) => y = x
  <2>1. w \in Nat \ {0} /\ id \in Nat
    BY <1>1
  <2>2. /\ id \div w \in Nat
        /\ Divides(w, id + 1) => /\ (id + 1) \div w = id \div w + 1
                                 /\ id + 1 = (id \div w + 1) * w
        /\ ~Divides(w, id + 1) => (id + 1) \div w = id \div w
    BY ONLY <2>1, NextQuotient
  <2> QED
    BY <2>2, <1>3
<1>5. y \in Nat
    BY <1>4
<1>6. id \div (2 * w) = x \div 2 /\ (id + 1) \div (2 * w) = y \div 2
    BY <1>1, <1>3, Halved
<1>7. ASSUME h < t PROVE y % 2 = 0
  <2>1. id + 1 = y * w /\ Divides(Pow2[h + 1], id + 1)
    BY <1>1, <1>2, <1>4, <1>7
  <2>2. PICK z \in Nat : id + 1 = z * Pow2[h + 1]
    BY <2>1 DEF Divides
  <2>3. y * w = (2 * z) * w /\ y \in Int /\ 2 * z \in Int
    BY <2>1, <2>2, <1>1, <1>5
  <2>4. y = 2 * z
    BY ONLY <2>3, <1>1, Cancel
  <2> QED
    BY <2>4
<1>8. ASSUME h = t PROVE y % 2 = 1
  <2> SUFFICES ASSUME y % 2 = 0 PROVE FALSE
    BY <1>5
  <2>1. id + 1 = y * w /\ ~Divides(Pow2[h + 1], id + 1)
    BY <1>1, <1>2, <1>4, <1>8
  <2> DEFINE z == y \div 2
  <2>2. z \in Nat /\ y = 2 * z
    BY <1>5
  <2> HIDE DEF z
  <2>3. (2 * z) * w = z * (2 * w)
    BY <2>2, <1>1
  <2>4. id + 1 = z * Pow2[h + 1]
    BY <2>1, <2>2, <2>3, <1>1
  <2> QED
    BY <2>1, <2>2, <2>4 DEF Divides
<1> QED
    BY <1>1, <1>2, <1>4, <1>5, <1>6, <1>7, <1>8 DEF w, t

Sibling(n) == IF n % 2 = 0 THEN n + 1 ELSE n - 1

\* a is the path of one-time key n.
PathOf(a, n) ==
    /\ DOMAIN a = 0..hlength-1
    /\ \A h \in 0..hlength-1 : a[h] = <<h, Sibling(n \div Pow2[h])>>

\* keep holds the left child of the next left node on the path wherever that
\* child is not on the path itself.
KeptFor(k, n) ==
    /\ DOMAIN k = 0..hlength-2
    /\ \A h \in 0..hlength-2 :
           (n \div Pow2[h]) % 4 = 1 => k[h] = <<h, n \div Pow2[h]>>

\* What the check of a signature computes from a path is the root.
LEMMA PathVerifies ==
    ASSUME NEW id \in 0..usr-1, NEW a, PathOf(a, id)
    PROVE  PathRoot(id, a) = Root
<1> DEFINE Node(h, l) ==
                LET k == id \div Pow2[h - 1]
                IN  IF k % 2 = 0 THEN Parent(l, a[h-1], h, k \div 2)
                                 ELSE Parent(a[h-1], l, h, k \div 2)
           Rec(f) == f = [h \in 0..hlength |-> IF h = 0 THEN Leaf(id) ELSE Node(h, f[h-1])]
           g == [h \in 0..hlength |-> <<h, id \div Pow2[h]>>]
<1>0. hlength \in Nat /\ usr \in Nat \ {0} /\ usr = Pow2[hlength] /\ id \in Nat /\ Pow2[0] = 1
  <2>1. hlength \in Nat /\ usr \in Nat \ {0} /\ usr = Pow2[hlength] /\ Pow2[0] = 1
    BY HeightAssumption, Pow2Facts DEF usr
  <2> QED
    BY <2>1
<1>1. ASSUME NEW h \in 1..hlength PROVE Node(h, <<h - 1, id \div Pow2[h - 1]>>) = <<h, id \div Pow2[h]>>
  <2> DEFINE c == h - 1
             k == id \div Pow2[c]
  <2>1. c \in Nat /\ c \in 0..hlength-1 /\ c + 1 = h
    BY <1>0
  <2>2. k \in Nat /\ id \div Pow2[h] = k \div 2
    <3>1. k = id \div Pow2[c] /\ (id + 1) \div Pow2[c] = (id + 1) \div Pow2[c]
        OBVIOUS
    <3> HIDE DEF k, c
    <3>2. k \in Nat /\ id \div Pow2[c + 1] = k \div 2
        BY <2>1, <3>1, NodeStep
    <3> QED
        BY <2>1, <3>2
  <2>3. a[c] = <<c, Sibling(k)>>
    BY <2>1 DEF PathOf
  <2> HIDE DEF k
  <2>4. CASE k % 2 = 0
    <3>1. k = 2 * (k \div 2) /\ Sibling(k) = 2 * (k \div 2) + 1
        BY <2>2, <2>4 DEF Sibling
    <3>2. Parent(<<c, k>>, a[c], h, k \div 2) = <<h, k \div 2>>
        BY <3>1, <2>3 DEF Parent
    <3> QED
        BY <2>2, <2>4, <3>2 DEF k
  <2>5. CASE k % 2 # 0
    <3>1. Sibling(k) = 2 * (k \div 2) /\ k = 2 * (k \div 2) + 1
        BY <2>2, <2>5 DEF Sibling
    <3>2. Parent(a[c], <<c, k>>, h, k \div 2) = <<h, k \div 2>>
        BY <3>1, <2>3 DEF Parent
    <3> QED
        BY <2>2, <2>5, <3>2 DEF k
  <2> QED
    BY <2>4, <2>5
<1>2. g[0] = Leaf(id)
    BY <1>0 DEF Leaf
<1> HIDE DEF Node
<1>3. Rec(g)
  <2>1. ASSUME NEW h \in 0..hlength
        PROVE  g[h] = IF h = 0 THEN Leaf(id) ELSE Node(h, g[h-1])
    <3>1. CASE h = 0
        BY <3>1, <1>2
    <3>2. CASE h # 0
      <4>1. h \in 1..hlength /\ h - 1 \in 0..hlength
        BY <3>2, <1>0
      <4> QED
        BY <3>2, <4>1, <1>1
    <3> QED
        BY <3>1, <3>2
  <2> HIDE DEF Node
  <2> QED
    BY <2>1
<1> DEFINE f == CHOOSE r : Rec(r)
<1>4. PathRoot(id, a) = f[hlength]
    BY DEF PathRoot, Node
<1>5. Rec(f)
  <2> HIDE DEF Rec
  <2> QED
    BY <1>3
<1> HIDE DEF f
<1>6. \A h \in 0..hlength : f[h] = IF h = 0 THEN Leaf(id) ELSE Node(h, f[h-1])
    BY <1>5
<1>7. \A h \in 0..hlength : g[h] = <<h, id \div Pow2[h]>>
    OBVIOUS
<1> HIDE DEF Rec
<1> DEFINE P == {h \in 0..hlength : f[h] = g[h]}
<1>8. 0 \in P
    BY <1>0, <1>2, <1>6
<1>9. ASSUME NEW h \in 1..hlength, h - 1 \in P PROVE h \in P
  <2>1. h \in 0..hlength /\ h # 0 /\ h - 1 \in 0..hlength
    BY <1>0
  <2>2. f[h] = Node(h, g[h-1])
    BY <2>1, <1>6, <1>9
  <2> HIDE DEF g
  <2>3. Node(h, g[h-1]) = g[h]
    BY <2>1, <1>1, <1>7
  <2> QED
    BY <2>1, <2>2, <2>3
<1> HIDE DEF P, g
<1>10. \A h \in 0..hlength : h \in P
    BY ONLY <1>0, <1>8, <1>9, UpTo
<1>11. f[hlength] = <<hlength, id \div Pow2[hlength]>>
    BY <1>0, <1>7, <1>10 DEF P
<1>12. id \div usr = 0
  <2>1. id = usr * 0 + id /\ id \in 0..usr-1 /\ 0 \in Int /\ id \in Int
    BY <1>0
  <2> QED
    BY ONLY <2>1, <1>0, Quotient
<1> QED
    BY <1>0, <1>4, <1>11, <1>12 DEF Root

\* The results that the path takes at id are the right nodes it needs.
ResultsFor(ins, id) ==
    \A h \in Heights : h < Tau(id) => ins[h].v = <<h, (id + 1) \div Pow2[h] + 1>>

\* The new left node: its two children are a left node of the old path and
\* the right node that keep has saved since.
LEMMA NewLeftNode ==
    ASSUME NEW id \in 0..usr-1, PathOf(auth, id), KeptFor(keep, id),
           NEW t, t = Tau(id), t < hlength, t # 0
    PROVE  Parent(auth[t - 1], Kept(id, t)[t - 1], t, id \div Pow2[t])
               = <<t, id \div Pow2[t]>>
<1> DEFINE c == t - 1
           k == id \div Pow2[c]
           q2 == id \div Pow2[t]
           k1 == (id + 1) \div Pow2[c]
           q1 == (id + 1) \div Pow2[t]
<1>0. hlength \in Nat /\ t \in 1..hlength-1
  <2>1. hlength \in Nat /\ t \in 0..hlength
    BY HeightAssumption, TauExact
  <2> QED
    BY <2>1
<1>1. /\ c \in Nat /\ c + 1 = t /\ t \in Nat /\ c < t
      /\ c \in 0..hlength-1 /\ c \in 0..hlength-2 /\ c # t
    BY <1>0
<1>2. k \in Nat /\ q2 = k \div 2 /\ k1 = k + 1 /\ k1 % 2 = 0
  <2>1. k = id \div Pow2[c] /\ k1 = (id + 1) \div Pow2[c]
    OBVIOUS
  <2>2. q2 = id \div Pow2[c + 1]
    BY <1>1
  <2>4. c \in Nat /\ c < Tau(id) /\ c <= Tau(id)
    BY <1>0, <1>1
  <2> HIDE DEF c, k, k1, q2
  <2>3. k \in Nat /\ id \div Pow2[c + 1] = k \div 2 /\ k1 = k + 1 /\ k1 % 2 = 0
    BY ONLY <2>1, <2>4, NodeStep, id \in 0..usr-1
  <2> QED
    BY <2>2, <2>3
<1>3. q2 \in Nat /\ q1 = q2 + 1 /\ q1 % 2 = 1
  <2>1. q2 = id \div Pow2[t] /\ q1 = (id + 1) \div Pow2[t]
    OBVIOUS
  <2>2. t \in Nat /\ t = Tau(id) /\ t <= Tau(id)
    BY <1>0, <1>1
  <2> HIDE DEF q2, q1
  <2> QED
    BY ONLY <2>1, <2>2, NodeStep, id \in 0..usr-1
<1>4. auth[c] = <<c, Sibling(k)>>
    BY <1>1 DEF PathOf
<1>5. k % 4 = 1 => keep[c] = <<c, k>>
    BY <1>1 DEF KeptFor
<1>6. Kept(id, t)[c] = keep[c]
    BY <1>1 DEF Kept, KeptFor
<1> HIDE DEF k, q2, k1, q1, c
<1>7. k = 2 * q2 + 1 /\ q2 % 2 = 0
    BY <1>2, <1>3
<1>8. k % 4 = 1 /\ Sibling(k) = 2 * q2
    BY <1>2, <1>3, <1>7 DEF Sibling
<1>9. auth[c] = <<c, 2 * q2>> /\ Kept(id, t)[c] = <<c, 2 * q2 + 1>>
    BY <1>4, <1>5, <1>6, <1>7, <1>8
<1>10. Parent(auth[t - 1], Kept(id, t)[t - 1], t, q2) = <<t, q2>>
    BY <1>9 DEF Parent, c
<1> QED
    BY <1>10 DEF q2

LEMMA NextPath ==
    ASSUME NEW id \in 0..usr-1, PathOf(auth, id), KeptFor(keep, id),
           retain = <<hlength - 2, 3>>, ResultsFor(instance, id),
           NEW t, t = Tau(id), t < hlength
    PROVE  PathOf(NextAuth(id, t, Kept(id, t)), id + 1)
<1> DEFINE new == NextAuth(id, t, Kept(id, t))
<1>0. /\ hlength \in Nat /\ hlength >= 4 /\ t \in 0..hlength-1 /\ id \in Nat
      /\ DOMAIN auth = 0..hlength-1 /\ DOMAIN new = 0..hlength-1
  <2>1. hlength \in Nat /\ hlength >= 4 /\ t \in 0..hlength /\ usr \in Nat
    BY HeightAssumption, TauExact, Pow2Facts DEF usr
  <2> QED
    BY <2>1 DEF PathOf, NextAuth
<1>1. id % 2 = 0 <=> t = 0
  <2>1. Divides(2, id + 1) <=> 1 <= t
    <3>1. Pow2[1] = 2
      <4>1. Pow2[0 + 1] = 2 * Pow2[0] /\ Pow2[0] = 1
        BY Pow2Facts
      <4> QED
        BY <4>1
    <3>2. 1 \in Nat /\ (Divides(Pow2[1], id + 1) <=> 1 <= t)
        BY TauExact
    <3> QED
        BY <3>1, <3>2
  <2>2. Divides(2, id + 1) <=> (id + 1) % 2 = 0
    <3>1. 2 \in Nat \ {0} /\ id + 1 \in Nat
        BY <1>0
    <3> QED
        BY ONLY <3>1, DividesMod
  <2> QED
    BY <2>1, <2>2, <1>0
<1> SUFFICES ASSUME NEW h \in 0..hlength-1
             PROVE  new[h] = <<h, Sibling((id + 1) \div Pow2[h])>>
    BY <1>0 DEF PathOf
<1> DEFINE x == id \div Pow2[h]
           y == (id + 1) \div Pow2[h]
<1>2. h \in Nat /\ auth[h] = <<h, Sibling(x)>>
    BY <1>0 DEF PathOf
<1>3. new[h] = IF h = 0 /\ id % 2 = 0 THEN Leaf(id)
        ELSE IF h = t /\ t > 0 THEN Parent(auth[t-1], Kept(id, t)[t-1], t, id \div Pow2[t])
        ELSE IF h >= t \/ h > hlength - 2 THEN auth[h]
        ELSE IF h < hlength - 2 THEN instance[h].v ELSE retain
    BY <1>0 DEF NextAuth
<1>4. /\ x \in Nat /\ y \in Nat
      /\ h > t => y = x
      /\ h <= t => y = x + 1 /\ id + 1 = y * Pow2[h]
      /\ h < t => y % 2 = 0
      /\ h = t => y % 2 = 1
  <2>1. x = id \div Pow2[h] /\ y = (id + 1) \div Pow2[h]
    OBVIOUS
  <2> HIDE DEF x, y, new
  <2> QED
    BY <2>1, <1>2, NodeStep, SMTT(60)
<1> HIDE DEF new
<1>5. CASE h > t
  <2>1. new[h] = auth[h] /\ y = x
    BY <1>0, <1>3, <1>4, <1>5
  <2> QED
    BY <2>1, <1>2
<1>6. CASE h = t
  <2>1. Sibling(y) = x
    BY <1>4, <1>6 DEF Sibling
  <2>2. CASE t = 0
    <3>1. new[h] = <<0, id>>
        BY <2>2, <1>1, <1>3, <1>6 DEF Leaf
    <3>2. x = id
      <4>1. Pow2[h] = 1
        BY <2>2, <1>6, Pow2Facts
      <4> QED
        BY <4>1, <1>0
    <3> QED
        BY <2>1, <2>2, <3>1, <3>2, <1>6
  <2>3. CASE t # 0
    <3>1. new[h] = Parent(auth[t-1], Kept(id, t)[t-1], t, id \div Pow2[t])
        BY <2>3, <1>0, <1>3, <1>6
    <3>2. new[h] = <<t, id \div Pow2[t]>>
        BY <2>3, <3>1, NewLeftNode
    <3> QED
        BY <2>1, <3>2, <1>6
  <2> QED
    BY <2>2, <2>3
<1>7. CASE h < t
  <2>1. Sibling(y) = y + 1
    BY <1>4, <1>7 DEF Sibling
  <2>2. h <= hlength - 2 /\ id % 2 # 0
    BY <1>0, <1>1, <1>7
  <2>3. CASE h < hlength - 2
    <3>1. new[h] = instance[h].v
        BY <2>2, <2>3, <1>0, <1>3, <1>7
    <3>2. instance[h].v = <<h, y + 1>>
        BY <2>3, <1>0, <1>7 DEF ResultsFor, Heights
    <3> QED
        BY <2>1, <3>1, <3>2
  <2>4. CASE h = hlength - 2
    <3>1. new[h] = <<h, 3>>
        BY <2>2, <2>4, <1>0, <1>3, <1>7
    <3>2. y = 2
      <4> DEFINE w == Pow2[h]
      <4>1. (h + 1) + 1 = hlength /\ h + 1 \in Nat
        BY <2>4, <1>0, <1>2
      <4>2. w \in Nat \ {0} /\ usr = 4 * w
        <5>1. Pow2[(h + 1) + 1] = 2 * Pow2[h + 1] /\ Pow2[h + 1] = 2 * Pow2[h] /\ Pow2[h] \in Nat \ {0}
            BY <4>1, <1>2, Pow2Facts
        <5> QED
            BY <5>1, <4>1 DEF usr
      <4>3. y * w = id + 1 /\ id + 1 <= 4 * w
        BY <4>2, <1>0, <1>4, <1>7
      <4> HIDE DEF w, y
      <4>4. y # 0
        <5> SUFFICES ASSUME y = 0 PROVE FALSE
            OBVIOUS
        <5>1. 0 * w = 0
            BY <4>2
        <5> QED
            BY <5>1, <4>3, <1>0
      <4>5. y < 4
        <5> SUFFICES ASSUME y >= 4 PROVE FALSE
            BY <1>4
        <5>0. y \in Nat
            BY <1>4
        <5>1. CASE y = 4
          <6>1. Divides(Pow2[hlength], id + 1)
            <7>1. id + 1 = 1 * usr /\ 1 \in Nat
                BY <4>2, <4>3, <5>1, <1>0
            <7> QED
                BY <7>1 DEF Divides, usr
          <6>2. hlength <= t
            BY <6>1, <1>0, TauExact
          <6> QED
            BY <6>2, <1>0
        <5>2. CASE y # 4
          <6> DEFINE z == y - 5
                     g == z * w
          <6>1. z \in Nat
            BY <5>0, <5>2
          <6>2. y * w = z * w + 5 * w /\ z * w \in Nat
            BY <6>1, <4>2, <5>0
          <6>3. g \in Nat /\ id + 1 = g + 5 * w
            BY <6>2, <4>3
          <6> HIDE DEF g
          <6> QED
            BY <6>3, <4>2, <4>3, <1>0
        <5> QED
            BY <5>1, <5>2
      <4> QED
        BY <4>4, <4>5, <1>4, <1>7
    <3> QED
        BY <2>1, <3>1, <3>2
  <2> QED
    BY <2>2, <2>3, <2>4, <1>0
<1> QED
    BY <1>0, <1>5, <1>6, <1>7

LEMMA NextKept ==
    ASSUME NEW id \in 0..usr-1, PathOf(auth, id), KeptFor(keep, id),
           NEW t, t = Tau(id), t < hlength
    PROVE  KeptFor(Kept(id, t), id + 1)
<1> DEFINE new == Kept(id, t)
<1>0. hlength \in Nat /\ hlength >= 4 /\ t \in 0..hlength-1 /\ DOMAIN new = 0..hlength-2
  <2>1. hlength \in Nat /\ hlength >= 4 /\ t \in 0..hlength
    BY HeightAssumption, TauExact
  <2> QED
    BY <2>1 DEF KeptFor, Kept
<1> SUFFICES ASSUME NEW h \in 0..hlength-2, ((id + 1) \div Pow2[h]) % 4 = 1
             PROVE  new[h] = <<h, (id + 1) \div Pow2[h]>>
    BY <1>0 DEF KeptFor
<1> DEFINE x == id \div Pow2[h]
           y == (id + 1) \div Pow2[h]
<1>1. h \in Nat /\ h \in 0..hlength-1
    BY <1>0
<1>2. /\ x \in Nat /\ y \in Nat
      /\ h > t => y = x
      /\ h <= t => y = x + 1
      /\ h < t => y % 2 = 0
      /\ id \div Pow2[h + 1] = x \div 2
  <2>1. x = id \div Pow2[h] /\ y = (id + 1) \div Pow2[h]
    OBVIOUS
  <2> HIDE DEF x, y, new
  <2> QED
    BY <2>1, <1>1, NodeStep, SMTT(60)
<1>3. auth[h] = <<h, Sibling(x)>> /\ DOMAIN keep = 0..hlength-2 /\ (x % 4 = 1 => keep[h] = <<h, x>>)
    BY <1>1 DEF PathOf, KeptFor
<1>4. CASE h > t
  <2>1. new[h] = keep[h]
    BY <1>0, <1>3, <1>4 DEF Kept
  <2> QED
    BY <2>1, <1>2, <1>3, <1>4
<1>5. CASE h = t
  <2>0. y % 4 = 1
    OBVIOUS
  <2> HIDE DEF y, x
  <2>1. (x \div 2) % 2 = 0 /\ x % 2 = 0 /\ y = x + 1
    BY <2>0, <1>0, <1>2, <1>5
  <2>2. new[h] = auth[h]
    BY <2>1, <1>0, <1>2, <1>3, <1>5 DEF Kept
  <2>3. Sibling(x) = y
    BY <2>1 DEF Sibling
  <2> QED
    BY <2>2, <2>3, <1>3 DEF y
<1>6. CASE h < t
  <2>0. y % 4 = 1
    OBVIOUS
  <2> HIDE DEF y
  <2>1. y % 2 = 1
    BY <2>0, <1>2
  <2> QED
    BY <2>1, <1>2, <1>6
<1> QED
    BY <1>0, <1>4, <1>5, <1>6

-----------------------------------------------------------------------------
(* Sums over the instances *)

Adds(f, s) ==
    /\ s \in [0..hlength-2 -> Int]
    /\ s[0] = 0
    /\ \A k \in 1..hlength-2 : s[k] = s[k - 1] + f[k - 1]
Total(f) == (CHOOSE s : Adds(f, s))[hlength - 2]

LEMMA TotalAdds ==
    ASSUME NEW f \in [Heights -> Int]
    PROVE  \E s : Adds(f, s) /\ Total(f) = s[hlength - 2]
<1> DEFINE n == hlength - 2
           G == [k \in 1..n |-> [x \in Int |-> x + f[k - 1]]]
<1>1. n \in Nat /\ 0 \in Int
    BY HeightAssumption
<1>2. \A k \in 1..n : f[k - 1] \in Int
  <2> SUFFICES ASSUME NEW k \in 1..n PROVE f[k - 1] \in Int
    OBVIOUS
  <2>1. k - 1 \in Heights
    BY HeightAssumption DEF Heights
  <2> QED
    BY <2>1
<1>3. G \in [1..n -> [Int -> Int]]
    BY <1>2
<1>4. \A k \in 1..n : \A x \in Int : G[k][x] = x + f[k - 1]
    OBVIOUS
<1> HIDE DEF n, G
<1>5. PICK s : Steps(n, Int, 0, G, s)
    BY ONLY <1>1, <1>3, StepsExist
<1>6. s \in [0..n -> Int] /\ s[0] = 0 /\ \A k \in 1..n : s[k] = G[k][s[k - 1]]
    BY <1>5 DEF Steps
<1>7. ASSUME NEW k \in 1..n PROVE s[k] = s[k - 1] + f[k - 1]
  <2>1. k - 1 \in 0..n
    BY <1>1
  <2>2. s[k - 1] \in Int
    BY <2>1, <1>6
  <2> QED
    BY <2>2, <1>4, <1>6
<1>8. Adds(f, s)
    BY <1>6, <1>7 DEF Adds, n
<1> QED
    BY <1>8 DEF Total

\* A sum that is nowhere larger, and smaller by d in one place.
LEMMA TotalGap ==
    ASSUME NEW f \in [Heights -> Int], NEW g \in [Heights -> Int],
           NEW c \in Heights, NEW d \in Nat,
           \A h \in Heights : f[h] <= g[h],
           f[c] + d <= g[c]
    PROVE  Total(f) \in Int /\ Total(g) \in Int /\ Total(f) + d <= Total(g)
<1> DEFINE n == hlength - 2
<1>1. PICK s : Adds(f, s) /\ Total(f) = s[n]
    BY TotalAdds
<1>2. PICK u : Adds(g, u) /\ Total(g) = u[n]
    BY TotalAdds
<1>3. n \in Nat /\ n \in 0..n /\ Heights = 0..n-1
    BY HeightAssumption DEF Heights
<1>4. s \in [0..n -> Int] /\ s[0] = 0 /\ \A k \in 1..n : s[k] = s[k - 1] + f[k - 1]
    BY <1>1 DEF Adds
<1>5. u \in [0..n -> Int] /\ u[0] = 0 /\ \A k \in 1..n : u[k] = u[k - 1] + g[k - 1]
    BY <1>2 DEF Adds
<1> HIDE DEF n
<1> DEFINE P == {k \in 0..n : s[k] <= u[k] /\ (k > c => s[k] + d <= u[k])}
<1>6. 0 \in P
    BY <1>3, <1>4, <1>5
<1>7. ASSUME NEW k \in 1..n, k - 1 \in P PROVE k \in P
  <2>1. k \in 0..n /\ k - 1 \in 0..n /\ k - 1 \in Heights
    BY <1>3
  <2>2. /\ s[k] = s[k - 1] + f[k - 1] /\ u[k] = u[k - 1] + g[k - 1]
        /\ s[k - 1] \in Int /\ u[k - 1] \in Int /\ s[k] \in Int /\ u[k] \in Int
        /\ f[k - 1] \in Int /\ g[k - 1] \in Int /\ f[k - 1] <= g[k - 1]
    BY <2>1, <1>4, <1>5
  <2>3. s[k - 1] <= u[k - 1] /\ (k - 1 > c => s[k - 1] + d <= u[k - 1])
    BY <1>7
  <2>4. s[k] <= u[k]
    BY <2>2, <2>3
  <2>5. ASSUME k > c PROVE s[k] + d <= u[k]
    <3>1. CASE k - 1 = c
        BY <3>1, <2>2, <2>3
    <3>2. CASE k - 1 # c
      <4>1. k - 1 > c
        BY <3>2, <2>5, <1>3
      <4> QED
        BY <4>1, <2>2, <2>3
    <3> QED
        BY <3>1, <3>2
  <2> QED
    BY <2>1, <2>4, <2>5
<1> HIDE DEF P
<1>8. \A k \in 0..n : k \in P
    BY ONLY <1>3, <1>6, <1>7, UpTo
<1>9. n \in P /\ n > c
    BY <1>3, <1>8
<1>10. s[n] \in Int /\ u[n] \in Int
    BY <1>3, <1>4, <1>5
<1> QED
    BY <1>1, <1>2, <1>9, <1>10 DEF P

LEMMA TotalConst ==
    ASSUME NEW b \in Int
    PROVE  Total([h \in Heights |-> b]) = (hlength - 2) * b
<1> DEFINE n == hlength - 2
           f == [h \in Heights |-> b]
<1>0. f \in [Heights -> Int]
    OBVIOUS
<1>1. PICK s : Adds(f, s) /\ Total(f) = s[n]
  <2> HIDE DEF f
  <2> QED
    BY <1>0, TotalAdds
<1>3. n \in Nat /\ n \in 0..n /\ Heights = 0..n-1
    BY HeightAssumption DEF Heights
<1>4. s \in [0..n -> Int] /\ s[0] = 0 /\ \A k \in 1..n : s[k] = s[k - 1] + f[k - 1]
    BY <1>1 DEF Adds
<1> HIDE DEF n
<1> DEFINE P == {k \in 0..n : s[k] = k * b}
<1>6. 0 \in P
    BY <1>3, <1>4
<1>7. ASSUME NEW k \in 1..n, k - 1 \in P PROVE k \in P
  <2>1. k \in 0..n /\ k - 1 \in Heights
    BY <1>3
  <2>2. s[k] = s[k - 1] + b /\ s[k - 1] = (k - 1) * b
    BY <2>1, <1>4, <1>7
  <2>3. (k - 1) * b + b = k * b
    OBVIOUS
  <2> QED
    BY <2>1, <2>2, <2>3
<1> HIDE DEF P
<1>8. \A k \in 0..n : k \in P
    BY ONLY <1>3, <1>6, <1>7, UpTo
<1>9. s[n] = n * b
    BY <1>3, <1>8 DEF P
<1> QED
    BY <1>1, <1>9 DEF n, f

-----------------------------------------------------------------------------
(* The work of one instance *)

\* The instance x of height j computes the node over the leaves from b on, or
\* has done so if there is such a node.
Computing(x, j, b) ==
    /\ x.finalized = 1 =>
         /\ x.lowheight = Infy /\ x.stack = <<>>
         /\ b < usr => x.v = <<j, b \div Pow2[j]>>
    /\ x.finalized # 1 =>
         /\ Stacked(x.stack, b, j, x.startleaf)
         /\ x.lowheight = IF x.stack = <<>> THEN 0 ELSE x.stack[1].height

\* The leaves it still needs.
Remains(x, j, b) == IF x.finalized = 1 THEN 0 ELSE b + Pow2[j] - x.startleaf

LEMMA RemainsSome ==
    ASSUME NEW j \in Nat, NEW b \in Nat, NEW x, Computing(x, j, b)
    PROVE  /\ Remains(x, j, b) \in Nat /\ Remains(x, j, b) <= Pow2[j]
           /\ x.finalized # 1 => Remains(x, j, b) > 0 /\ x.startleaf \in Nat
<1>0. Pow2[j] \in Nat
    BY Pow2Facts
<1>1. CASE x.finalized = 1
    BY <1>0, <1>1 DEF Remains
<1>2. CASE x.finalized # 1
  <2>1. Stacked(x.stack, b, j, x.startleaf)
    BY <1>2 DEF Computing
  <2>2. x.startleaf \in Nat /\ b <= x.startleaf /\ x.startleaf < b + Pow2[j]
    BY <2>1, StackedSize
  <2> QED
    BY <2>2, <1>0, <1>2 DEF Remains
<1> QED
    BY <1>1, <1>2

\* One more leaf.
LEMMA UpdatedComputes ==
    ASSUME NEW j \in Nat, NEW b \in Nat, Divides(Pow2[j], b),
           NEW x, DOMAIN x = {"v", "stack", "finalized", "startleaf", "lowheight"},
           x.finalized # 1, Computing(x, j, b),
           NEW y, y = Updated(x, j)
    PROVE  /\ Computing(y, j, b)
           /\ Remains(y, j, b) = Remains(x, j, b) - 1
           /\ y.finalized # 1 => y.startleaf = x.startleaf + 1
<1> DEFINE st == x.stack
           id == x.startleaf
           nd == StackNode(Leaf(id), 0, id)
           path == Climb(st, nd)
           new == Pushed(st, path)
           last == path[Len(path)]
<1>1. /\ Stacked(st, b, j, id)
      /\ x.lowheight = IF st = <<>> THEN 0 ELSE st[1].height
    BY DEF Computing
<1>2. /\ st \in Seq(StackNodes) /\ id \in Nat /\ b <= id /\ id < b + Pow2[j]
      /\ st = <<>> => id = b
      /\ st # <<>> => st[1].height \in Nat /\ st[1].height < j
    BY <1>1, StackedSize
<1>3. PICK e : Pushes(st, path, new, b, j, id, e)
  <2> HIDE DEF st, id
  <2> QED
    BY <1>1, <1>2, Pushing
<1>4. /\ e \in 0..j /\ e <= Len(st) /\ Len(path) = e + 1 /\ Ends(path, e, id)
      /\ path[1] = nd
      /\ e # j => /\ Stacked(new, b, j, id + 1) /\ Len(new) \in Nat \ {0}
                  /\ new[1].height = IF Len(new) = 1 THEN e ELSE st[1].height
    BY <1>3 DEF Pushes
<1>5. Pow2[j] \in Nat \ {0}
    BY Pow2Facts
<1>6. y = IF j = 0 THEN [x EXCEPT !.v = nd.key, !.finalized = 1, !.lowheight = Infy]
          ELSE IF st = <<>> THEN [x EXCEPT !.stack = <<nd>>, !.startleaf = @ + 1]
          ELSE IF last.height = j
          THEN [x EXCEPT !.v = last.key, !.finalized = 1, !.lowheight = Infy, !.stack = <<>>]
          ELSE [x EXCEPT !.stack = new, !.startleaf = @ + 1,
                         !.lowheight = IF Len(new) = 1 THEN last.height ELSE @]
    BY DEF Updated
<1>7. nd.key = <<0, id>> /\ nd.height = 0
    BY DEF StackNode, Leaf
<1> HIDE DEF path, new, nd
<1>8. last \in StackNodes /\ last.height = e /\ last.key = <<e, last.indx>>
      /\ (last.indx + 1) * Pow2[e] = id + 1
  <2>1. last = path[e + 1] /\ e \in 0..e
    BY <1>4
  <2> QED
    BY <2>1, <1>4 DEF Ends
<1> HIDE DEF last
<1>9. CASE j = 0
  <2>1. st = <<>> /\ id = b /\ Pow2[j] = 1
    <3>1. Pow2[j] = 1
        BY <1>9, Pow2Facts
    <3>2. st = <<>>
        BY <1>2, <1>9
    <3> QED
        BY <3>1, <3>2, <1>2
  <2>2. y.v = <<0, id>> /\ y.finalized = 1 /\ y.lowheight = Infy /\ y.stack = <<>>
    BY <2>1, <1>6, <1>7, <1>9
  <2>3. b \div Pow2[j] = b
    BY <2>1
  <2>4. Remains(x, j, b) = 1
    BY <2>1 DEF Remains
  <2>5. Remains(y, j, b) = 0
    BY <2>2 DEF Remains
  <2>6. Computing(y, j, b)
    BY <2>1, <2>2, <2>3, <1>9 DEF Computing
  <2> QED
    BY <2>2, <2>4, <2>5, <2>6
\* A leaf that is pushed.
<1>10. ASSUME NEW z, Stacked(z, b, j, id + 1), y.stack = z, y.startleaf = id + 1,
              y.finalized = x.finalized, z # <<>>, y.lowheight = z[1].height
       PROVE  /\ Computing(y, j, b)
              /\ Remains(y, j, b) = Remains(x, j, b) - 1
              /\ y.startleaf = id + 1
  <2>1. Computing(y, j, b)
    BY <1>10 DEF Computing
  <2>2. Remains(y, j, b) = b + Pow2[j] - (id + 1) /\ Remains(x, j, b) = b + Pow2[j] - id
    BY <1>10 DEF Remains
  <2> HIDE DEF id
  <2> QED
    BY <2>1, <2>2, <1>2, <1>5, <1>10
<1>11. CASE j # 0 /\ st = <<>>
  <2> DEFINE z == <<nd>>
  <2>1. y.stack = z /\ y.startleaf = id + 1 /\ y.finalized = x.finalized /\ y.lowheight = 0
    BY <1>1, <1>6, <1>11
  <2>2. z # <<>> /\ z[1].height = 0
    BY <1>7
  <2>3. e = 0 /\ Len(path) = 1 /\ Len(st) - Len(path) + 1 = 0
    BY <1>4, <1>11
  <2>4. new = <<nd>>
    <3>1. new = SubSeq(st, 1, 0) \o <<path[1]>>
        BY <2>3 DEF new, Pushed
    <3>2. SubSeq(st, 1, 0) = <<>>
        BY <1>11
    <3>3. <<>> \o <<path[1]>> = <<path[1]>>
        OBVIOUS
    <3> QED
        BY <3>1, <3>2, <3>3, <1>4
  <2>5. Stacked(z, b, j, id + 1)
    BY <2>3, <2>4, <1>4, <1>11
  <2> HIDE DEF z
  <2> QED
    BY <2>1, <2>2, <2>5, <1>10
<1>12. CASE j # 0 /\ st # <<>> /\ e = j
  <2>1. y.v = last.key /\ y.finalized = 1 /\ y.lowheight = Infy /\ y.stack = <<>>
    BY <1>6, <1>8, <1>12
  <2> DEFINE u == last.indx
             w == Pow2[j]
  <2>2. u \in Nat /\ (u + 1) * w = id + 1 /\ w \in Nat \ {0}
    BY <1>5, <1>8, <1>12 DEF StackNodes
  <2>3. b + w <= id + 1
    <3>1. Divides(w, id + 1)
        BY <2>2 DEF Divides
    <3>2. Divides(w, b) /\ b < id + 1 /\ id + 1 \in Nat
        BY <1>2
    <3> HIDE DEF w
    <3> QED
        BY ONLY <3>1, <3>2, <2>2, DividesGap, b \in Nat
  <2>4. id + 1 = b + w
    BY <2>2, <2>3, <1>2
  <2>5. b \div w = u
    <3> DEFINE g == id + 1
    <3>0. g = b + w /\ (u + 1) * w = g
        BY <2>2, <2>4
    <3> HIDE DEF w, u, g
    <3>1. b = w * u + 0 /\ u \in Int /\ 0 \in 0..w-1 /\ b \in Int
        BY <3>0, <2>2
    <3> QED
        BY ONLY <3>1, <2>2, Quotient
  <2>6. last.key = <<j, u>>
    BY <1>8, <1>12
  <2>7. Computing(y, j, b)
    BY <2>1, <2>5, <2>6 DEF Computing
  <2>8. Remains(x, j, b) = 1
    <3>1. Remains(x, j, b) = b + w - id
        BY DEF Remains
    <3> HIDE DEF w, id
    <3> QED
        BY <3>1, <2>2, <2>4, <1>2
  <2>9. Remains(y, j, b) = 0
    BY <2>1 DEF Remains
  <2> QED
    BY <2>1, <2>7, <2>8, <2>9
<1>13. CASE j # 0 /\ st # <<>> /\ e # j
  <2>1. Stacked(new, b, j, id + 1) /\ Len(new) \in Nat \ {0}
        /\ new[1].height = IF Len(new) = 1 THEN e ELSE st[1].height
    BY <1>4, <1>13
  <2>2. /\ y.stack = new /\ y.startleaf = id + 1 /\ y.finalized = x.finalized
        /\ y.lowheight = IF Len(new) = 1 THEN last.height ELSE x.lowheight
    BY <1>6, <1>8, <1>13
  <2>3. y.lowheight = new[1].height /\ new # <<>>
    BY <2>1, <2>2, <1>1, <1>8, <1>13
  <2> QED
    BY <2>1, <2>2, <2>3, <1>10
<1> QED
    BY <1>4, <1>9, <1>10, <1>11, <1>12, <1>13

-----------------------------------------------------------------------------
(* The deadlines of the instances *)

\* The next one-time key that needs the result of height j, and the first leaf
\* of the subtree it is the root of.
Due(j, n) == (n \div Pow2[j + 1] + 1) * Pow2[j + 1]
FirstLeaf(j, n) == Due(j, n) + Pow2[j]

AllComputing(ins, n) == \A j \in Heights : Computing(ins[j], j, FirstLeaf(j, n))

\* Twice the leaves that instance k can still get before instance j is
\* finished: for a lower one those it needs now and, by its deadlines until
\* that of j, later on; for a higher one those until it is as far as j will be.
Need(x, k, j, n) ==
    IF k <= j THEN 2 * Remains(x, k, FirstLeaf(k, n)) + Due(j, n) - Due(k, n)
    ELSE IF x.finalized # 1 /\ x.startleaf < FirstLeaf(k, n) + Pow2[j]
    THEN 2 * (FirstLeaf(k, n) + Pow2[j] - x.startleaf) ELSE 0
Needs(ins, j, n) == [k \in Heights |-> Need(ins[k], k, j, n)]

\* Until the deadline there are updateiter leaves for each signature.
InTime(ins, j, n, k) ==
    ins[j].finalized # 1 => Total(Needs(ins, j, n)) <= 2 * updateiter * (Due(j, n) - n) - 2 * k
AllInTime(ins, n, k) == \A j \in Heights : InTime(ins, j, n, k)

LEMMA DueFacts ==
    ASSUME NEW j \in Nat, NEW n \in Nat
    PROVE  /\ Due(j, n) \in Nat /\ FirstLeaf(j, n) \in Nat
           /\ Divides(Pow2[j + 1], Due(j, n))
           /\ Divides(Pow2[j], Due(j, n)) /\ Divides(Pow2[j], FirstLeaf(j, n))
           /\ n < Due(j, n) /\ Due(j, n) <= n + Pow2[j + 1]
<1> DEFINE w == Pow2[j + 1]
           x == n \div w
           r == n % w
<1>1. w \in Nat \ {0} /\ j + 1 \in Nat /\ Pow2[j] \in Nat
    BY Pow2Facts
<1>2. n = w * x + r /\ x \in Nat /\ r \in 0..w-1
  <2> HIDE DEF w
  <2> QED
    BY <1>1
<1>3. Due(j, n) = (x + 1) * w
    BY DEF Due
<1> HIDE DEF w, x, r
<1>4. (x + 1) * w = w * x + w /\ (x + 1) * w \in Nat /\ x + 1 \in Nat
    BY <1>1, <1>2
<1>5. Divides(w, Due(j, n))
    BY <1>3, <1>4 DEF Divides
<1>6. Divides(Pow2[j], Due(j, n))
    BY <1>1, <1>5, DividesLower DEF w
<1>7. Divides(Pow2[j], Pow2[j])
  <2> DEFINE c == Pow2[j]
  <2>1. c \in Nat
    BY <1>1
  <2> HIDE DEF c
  <2>2. c = 1 * c /\ 1 \in Nat
    BY <2>1
  <2>3. Divides(c, c)
    BY <2>2 DEF Divides
  <2> QED
    BY <2>3 DEF c
<1>8. Due(j, n) \in Nat /\ FirstLeaf(j, n) \in Nat
    BY <1>1, <1>3, <1>4 DEF FirstLeaf
<1>9. Divides(Pow2[j], FirstLeaf(j, n))
    BY <1>1, <1>6, <1>7, <1>8, DividesAdds DEF FirstLeaf
<1>10. n < Due(j, n) /\ Due(j, n) <= n + w
    BY <1>1, <1>2, <1>3, <1>4
<1> QED
    BY <1>5, <1>6, <1>8, <1>9, <1>10 DEF w

\* A multiple above n is not before the deadline.
LEMMA DueFirst ==
    ASSUME NEW j \in Nat, NEW n \in Nat, NEW m \in Nat, n < m, Divides(Pow2[j + 1], m)
    PROVE  Due(j, n) <= m
<1> DEFINE w == Pow2[j + 1]
           x == n \div w
           r == n % w
           c == x * w
<1>1. w \in Nat \ {0} /\ j + 1 \in Nat
    BY Pow2Facts
<1>2. n = w * x + r /\ x \in Nat /\ r \in 0..w-1
  <2> HIDE DEF w
  <2> QED
    BY <1>1
<1>3. Due(j, n) = (x + 1) * w
    BY DEF Due
<1> HIDE DEF w, x, r
<1>4. (x + 1) * w = c + w /\ c \in Nat /\ c <= n
    BY <1>1, <1>2
<1>5. Divides(w, c)
    BY <1>2 DEF Divides
<1> HIDE DEF c
<1>6. c < m
    BY <1>4
<1>7. Divides(w, m)
    BY DEF w
<1>8. c + w <= m
    BY ONLY <1>1, <1>4, <1>5, <1>6, <1>7, DividesGap, m \in Nat
<1> QED
    BY <1>3, <1>4, <1>8

LEMMA DueOrder ==
    ASSUME NEW j \in Nat, NEW n \in Nat, NEW k \in Nat, k <= j
    PROVE  Due(k, n) <= Due(j, n)
<1>1. Due(j, n) \in Nat /\ n < Due(j, n) /\ Divides(Pow2[j + 1], Due(j, n))
    BY DueFacts
<1>2. k + 1 \in Nat /\ j + 1 \in Nat /\ k + 1 <= j + 1
    OBVIOUS
<1>3. Divides(Pow2[k + 1], Due(j, n))
    BY <1>1, <1>2, DividesLower
<1> QED
    BY <1>1, <1>3, DueFirst

\* With the next one-time key a deadline either stays or is over.
LEMMA DueStep ==
    ASSUME NEW j \in Nat, NEW n \in Nat
    PROVE  /\ Divides(Pow2[j + 1], n + 1) =>
                Due(j, n) = n + 1 /\ Due(j, n + 1) = n + 1 + Pow2[j + 1]
           /\ ~Divides(Pow2[j + 1], n + 1) => Due(j, n + 1) = Due(j, n) /\ n + 1 < Due(j, n)
<1> DEFINE w == Pow2[j + 1]
           x == n \div w
           y == (n + 1) \div w
<1>1. w \in Nat \ {0}
  <2>1. j + 1 \in Nat
    OBVIOUS
  <2> QED
    BY <2>1, Pow2Facts
<1>2. Due(j, n) = (x + 1) * w /\ Due(j, n + 1) = (y + 1) * w
    BY DEF Due
<1>3. /\ x \in Nat
      /\ Divides(w, n + 1) => y = x + 1 /\ n + 1 = (x + 1) * w
      /\ ~Divides(w, n + 1) => y = x
  <2> HIDE DEF w
  <2> QED
    BY <1>1, NextQuotient
<1>4. n < Due(j, n) /\ Due(j, n) \in Nat /\ Divides(w, Due(j, n))
    BY DueFacts
<1> HIDE DEF w, x, y
<1>5. ASSUME Divides(w, n + 1)
      PROVE  Due(j, n) = n + 1 /\ Due(j, n + 1) = n + 1 + w
  <2>1. y + 1 = (x + 1) + 1
    BY <1>3, <1>5
  <2>2. ((x + 1) + 1) * w = (x + 1) * w + w
    BY <1>1, <1>3
  <2> QED
    BY <2>1, <2>2, <1>2, <1>3, <1>5
<1>6. ASSUME ~Divides(w, n + 1)
      PROVE  Due(j, n + 1) = Due(j, n) /\ n + 1 < Due(j, n)
  <2>1. n + 1 # Due(j, n)
    BY <1>4, <1>6
  <2> QED
    BY <2>1, <1>2, <1>3, <1>4, <1>6
<1> QED
    BY <1>5, <1>6 DEF w

-----------------------------------------------------------------------------
(* The turns of one signature *)

\* An unfinished instance waits for a turn, and its low height tells how many
\* leaves it has.
LEMMA BusyIs ==
    ASSUME NEW w, NEW j \in Heights, NEW b \in Nat, Computing(w[j], j, b), w[j].finalized # 1
    PROVE  /\ Busy(w, j)
           /\ w[j].startleaf \in Nat
           /\ w[j].lowheight \in Nat
           /\ w[j].lowheight = 0 \/ w[j].lowheight < j
           /\ w[j].startleaf < b + 2 * Pow2[w[j].lowheight]
<1> DEFINE x == w[j]
           h == x.lowheight
<1>0. hlength \in Nat /\ hlength < Infy /\ Infy \in Nat /\ j \in Nat /\ j < hlength
    BY HeightAssumption, InfyAssumption DEF Heights, Infy
<1>1. Stacked(x.stack, b, j, x.startleaf) /\ h = IF x.stack = <<>> THEN 0 ELSE x.stack[1].height
    BY DEF Computing
<1> HIDE DEF x, h
<1>2. /\ x.startleaf \in Nat
      /\ x.stack = <<>> => x.startleaf = b
      /\ x.stack # <<>> => /\ x.stack[1].height \in Nat /\ x.stack[1].height < j
                           /\ x.startleaf < b + 2 * Pow2[x.stack[1].height]
    BY <1>0, <1>1, StackedSize
<1>3. h \in Nat /\ (h = 0 \/ h < j) /\ x.startleaf < b + 2 * Pow2[h]
  <2>1. CASE x.stack = <<>>
    <3>1. h = 0 /\ Pow2[0] = 1
        BY <2>1, <1>1, Pow2Facts
    <3>2. x.startleaf = b
        BY <2>1, <1>2
    <3> QED
        BY <3>1, <3>2
  <2>2. CASE x.stack # <<>>
    BY <2>2, <1>1, <1>2
  <2> QED
    BY <2>1, <2>2
<1>4. h # Infy
    BY <1>0, <1>3
<1>5. Busy(w, j)
    BY <1>4 DEF Busy, x, h
<1> QED
    BY <1>2, <1>3, <1>5 DEF x, h

LEMMA NeedsNat ==
    ASSUME NEW n \in Nat, NEW ins, AllComputing(ins, n), NEW j \in Heights
    PROVE  /\ Needs(ins, j, n) \in [Heights -> Nat]
           /\ Needs(ins, j, n)[j] = 2 * Remains(ins[j], j, FirstLeaf(j, n))
<1>1. ASSUME NEW k \in Heights PROVE Need(ins[k], k, j, n) \in Nat
  <2>0. k \in Nat /\ j \in Nat /\ Pow2[j] \in Nat
    BY HeightAssumption, Pow2Facts DEF Heights
  <2>1. Due(j, n) \in Nat /\ Due(k, n) \in Nat /\ FirstLeaf(k, n) \in Nat
    BY <2>0, DueFacts
  <2>2. Computing(ins[k], k, FirstLeaf(k, n))
    BY DEF AllComputing
  <2>3. /\ Remains(ins[k], k, FirstLeaf(k, n)) \in Nat
        /\ ins[k].finalized # 1 => ins[k].startleaf \in Nat
    BY <2>0, <2>1, <2>2, RemainsSome
  <2>4. CASE k <= j
    <3>1. Due(k, n) <= Due(j, n)
        BY <2>0, <2>4, DueOrder
    <3> QED
        BY <3>1, <2>1, <2>3, <2>4 DEF Need
  <2>5. CASE ~(k <= j)
    BY <2>0, <2>1, <2>3, <2>5 DEF Need
  <2> QED
    BY <2>4, <2>5
<1>2. Needs(ins, j, n) \in [Heights -> Nat]
    BY <1>1 DEF Needs
<1>3. Need(ins[j], j, j, n) = 2 * Remains(ins[j], j, FirstLeaf(j, n))
  <2>0. j \in Nat
    BY HeightAssumption DEF Heights
  <2>1. Due(j, n) \in Nat /\ FirstLeaf(j, n) \in Nat
    BY <2>0, DueFacts
  <2>2. Computing(ins[j], j, FirstLeaf(j, n))
    BY DEF AllComputing
  <2>3. Remains(ins[j], j, FirstLeaf(j, n)) \in Nat
    BY <2>0, <2>1, <2>2, RemainsSome
  <2> QED
    BY <2>0, <2>1, <2>3 DEF Need
<1> QED
    BY <1>2, <1>3 DEF Needs

\* A turn of instance c that delays instance j is one of those counted.
LEMMA NeedLowers ==
    ASSUME NEW n \in Nat, NEW c \in Heights, NEW j \in Heights,
           NEW x, DOMAIN x = {"v", "stack", "finalized", "startleaf", "lowheight"},
           x.finalized # 1, Computing(x, c, FirstLeaf(c, n)),
           c > j => x.startleaf < FirstLeaf(c, n) + Pow2[j],
           NEW y, y = Updated(x, c)
    PROVE  /\ Computing(y, c, FirstLeaf(c, n))
           /\ Need(y, c, j, n) + 2 <= Need(x, c, j, n)
<1> DEFINE b == FirstLeaf(c, n)
<1>0. c \in Nat /\ j \in Nat /\ Pow2[j] \in Nat \ {0} /\ Pow2[c] \in Nat
    BY HeightAssumption, Pow2Facts DEF Heights
<1>1. Due(j, n) \in Nat /\ Due(c, n) \in Nat /\ b \in Nat /\ Divides(Pow2[c], b)
    BY <1>0, DueFacts
<1> HIDE DEF b
<1>2. /\ Computing(y, c, b) /\ Remains(y, c, b) = Remains(x, c, b) - 1
      /\ y.finalized # 1 => y.startleaf = x.startleaf + 1
    BY <1>0, <1>1, UpdatedComputes DEF b
<1>3. Remains(x, c, b) \in Nat /\ x.startleaf \in Nat
    BY <1>0, <1>1, RemainsSome DEF b
<1>4. CASE c <= j
  <2>1. /\ Need(y, c, j, n) = 2 * Remains(y, c, b) + Due(j, n) - Due(c, n)
        /\ Need(x, c, j, n) = 2 * Remains(x, c, b) + Due(j, n) - Due(c, n)
    BY <1>4 DEF Need, b
  <2>2. Need(y, c, j, n) + 2 <= Need(x, c, j, n)
    BY <2>1, <1>1, <1>2, <1>3
  <2> QED
    BY <2>2, <1>2 DEF b
<1>5. CASE ~(c <= j)
  <2>1. c > j /\ 2 * Pow2[j] <= Pow2[c] /\ x.startleaf < b + Pow2[j]
    BY <1>0, <1>5, Pow2Grows DEF b
  <2>2. y.finalized # 1
    <3> SUFFICES ASSUME y.finalized = 1 PROVE FALSE
        OBVIOUS
    <3>1. Remains(y, c, b) = 0 /\ Remains(x, c, b) = b + Pow2[c] - x.startleaf
        BY DEF Remains
    <3> QED
        BY <3>1, <2>1, <1>0, <1>1, <1>2, <1>3
  <2>3. /\ Need(x, c, j, n) = 2 * (b + Pow2[j] - x.startleaf)
        /\ Need(y, c, j, n) = IF x.startleaf + 1 < b + Pow2[j]
                              THEN 2 * (b + Pow2[j] - (x.startleaf + 1)) ELSE 0
    BY <2>1, <2>2, <1>2, <1>5 DEF Need, b
  <2>4. Need(y, c, j, n) + 2 <= Need(x, c, j, n)
    BY <2>1, <2>3, <1>0, <1>1, <1>3
  <2> QED
    BY <2>4, <1>2 DEF b
<1> QED
    BY <1>0, <1>4, <1>5

LEMMA TurnComputes ==
    ASSUME NEW n \in Nat, NEW w, AllBounded(w), AllComputing(w, n)
    PROVE  AllComputing(Turn(w), n)
<1>1. CASE \A j \in DOMAIN w : ~Busy(w, j)
    BY <1>1 DEF Turn
<1>2. CASE \E j \in DOMAIN w : Busy(w, j)
  <2> DEFINE c == Served(w)
             z == Turn(w)
  <2>1. /\ ServedFirst(w, c)
        /\ \A k \in Heights : z[k] = IF k = c THEN Updated(w[k], k) ELSE w[k]
    BY <1>2, ServedIs
  <2> HIDE DEF c, z
  <2>2. c \in Heights /\ w[c].finalized # 1
    BY <2>1 DEF ServedFirst, Busy
  <2>3. Computing(z[c], c, FirstLeaf(c, n))
    <3>1. Bounded(w[c], c) /\ Computing(w[c], c, FirstLeaf(c, n))
        BY <2>2 DEF AllBounded, AllComputing
    <3>2. DOMAIN w[c] = {"v", "stack", "finalized", "startleaf", "lowheight"}
        BY <3>1 DEF Bounded
    <3>3. z[c] = Updated(w[c], c)
        BY <2>1, <2>2
    <3>4. c \in Nat
        BY <2>2, HeightAssumption DEF Heights
    <3>5. FirstLeaf(c, n) \in Nat /\ Divides(Pow2[c], FirstLeaf(c, n))
        BY <3>4, DueFacts
    <3> QED
        BY <3>1, <3>2, <3>3, <3>4, <3>5, <2>2, UpdatedComputes
  <2>4. \A k \in Heights : k # c => z[k] = w[k]
    BY <2>1
  <2>5. AllComputing(z, n)
    BY <2>3, <2>4 DEF AllComputing
  <2> QED
    BY <2>5 DEF z
<1> QED
    BY <1>1, <1>2

\* While instance j is unfinished, every turn is one less that it waits for.
LEMMA TurnInTime ==
    ASSUME NEW n \in Nat, NEW w, AllBounded(w), AllComputing(w, n),
           NEW j \in Heights, NEW m \in Int, InTime(w, j, n, m)
    PROVE  InTime(Turn(w), j, n, m + 1)
<1> DEFINE z == Turn(w)
<1> SUFFICES ASSUME z[j].finalized # 1
             PROVE  Total(Needs(z, j, n)) <= 2 * updateiter * (Due(j, n) - n) - 2 * (m + 1)
    BY DEF InTime
<1>0. AllBounded(z) /\ AllComputing(z, n)
    BY TurnBounded, TurnComputes
<1>1. j \in Nat /\ updateiter \in Nat /\ Due(j, n) \in Nat /\ DOMAIN w = Heights
  <2>1. j \in Nat /\ updateiter \in Nat
    BY HeightAssumption DEF Heights, updateiter
  <2> QED
    BY <2>1, DueFacts DEF AllBounded
<1>2. w[j].finalized # 1
  <2> SUFFICES ASSUME w[j].finalized = 1 PROVE FALSE
    OBVIOUS
  <2>1. CASE \A k \in DOMAIN w : ~Busy(w, k)
    BY <2>1 DEF Turn
  <2>2. CASE \E k \in DOMAIN w : Busy(w, k)
    <3>1. /\ ServedFirst(w, Served(w))
          /\ z[j] = IF j = Served(w) THEN Updated(w[j], j) ELSE w[j]
        BY <2>2, ServedIs
    <3>2. j # Served(w)
        BY <3>1 DEF ServedFirst, Busy
    <3> HIDE DEF z
    <3> QED
        BY <3>1, <3>2
  <2> QED
    BY <2>1, <2>2
<1>3. Computing(w[j], j, FirstLeaf(j, n)) /\ FirstLeaf(j, n) \in Nat
    BY <1>1, DueFacts DEF AllComputing
<1>4. Busy(w, j) /\ w[j].lowheight \in Nat /\ (w[j].lowheight = 0 \/ w[j].lowheight < j)
    BY <1>2, <1>3, BusyIs
<1> DEFINE c == Served(w)
<1>5. /\ ServedFirst(w, c)
      /\ \A k \in Heights : z[k] = IF k = c THEN Updated(w[k], k) ELSE w[k]
    BY <1>1, <1>4, ServedIs
<1> HIDE DEF c, z
<1>6. c \in Heights /\ c \in Nat /\ Busy(w, c) /\ w[c].finalized # 1
    BY <1>5, HeightAssumption DEF ServedFirst, Busy, Heights
<1>7. Computing(w[c], c, FirstLeaf(c, n)) /\ FirstLeaf(c, n) \in Nat
    BY <1>6, DueFacts DEF AllComputing
<1>8. ASSUME c > j PROVE w[c].startleaf < FirstLeaf(c, n) + Pow2[j]
  <2>1. w[c].lowheight < w[j].lowheight
    <3>1. \/ w[c].lowheight < w[j].lowheight
          \/ w[c].lowheight = w[j].lowheight /\ c <= j
        BY <1>4, <1>5 DEF ServedFirst
    <3> QED
        BY <3>1, <1>1, <1>6, <1>8
  <2>2. /\ w[c].startleaf \in Nat /\ w[c].lowheight \in Nat
        /\ w[c].startleaf < FirstLeaf(c, n) + 2 * Pow2[w[c].lowheight]
    BY <1>6, <1>7, BusyIs
  <2>3. w[c].lowheight < j
    BY <2>1, <2>2, <1>1, <1>4
  <2>4. 2 * Pow2[w[c].lowheight] <= Pow2[j] /\ Pow2[w[c].lowheight] \in Nat /\ Pow2[j] \in Nat
    BY <2>2, <2>3, <1>1, Pow2Grows, Pow2Facts
  <2> QED
    BY <2>2, <2>4, <1>7
<1>9. Need(z[c], c, j, n) + 2 <= Need(w[c], c, j, n)
  <2>1. z[c] = Updated(w[c], c)
    BY <1>5, <1>6
  <2>2. DOMAIN w[c] = {"v", "stack", "finalized", "startleaf", "lowheight"}
    BY <1>6 DEF AllBounded, Bounded
  <2> QED
    BY <2>1, <2>2, <1>6, <1>7, <1>8, NeedLowers
<1> DEFINE f == Needs(z, j, n)
           g == Needs(w, j, n)
<1>10. f \in [Heights -> Nat] /\ g \in [Heights -> Nat]
    BY <1>0, NeedsNat DEF z
<1>11. f[c] + 2 <= g[c]
    BY <1>6, <1>9 DEF Needs
<1>12. ASSUME NEW h \in Heights PROVE f[h] <= g[h]
  <2>1. CASE h = c
    <3>1. f[c] \in Nat /\ g[c] \in Nat
        BY <1>6, <1>10
    <3> HIDE DEF f, g
    <3> QED
        BY <2>1, <3>1, <1>11
  <2>2. CASE h # c
    <3>1. z[h] = w[h]
        BY <2>2, <1>5
    <3>2. f[h] = g[h]
        BY <3>1 DEF Needs
    <3>3. f[h] \in Nat /\ g[h] \in Nat
        BY <1>10
    <3> HIDE DEF f, g
    <3> QED
        BY <3>2, <3>3
  <2> QED
    BY <2>1, <2>2
<1>13. Total(g) <= 2 * updateiter * (Due(j, n) - n) - 2 * m
    BY <1>2 DEF InTime
<1> HIDE DEF f, g
<1>14. Total(f) \in Int /\ Total(g) \in Int /\ Total(f) + 2 <= Total(g)
  <2>1. f \in [Heights -> Int] /\ g \in [Heights -> Int] /\ 2 \in Nat
    BY <1>10
  <2> QED
    BY ONLY <2>1, <1>6, <1>11, <1>12, TotalGap
<1> DEFINE e == 2 * updateiter * (Due(j, n) - n)
<1>15. e \in Int
    BY <1>1
<1>16. Total(g) <= e - 2 * m
    BY <1>13
<1> HIDE DEF e
<1>17. Total(f) <= e - 2 * (m + 1)
    BY <1>14, <1>15, <1>16
<1> QED
    BY <1>17 DEF e, f

\* All the turns of one signature.
LEMMA WorkedInTime ==
    ASSUME NEW n \in Nat, NEW ins, AllBounded(ins), AllComputing(ins, n), AllInTime(ins, n, 0)
    PROVE  AllComputing(Worked(ins), n) /\ AllInTime(Worked(ins), n, updateiter)
<1>1. PICK w : /\ Worked(ins) = w[updateiter] /\ w[0] = ins
               /\ \A k \in 1..updateiter : w[k] = Turn(w[k - 1])
               /\ \A k \in 0..updateiter : AllBounded(w[k])
    BY WorkedTurns
<1> DEFINE u == updateiter
           P == {k \in 0..u : AllComputing(w[k], n) /\ AllInTime(w[k], n, k)}
<1>2. u \in Nat
    BY HeightAssumption DEF updateiter
<1> HIDE DEF u
<1>3. 0 \in P
    BY <1>1, <1>2
<1>4. ASSUME NEW k \in 1..u, k - 1 \in P PROVE k \in P
  <2>1. k - 1 \in 0..u /\ k \in 0..u /\ (k - 1) + 1 = k /\ k - 1 \in Int
    BY <1>2
  <2>2. AllComputing(w[k - 1], n) /\ AllInTime(w[k - 1], n, k - 1)
    BY <1>4
  <2>3. w[k] = Turn(w[k - 1]) /\ AllBounded(w[k - 1])
    BY <2>1, <1>1 DEF u
  <2>4. AllComputing(w[k], n)
    BY <2>2, <2>3, TurnComputes
  <2>5. ASSUME NEW j \in Heights PROVE InTime(w[k], j, n, k)
    <3>1. InTime(w[k - 1], j, n, k - 1)
        BY <2>2 DEF AllInTime
    <3>2. InTime(Turn(w[k - 1]), j, n, (k - 1) + 1)
        BY <3>1, <2>1, <2>2, <2>3, TurnInTime
    <3> QED
        BY <3>2, <2>1, <2>3
  <2> QED
    BY <2>1, <2>4, <2>5 DEF AllInTime
<1> HIDE DEF P
<1>5. \A k \in 0..u : k \in P
    BY ONLY <1>2, <1>3, <1>4, UpTo
<1>6. u \in P
    BY <1>2, <1>5
<1> QED
    BY <1>1, <1>6 DEF P, u

-----------------------------------------------------------------------------
(* What the path takes, and the instances it starts again *)

\* At its deadline an instance has finished.
LEMMA DoneInTime ==
    ASSUME NEW id \in 0..usr-1, NEW ins, AllComputing(ins, id), AllInTime(ins, id, updateiter),
           NEW j \in Heights, j < Tau(id)
    PROVE  ins[j].finalized = 1
<1>0. id \in Nat /\ j \in Nat /\ updateiter \in Nat /\ usr \in Nat
    BY HeightAssumption, Pow2Facts DEF Heights, updateiter, usr
<1>1. Due(j, id) = id + 1
  <2>1. Tau(id) \in 0..hlength /\ j + 1 \in Nat /\ j + 1 <= Tau(id)
    BY <1>0, HeightAssumption, TauExact
  <2>2. Divides(Pow2[j + 1], id + 1)
    BY <2>1, TauExact
  <2> QED
    BY <2>2, <1>0, DueStep
<1> SUFFICES ASSUME ins[j].finalized # 1 PROVE FALSE
    OBVIOUS
<1> DEFINE g == Needs(ins, j, id)
           f == [h \in Heights |-> 0]
           u == updateiter
<1>2. g \in [Heights -> Nat] /\ g[j] = 2 * Remains(ins[j], j, FirstLeaf(j, id))
    BY <1>0, NeedsNat
<1>3. Remains(ins[j], j, FirstLeaf(j, id)) \in Nat /\ Remains(ins[j], j, FirstLeaf(j, id)) > 0
  <2>1. Computing(ins[j], j, FirstLeaf(j, id)) /\ FirstLeaf(j, id) \in Nat
    BY <1>0, DueFacts DEF AllComputing
  <2> QED
    BY <2>1, <1>0, RemainsSome
<1>4. Total(g) <= 2 * u * ((id + 1) - id) - 2 * u
    BY <1>1 DEF AllInTime, InTime
<1>5. (id + 1) - id = 1
    BY <1>0
<1> HIDE DEF g, u
<1>6. u \in Nat
    BY <1>0 DEF u
<1>7. Total(g) <= 0
    BY <1>4, <1>5, <1>6
<1>8. f \in [Heights -> Int] /\ g \in [Heights -> Int] /\ 1 \in Nat
    BY <1>2
<1>9. \A h \in Heights : f[h] <= g[h]
    BY <1>2
<1>10. f[j] + 1 <= g[j]
    BY <1>2, <1>3
<1>11. Total(f) = (hlength - 2) * 0
  <2>1. 0 \in Int
    OBVIOUS
  <2>2. Total([h \in Heights |-> 0]) = (hlength - 2) * 0
    BY ONLY <2>1, TotalConst
  <2> QED
    BY <2>2 DEF f
<1>12. Total(f) = 0
    BY <1>11, HeightAssumption
<1> HIDE DEF f
<1>13. Total(g) \in Int /\ Total(f) + 1 <= Total(g)
    BY ONLY <1>8, <1>9, <1>10, TotalGap, j \in Heights
<1> QED
    BY <1>7, <1>12, <1>13

LEMMA ResultsReady ==
    ASSUME NEW id \in 0..usr-1, NEW ins, AllComputing(ins, id), AllInTime(ins, id, updateiter),
           Tau(id) < hlength
    PROVE  ResultsFor(ins, id)
<1> SUFFICES ASSUME NEW h \in Heights, h < Tau(id)
             PROVE  ins[h].v = <<h, (id + 1) \div Pow2[h] + 1>>
    BY DEF ResultsFor
<1> DEFINE b == FirstLeaf(h, id)
           w == Pow2[h]
           y == (id + 1) \div w
<1>0. /\ id \in Nat /\ h \in Nat /\ h + 1 \in Nat /\ usr \in Nat /\ w \in Nat \ {0} /\ usr = Pow2[hlength]
      /\ Tau(id) \in 0..hlength /\ h + 1 <= Tau(id) /\ hlength \in Nat /\ h + 1 <= hlength
      /\ Pow2[h + 1] = 2 * w
  <2>1. hlength \in Nat /\ h \in Nat /\ h + 1 \in Nat /\ Tau(id) \in 0..hlength
    BY HeightAssumption, TauExact DEF Heights
  <2> QED
    BY <2>1, Pow2Facts DEF usr
<1>1. Divides(Pow2[h + 1], id + 1)
    BY <1>0, TauExact
<1>2. Due(h, id) = id + 1 /\ b = id + 1 + w
    BY <1>0, <1>1, DueStep DEF FirstLeaf
<1>8. Divides(Pow2[hlength], usr)
  <2>1. usr = 1 * Pow2[hlength]
    BY <1>0
  <2> QED
    BY <2>1 DEF Divides
<1>3. b < usr
  <2>1. id + 1 # usr
    <3>1. ~Divides(Pow2[hlength], id + 1)
        BY <1>0, TauExact
    <3> QED
        BY <3>1, <1>8, <1>0
  <2>2. Divides(Pow2[h + 1], usr)
    BY <1>0, <1>8, DividesLower
  <2>3. id + 1 < usr
    BY <2>1, <1>0
  <2>4. id + 1 + 2 * w <= usr
    BY <2>2, <2>3, <1>0, <1>1, DividesGap
  <2> QED
    BY <2>4, <1>0, <1>2
<1>4. ins[h].finalized = 1
    BY DoneInTime
<1>5. ins[h].v = <<h, b \div w>>
    BY <1>3, <1>4 DEF AllComputing, Computing
<1>6. y \in Nat /\ id + 1 = y * w
  <2> DEFINE x == id \div w
  <2>1. x = id \div w /\ y = (id + 1) \div w
    OBVIOUS
  <2> HIDE DEF x, y
  <2>2. h <= Tau(id)
    BY <1>0
  <2> QED
    BY <2>1, <2>2, <1>0, NodeStep
<1>7. b \div w = y + 1
  <2> HIDE DEF w, y, b
  <2>1. b = w * (y + 1) + 0
    BY <1>0, <1>2, <1>6
  <2> QED
    BY <2>1, <1>0, <1>6, Quotient
<1> QED
    BY <1>5, <1>7

\* The instance j after the restarts, with its deadline.
RestartedTo(R, j, id) ==
    LET s == id + 1 + 3 * Pow2[j] IN
    /\ Computing(R[j], j, FirstLeaf(j, id + 1))
    /\ j < Tau(id) => /\ Due(j, id) = id + 1 /\ Due(j, id + 1) = id + 1 + 2 * Pow2[j]
                      /\ instance[j].finalized = 1
    /\ ~(j < Tau(id)) => Due(j, id + 1) = Due(j, id) /\ R[j] = instance[j]

LEMMA RestartComputes ==
    ASSUME AllBounded(instance), NEW id \in 0..usr-1,
           AllComputing(instance, id), AllInTime(instance, id, updateiter),
           NEW R, R = Restarted(id, Tau(id)), NEW j \in Heights
    PROVE  RestartedTo(R, j, id)
<1> DEFINE t == Tau(id)
           x == instance[j]
           w == Pow2[j]
           s == id + 1 + 3 * w
           y == [x EXCEPT !.finalized = 0, !.startleaf = s,
                          !.lowheight = IF x.stack = <<>> THEN 0 ELSE @]
<1>0. /\ id \in Nat /\ id + 1 \in Nat /\ j \in Nat /\ j + 1 \in Nat /\ w \in Nat \ {0}
      /\ Pow2[j + 1] = 2 * w /\ t \in Nat /\ usr \in Nat
  <2>1. j \in Nat /\ j + 1 \in Nat /\ t \in 0..hlength /\ hlength \in Nat
    BY HeightAssumption, TauExact DEF Heights
  <2> QED
    BY <2>1, Pow2Facts DEF usr
<1>1. R[j] = IF j < t /\ s < usr THEN y ELSE x
    BY DEF Restarted, AllBounded
<1>2. DOMAIN x = {"v", "stack", "finalized", "startleaf", "lowheight"}
    BY DEF AllBounded, Bounded
<1>3. /\ j < t => Due(j, id) = id + 1 /\ Due(j, id + 1) = id + 1 + 2 * w
      /\ ~(j < t) => Due(j, id + 1) = Due(j, id)
  <2>1. Divides(Pow2[j + 1], id + 1) <=> j < t
    BY <1>0, TauExact
  <2> QED
    BY <2>1, <1>0, DueStep
<1>4. Computing(x, j, FirstLeaf(j, id))
    BY DEF AllComputing
<1>5. ASSUME j < t PROVE x.finalized = 1 /\ x.stack = <<>> /\ x.lowheight = Infy
  <2>1. x.finalized = 1
    BY <1>5, DoneInTime
  <2> QED
    BY <2>1, <1>4 DEF Computing
<1>6. Computing(R[j], j, FirstLeaf(j, id + 1))
  <2>1. CASE ~(j < t)
    BY <2>1, <1>1, <1>3, <1>4 DEF FirstLeaf
  <2>2. CASE j < t /\ s < usr
    <3>1. /\ R[j].finalized = 0 /\ R[j].startleaf = s /\ R[j].stack = <<>>
          /\ R[j].lowheight = 0
        BY <1>1, <1>2, <1>5, <2>2
    <3>2. FirstLeaf(j, id + 1) = s /\ s \in Nat
        BY <1>0, <1>3, <2>2 DEF FirstLeaf
    <3>3. Stacked(<<>>, s, j, s)
        BY <3>2, StackedEmpty
    <3> HIDE DEF s
    <3> QED
        BY <3>1, <3>2, <3>3 DEF Computing
  <2>3. CASE j < t /\ ~(s < usr)
    <3>1. R[j] = x
        BY <2>3, <1>1
    <3>2. FirstLeaf(j, id + 1) = s /\ s \in Nat
        BY <1>0, <1>3, <2>3 DEF FirstLeaf
    <3> HIDE DEF s, x
    <3> QED
        BY <3>1, <3>2, <1>5, <2>3 DEF Computing
  <2> QED
    BY <2>1, <2>2, <2>3
<1>7. ~(j < t) => R[j] = x
    BY <1>1
<1> QED
    BY <1>3, <1>5, <1>6, <1>7 DEF RestartedTo

\* What instance k may still take before instance j: at most the leaves under
\* one node of height j when j starts again, and no more than before if not.
LEMMA RestartNeeds ==
    ASSUME NEW id \in Nat, NEW R, NEW j \in Heights, NEW k \in Heights,
           RestartedTo(R, j, id), RestartedTo(R, k, id), Tau(id) \in Nat
    PROVE  /\ j < Tau(id) => Need(R[k], k, j, id + 1) <= 2 * Pow2[j]
           /\ ~(j < Tau(id)) => Need(R[k], k, j, id + 1) <= Need(instance[k], k, j, id)
<1> DEFINE n == id + 1
           t == Tau(id)
           w == Pow2[j]
           x == Pow2[k]
           c == FirstLeaf(k, n)
           d == Due(j, n)
           e == Due(k, n)
           y == R[k]
           m == Remains(y, k, c)
<1>0. /\ n \in Nat /\ j \in Nat /\ k \in Nat /\ w \in Nat /\ x \in Nat /\ t \in Nat
      /\ c \in Nat /\ d \in Nat /\ e \in Nat
  <2>1. n \in Nat /\ j \in Nat /\ k \in Nat
    BY HeightAssumption DEF Heights
  <2> QED
    BY <2>1, Pow2Facts, DueFacts
<1>1. Computing(y, k, c)
    BY DEF RestartedTo
<1>2. m \in Nat /\ m <= x
    BY <1>0, <1>1, RemainsSome
<1>3. y.finalized # 1 => y.startleaf \in Nat /\ c <= y.startleaf
  <2>1. SUFFICES ASSUME y.finalized # 1 PROVE y.startleaf \in Nat /\ c <= y.startleaf
    OBVIOUS
  <2>2. Stacked(y.stack, c, k, y.startleaf)
    BY <2>1, <1>1 DEF Computing
  <2> DEFINE q1 == y.stack
             q2 == y.startleaf
  <2>3. Stacked(q1, c, k, q2) /\ c \in Nat /\ k \in Nat
    BY <2>2, <1>0
  <2> HIDE DEF q1, q2, c
  <2>4. q2 \in Nat /\ c <= q2
    BY ONLY <2>3, StackedSize
  <2> QED
    BY <2>4 DEF q2
<1>4. /\ k <= j => Need(y, k, j, n) = 2 * m + d - e
      /\ ~(k <= j) => Need(y, k, j, n) =
             IF y.finalized # 1 /\ y.startleaf < c + w THEN 2 * (c + w - y.startleaf) ELSE 0
    BY DEF Need
<1>5. j < t => d = n + 2 * w
    BY DEF RestartedTo
<1>6. k < t => e = n + 2 * x /\ Due(k, id) = n /\ instance[k].finalized = 1
    BY DEF RestartedTo
<1>7. ~(j < t) => d = Due(j, id)
    BY DEF RestartedTo
<1>8. ~(k < t) => e = Due(k, id) /\ y = instance[k]
    BY DEF RestartedTo
<1>9. ~(k < t) => c = FirstLeaf(k, id)
    BY <1>8 DEF FirstLeaf
<1>10. ASSUME k < t, k <= j, ~(j < t)
       PROVE  Need(instance[k], k, j, id) = d - n
  <2>1. Remains(instance[k], k, FirstLeaf(k, id)) = 0
    BY <1>6, <1>10 DEF Remains
  <2>2. Need(instance[k], k, j, id) = 2 * 0 + Due(j, id) - Due(k, id)
    BY <2>1, <1>10 DEF Need
  <2> QED
    BY <2>2, <1>0, <1>6, <1>7, <1>10
<1>11. ASSUME ~(k < t), ~(j < t)
       PROVE  Need(instance[k], k, j, id) = Need(y, k, j, n)
    BY <1>7, <1>8, <1>9, <1>11 DEF Need
<1> HIDE DEF n, t, w, x, c, d, e, y, m
<1>12. ASSUME j < t PROVE Need(y, k, j, n) <= 2 * w
  <2>1. CASE k <= j
    <3>1. k < t
        BY <2>1, <1>0, <1>12
    <3>2. Need(y, k, j, n) = 2 * m + (n + 2 * w) - (n + 2 * x)
        BY <3>1, <2>1, <1>4, <1>5, <1>6, <1>12
    <3> QED
        BY <3>2, <1>0, <1>2
  <2>2. CASE ~(k <= j)
    BY <2>2, <1>0, <1>3, <1>4
  <2> QED
    BY <2>1, <2>2
<1>13. ASSUME ~(j < t) PROVE Need(y, k, j, n) <= Need(instance[k], k, j, id)
  <2>1. CASE k < t
    <3>1. k <= j
        BY <2>1, <1>0, <1>13
    <3>2. Need(y, k, j, n) = 2 * m + d - (n + 2 * x)
        BY <3>1, <2>1, <1>4, <1>6
    <3>3. Need(instance[k], k, j, id) = d - n
        BY <3>1, <2>1, <1>10, <1>13
    <3> QED
        BY <3>2, <3>3, <1>0, <1>2
  <2>2. CASE ~(k < t)
    <3>1. Need(instance[k], k, j, id) = Need(y, k, j, n)
        BY <2>2, <1>11, <1>13
    <3>2. Need(y, k, j, n) \in Int
        BY <1>0, <1>2, <1>3, <1>4
    <3> QED
        BY <3>1, <3>2
  <2> QED
    BY <2>1, <2>2
<1> QED
    BY <1>12, <1>13 DEF n, t, w, y

\* After the restarts there is time again for every instance.
LEMMA RestartInTime ==
    ASSUME AllBounded(instance), NEW id \in 0..usr-1,
           AllComputing(instance, id), AllInTime(instance, id, updateiter),
           NEW R, R = Restarted(id, Tau(id))
    PROVE  AllComputing(R, id + 1) /\ AllInTime(R, id + 1, 0)
<1> DEFINE n == id + 1
           t == Tau(id)
           u == updateiter
<1>0. /\ id \in Nat /\ n \in Nat /\ t \in Nat /\ u \in Nat
      /\ hlength \in Nat /\ hlength - 2 = 2 * u
  <2>1. t \in 0..hlength /\ hlength \in Nat /\ hlength >= 4 /\ hlength % 2 = 0
    BY HeightAssumption, TauExact
  <2> QED
    BY <2>1, Pow2Facts DEF usr, updateiter
<1>1. \A k \in Heights : RestartedTo(R, k, id)
    BY RestartComputes
<1>2. AllComputing(R, n)
    BY <1>1 DEF RestartedTo, AllComputing
<1>3. ASSUME NEW j \in Heights PROVE InTime(R, j, n, 0)
  <2> SUFFICES ASSUME R[j].finalized # 1
               PROVE  Total(Needs(R, j, n)) <= 2 * u * (Due(j, n) - n) - 2 * 0
    BY DEF InTime
  <2> DEFINE f == Needs(R, j, n)
             d == Due(j, n)
             w == Pow2[j]
             g == [h \in Heights |-> 2 * w]
             z == Needs(instance, j, id)
  <2>1. /\ f \in [Heights -> Nat] /\ z \in [Heights -> Nat] /\ w \in Nat
        /\ d \in Nat /\ n < d /\ g \in [Heights -> Nat]
    <3>1. j \in Nat
        BY HeightAssumption DEF Heights
    <3>2. f \in [Heights -> Nat]
        BY <1>0, <1>2, NeedsNat
    <3>3. z \in [Heights -> Nat]
        BY <1>0, NeedsNat
    <3>4. w \in Nat /\ d \in Nat /\ n < d
        BY <1>0, <3>1, Pow2Facts, DueFacts
    <3> HIDE DEF w
    <3> QED
        BY <3>2, <3>3, <3>4
  <2>2. ASSUME NEW k \in Heights
        PROVE  /\ j < t => f[k] <= 2 * w
               /\ ~(j < t) => f[k] <= z[k]
    <3>1. RestartedTo(R, j, id) /\ RestartedTo(R, k, id)
        BY <1>1
    <3>2. f[k] = Need(R[k], k, j, n) /\ z[k] = Need(instance[k], k, j, id)
        BY DEF Needs
    <3> QED
        BY <3>1, <3>2, <1>0, RestartNeeds
  <2>3. CASE j < t
    <3>1. d = n + 2 * w
        BY <2>3, <1>1 DEF RestartedTo
    <3>2. g[j] = 2 * w /\ \A h \in Heights : f[h] <= g[h]
        BY <2>2, <2>3
    <3>3. Total(g) = (hlength - 2) * (2 * w)
      <4> DEFINE b == 2 * w
      <4>1. b \in Int
          BY <2>1
      <4> HIDE DEF b
      <4>2. Total([h \in Heights |-> b]) = (hlength - 2) * b
          BY ONLY <4>1, TotalConst
      <4> QED
          BY <4>2 DEF b
    <3> HIDE DEF f, g, d, w, u
    <3>4. f \in [Heights -> Int] /\ g \in [Heights -> Int] /\ 0 \in Nat /\ f[j] + 0 <= g[j]
        BY <2>1, <3>2
    <3>5. Total(f) \in Int /\ Total(g) \in Int /\ Total(f) + 0 <= Total(g)
        BY ONLY <3>2, <3>4, TotalGap, j \in Heights
    <3>6. Total(g) = (2 * u) * (2 * w)
        BY <3>3, <1>0
    <3>7. d - n = 2 * w
        BY <3>1, <2>1, <1>0
    <3>8. Total(f) <= 2 * u * (d - n) - 2 * 0
      <4> DEFINE b == 2 * u * (d - n)
      <4>1. Total(g) = b
          BY <3>6, <3>7
      <4> HIDE DEF b
      <4>2. Total(f) <= b - 2 * 0
          BY <4>1, <3>5
      <4> QED
          BY <4>2 DEF b
    <3> QED
        BY <3>8 DEF f, d, u
  <2>4. CASE ~(j < t)
    <3>1. d = Due(j, id) /\ instance[j].finalized # 1
        BY <2>4, <1>1 DEF RestartedTo
    <3>2. Total(z) <= 2 * u * (d - id) - 2 * u
        BY <3>1 DEF AllInTime, InTime
    <3>3. \A h \in Heights : f[h] <= z[h]
        BY <2>2, <2>4
    <3>4. n = id + 1
        OBVIOUS
    <3> HIDE DEF f, z, d, u, n
    <3>5. f \in [Heights -> Int] /\ z \in [Heights -> Int] /\ 0 \in Nat /\ f[j] + 0 <= z[j]
        BY <2>1, <3>3
    <3>6. Total(f) \in Int /\ Total(z) \in Int /\ Total(f) + 0 <= Total(z)
        BY ONLY <3>3, <3>5, TotalGap, j \in Heights
    <3>7. 2 * u * (d - id) - 2 * u = 2 * u * (d - n)
        BY <1>0, <2>1, <3>4
    <3> DEFINE b == 2 * u * (d - n)
    <3>8. b \in Int
        BY <1>0, <2>1
    <3>9. Total(z) <= b
        BY <3>2, <3>7
    <3> HIDE DEF b
    <3>10. Total(f) <= b - 2 * 0
        BY <3>6, <3>8, <3>9
    <3> QED
        BY <3>10 DEF b, f, d, u
  <2> QED
    BY <2>3, <2>4
<1> QED
    BY <1>2, <1>3 DEF AllInTime

\* Before one-time key n signs.
Signing(a, k, r, ins, n) ==
    /\ PathOf(a, n) /\ KeptFor(k, n) /\ r = <<hlength - 2, 3>>
    /\ AllComputing(ins, n) /\ AllInTime(ins, n, updateiter)

LEMMA ZeroDiv ==
    ASSUME NEW w \in Nat \ {0}
    PROVE  0 \div w = 0
<1>1. 0 = w * 0 + 0 /\ 0 \in 0..w-1
    OBVIOUS
<1> QED
    BY <1>1, Quotient

\* What key_generation() leaves.
LEMMA FirstSigning ==
    ASSUME NEW a, NEW k, NEW ins, PathStarted(a, usr), FirstResults(ins, usr),
           DOMAIN k = 0..hlength-2
    PROVE  Signing(a, k, <<hlength - 2, 3>>, ins, 0)
<1>0. hlength \in Nat /\ hlength >= 4 /\ usr = Pow2[hlength] /\ usr \in Nat
    BY HeightAssumption, Pow2Facts DEF usr
<1>1. \A h \in Nat : Pow2[h] \in Nat \ {0} /\ 0 \div Pow2[h] = 0
    BY Pow2Facts, ZeroDiv
<1>2. PathOf(a, 0)
  <2>1. ASSUME NEW h \in 0..hlength-1 PROVE a[h] = <<h, Sibling(0 \div Pow2[h])>>
    <3>1. h \in Nat /\ 2 * Pow2[h] <= usr
        BY <1>0, Pow2Grows
    <3>2. a[h] = <<h, 1>>
        BY <3>1 DEF PathStarted
    <3>3. Sibling(0) = 1
        BY DEF Sibling
    <3> QED
        BY <3>1, <3>2, <3>3, <1>1
  <2> QED
    BY <2>1 DEF PathOf, PathStarted
<1>3. KeptFor(k, 0)
  <2>1. ASSUME NEW h \in 0..hlength-2 PROVE (0 \div Pow2[h]) % 4 # 1
    <3>1. h \in Nat /\ 0 % 4 = 0
        BY <1>0
    <3> QED
        BY <3>1, <1>1
  <2> QED
    BY <2>1 DEF KeptFor
<1>4. ASSUME NEW j \in Heights PROVE Ready(ins[j], j) /\ Computing(ins[j], j, FirstLeaf(j, 0))
  <2> DEFINE w == Pow2[j]
  <2>0. /\ j \in Nat /\ j + 1 \in Nat /\ j + 1 < hlength /\ w \in Nat \ {0}
        /\ Pow2[j + 1] = 2 * w
    <3>1. j \in Nat /\ j + 1 \in Nat /\ j + 1 < hlength
        BY <1>0 DEF Heights
    <3> QED
        BY <3>1, Pow2Facts
  <2>1. 2 * Pow2[j + 1] <= usr
    BY <2>0, <1>0, Pow2Grows
  <2>2. Ready(ins[j], j)
    BY <2>0, <2>1 DEF FirstResults
  <2>3. Due(j, 0) = 2 * w
    BY <2>0, <1>1 DEF Due
  <2>4. FirstLeaf(j, 0) \div w = 3
    <3> DEFINE b == FirstLeaf(j, 0)
    <3>1. b = w * 3 + 0 /\ 0 \in 0..w-1
        BY <2>0, <2>3 DEF FirstLeaf
    <3> HIDE DEF b, w
    <3>2. b \in Int /\ 3 \in Int
        BY <3>1, <2>0
    <3>3. b \div w = 3
        BY ONLY <3>1, <3>2, <2>0, Quotient
    <3> QED
        BY <3>3 DEF b
  <2> QED
    BY <2>2, <2>4 DEF Ready, Computing
<1>5. AllComputing(ins, 0)
    BY <1>4 DEF AllComputing
<1>6. AllInTime(ins, 0, updateiter)
    BY <1>4 DEF AllInTime, InTime, Ready
<1> QED
    BY <1>2, <1>3, <1>5, <1>6 DEF Signing

\* The signature of one-time key id: it has the path of id, the instances that
\* the path takes are finished, and all is ready for the next one.
LEMMA SignsNext ==
    ASSUME AllBounded(instance), NEW id \in 0..usr-1, ksnmss_sign(id),
           Signing(auth, keep, retain, instance, id)
    PROVE  /\ PathRoot(id, auth) = Root
           /\ \A j \in Heights : j < Tau(id) => instance[j].finalized = 1
           /\ DOMAIN auth' = 0..hlength-1 /\ DOMAIN keep' = 0..hlength-2
           /\ id + 1 < usr => Signing(auth', keep', retain', instance', id + 1)
<1> DEFINE t == Tau(id)
           R == Restarted(id, t)
<1>0. /\ PathOf(auth, id) /\ KeptFor(keep, id) /\ retain = <<hlength - 2, 3>>
      /\ AllComputing(instance, id) /\ AllInTime(instance, id, updateiter)
    BY DEF Signing
<1>1. /\ id \in Nat /\ id + 1 \in Nat /\ usr \in Nat /\ usr = Pow2[hlength] /\ hlength \in Nat
      /\ t \in 0..hlength
    BY HeightAssumption, Pow2Facts, TauExact DEF usr
<1>2. PathRoot(id, auth) = Root
    BY <1>0, PathVerifies
<1>3. \A j \in Heights : j < t => instance[j].finalized = 1
    BY <1>0, DoneInTime
<1>4. DOMAIN auth' = 0..hlength-1 /\ DOMAIN keep' = 0..hlength-2
  <2>1. DOMAIN auth = 0..hlength-1 /\ DOMAIN keep = 0..hlength-2
    BY <1>0 DEF PathOf, KeptFor
  <2>2. DOMAIN auth' = DOMAIN auth
    BY DEF ksnmss_sign, NextAuth
  <2>3. DOMAIN keep' = DOMAIN keep
    BY DEF ksnmss_sign, Kept, Overrun
  <2> QED
    BY <2>1, <2>2, <2>3
<1>5. ASSUME id + 1 < usr PROVE Signing(auth', keep', retain', instance', id + 1)
  <2>1. t < hlength
    <3>1. t # hlength
      <4> SUFFICES ASSUME t = hlength PROVE FALSE
          OBVIOUS
      <4>1. Divides(usr, id + 1)
          BY <1>1, TauExact
      <4>2. PICK z \in Nat : id + 1 = z * usr
          BY <4>1 DEF Divides
      <4> HIDE DEF usr
      <4>3. z # 0
          BY <4>2, <1>1
      <4>4. z * usr >= usr
        <5>1. z - 1 \in Nat /\ z * usr = (z - 1) * usr + usr /\ (z - 1) * usr \in Nat
            BY <4>3, <1>1
        <5> QED
            BY <5>1, <1>1
      <4> QED
          BY <4>2, <4>4, <1>1, <1>5
    <3> QED
        BY <3>1, <1>1
  <2>2. /\ keep' = Kept(id, t) /\ auth' = NextAuth(id, t, Kept(id, t))
        /\ retain' = retain /\ instance' = Worked(R)
    <3>1. t # hlength
        BY <2>1, <1>1
    <3>2. Tau(id) # hlength
        BY <3>1
    <3>3. retain' = retain /\ instance' = Worked(Restarted(id, Tau(id)))
        BY DEF ksnmss_sign
    <3>4. keep' = Kept(id, Tau(id)) /\ auth' = NextAuth(id, Tau(id), Kept(id, Tau(id)))
        BY <3>2 DEF ksnmss_sign
    <3> QED
        BY <3>3, <3>4
  <2>3. ResultsFor(instance, id)
    BY <2>1, <1>0, ResultsReady
  <2>4. PathOf(auth', id + 1)
    BY <2>1, <2>2, <2>3, <1>0, NextPath
  <2>5. KeptFor(keep', id + 1)
    BY <2>1, <2>2, <1>0, NextKept
  <2>6. AllBounded(R) /\ AllComputing(R, id + 1) /\ AllInTime(R, id + 1, 0)
    BY <1>0, RestartedBounded, RestartInTime
  <2>7. AllComputing(instance', id + 1) /\ AllInTime(instance', id + 1, updateiter)
    <3> DEFINE n == id + 1
    <3>1. n \in Nat /\ AllBounded(R) /\ AllComputing(R, n) /\ AllInTime(R, n, 0)
        BY <2>6, <1>1
    <3> HIDE DEF R, n
    <3>2. AllComputing(Worked(R), n) /\ AllInTime(Worked(R), n, updateiter)
        BY ONLY <3>1, WorkedInTime
    <3> QED
        BY <3>2, <2>2 DEF n
  <2> QED
    BY <2>2, <2>4, <2>5, <2>7, <1>0 DEF Signing
<1> QED
    BY <1>2, <1>3, <1>4, <1>5

\* The state of the tree: while it is built, and while it signs.
TreeAt(a, k, r, ins, st, n, g) ==
    /\ g \in Nat
    /\ DOMAIN a = 0..hlength-1 /\ DOMAIN k = 0..hlength-2
    /\ st # <<>> => Growing(st, a, ins, n)
    /\ st = <<>> /\ g > 0 /\ n < usr => Signing(a, k, r, ins, n)

TreeInv ==
    /\ InstancesInv
    /\ TreeAt(auth, keep, retain, instance, treestack, next, gens)
    /\ SignatureVerifies

LEMMA TreeAtPrimed ==
    ASSUME InstancesInv', TreeAt(auth', keep', retain', instance', treestack', next', gens'),
           sig'.id # -1 => PathRoot(sig'.id, sig'.auth) = Root
    PROVE  TreeInv'
<1>1. TreeAt(auth, keep, retain, instance, treestack, next, gens)'
          <=> TreeAt(auth', keep', retain', instance', treestack', next', gens')
    BY DEF TreeAt, Growing, Signing, Stacked, Falling, Below, Leaves, Sound, PathStarted,
           FirstResults, Ready, PathOf, KeptFor, Sibling, AllComputing, Computing, FirstLeaf,
           Due, AllInTime, InTime, Total, Adds, Needs, Need, Remains
<1>2. SignatureVerifies' <=> (sig'.id # -1 => PathRoot(sig'.id, sig'.auth) = Root)
    BY DEF SignatureVerifies, PathRoot, Leaf, Parent, Junk, Root
<1> QED
    BY <1>1, <1>2 DEF TreeInv

LEMMA InitTree == MssInit => TreeInv
<1> SUFFICES ASSUME MssInit PROVE TreeInv
    OBVIOUS
<1>1. InstancesInv
    BY MssInitBounded
<1>2. TreeAt(auth, keep, retain, instance, treestack, next, gens)
    BY DEF MssInit, TreeAt
<1>3. SignatureVerifies
    BY DEF MssInit, SignatureVerifies
<1> QED
    BY <1>1, <1>2, <1>3 DEF TreeInv

\* One more leaf of the tree, be it the first or a later one.
LEMMA LeafKeepsTree ==
    ASSUME AllBounded(instance), NEW id \in 0..usr-1, GenerateLeaf(id),
           Growing(treestack, auth, instance, id),
           DOMAIN auth = 0..hlength-1, DOMAIN keep = 0..hlength-2, gens' \in Nat
    PROVE  TreeAt(auth', keep', retain', instance', treestack', next', gens')
<1>0. usr \in Nat /\ id \in Nat
  <2>1. usr \in Nat
    BY HeightAssumption, Pow2Facts DEF usr
  <2> QED
    BY <2>1
<1>1. /\ PathStarted(auth', id + 1) /\ FirstResults(instance', id + 1)
      /\ id # usr - 1 => next' = id + 1 /\ Growing(treestack', auth', instance', id + 1)
      /\ id = usr - 1 => next' = 0 /\ treestack' = <<>> /\ retain' = <<hlength - 2, 3>>
    BY LeafGrows
<1>2. DOMAIN auth' = 0..hlength-1 /\ DOMAIN keep' = 0..hlength-2
    BY DEF GenerateLeaf
<1>3. CASE id = usr - 1
  <2>1. PathStarted(auth', usr) /\ FirstResults(instance', usr)
    BY <1>0, <1>1, <1>3
  <2>2. Signing(auth', keep', <<hlength - 2, 3>>, instance', 0)
    BY <2>1, <1>2, FirstSigning
  <2> QED
    BY <2>2, <1>1, <1>2, <1>3 DEF TreeAt
<1>4. CASE id # usr - 1
  <2>1. treestack' # <<>>
    <3> SUFFICES ASSUME treestack' = <<>> PROVE FALSE
        OBVIOUS
    <3> DEFINE n == id + 1
    <3>1. Stacked(<<>>, 0, hlength, n)
        BY <1>1, <1>4 DEF Growing
    <3>2. 0 \in Nat /\ hlength \in Nat
        BY HeightAssumption
    <3>3. n # 0
        BY <1>0
    <3> HIDE DEF n
    <3>4. n = 0
        BY <3>1, <3>2, StackedSize
    <3> QED
        BY <3>3, <3>4
  <2> QED
    BY <2>1, <1>1, <1>2, <1>4 DEF TreeAt
<1> QED
    BY <1>3, <1>4

LEMMA MssNextTree == TreeInv /\ [MssNext]_mssvars => TreeInv'
<1> SUFFICES ASSUME TreeInv, [MssNext]_mssvars PROVE TreeInv'
    OBVIOUS
<1>0. /\ AllBounded(instance) /\ usr \in Nat \ {0} /\ hlength \in Nat /\ next \in 0..usr
      /\ gens \in Nat /\ DOMAIN auth = 0..hlength-1 /\ DOMAIN keep = 0..hlength-2
      /\ sig.id # -1 => PathRoot(sig.id, sig.auth) = Root
    BY HeightAssumption, Pow2Facts
    DEF usr, TreeInv, InstancesInv, TreeAt, SignatureVerifies
<1>1. InstancesInv'
    BY MssNextBounded DEF TreeInv
<1>2. CASE KeyGeneration
  <2>1. treestack = <<>> /\ gens' = gens + 1 /\ GenerateLeaf(0) /\ sig' = sig
    BY <1>2 DEF KeyGeneration, GenerateLeaf
  <2>2. Growing(<<>>, auth, instance, 0)
    <3>1. Stacked(<<>>, 0, hlength, 0)
        BY StackedEmpty
    <3>2. \A h \in Nat : ~(2 * Pow2[h] <= 0) /\ ~(4 * Pow2[h] <= 0)
        BY Pow2Facts
    <3>3. \A h \in 0..hlength-1 : h \in Nat
        BY <1>0
    <3>4. \A h \in Heights : h \in Nat
        BY <1>0 DEF Heights
    <3> QED
        BY <3>1, <3>2, <3>3, <3>4, <1>0 DEF Growing, PathStarted, FirstResults
  <2>3. 0 \in 0..usr-1 /\ gens' \in Nat
    BY <2>1, <1>0
  <2>4. TreeAt(auth', keep', retain', instance', treestack', next', gens')
    BY <2>1, <2>2, <2>3, <1>0, LeafKeepsTree
  <2> QED
    BY <2>1, <2>4, <1>0, <1>1, TreeAtPrimed
<1>3. CASE GenerateNext
  <2>1. treestack # <<>> /\ gens' = gens /\ GenerateLeaf(next) /\ sig' = sig
    BY <1>3 DEF GenerateNext, GenerateLeaf
  <2>2. next \in 0..usr-1 /\ Growing(treestack, auth, instance, next)
    BY <2>1, <1>0 DEF TreeInv, InstancesInv, TreeAt
  <2>3. TreeAt(auth', keep', retain', instance', treestack', next', gens')
    BY <2>1, <2>2, <1>0, LeafKeepsTree
  <2> QED
    BY <2>1, <2>3, <1>0, <1>1, TreeAtPrimed
<1>4. CASE SignNext
  <2>1. /\ treestack = <<>> /\ gens > 0 /\ next \in 0..usr-1 /\ next \in Nat
        /\ ksnmss_sign(next) /\ next' = next + 1
        /\ treestack' = treestack /\ gens' = gens /\ sig' = [id |-> next, auth |-> auth]
    BY <1>4, <1>0 DEF SignNext, ksnmss_sign
  <2>2. Signing(auth, keep, retain, instance, next)
    <3>1. next < usr
        BY <2>1, <1>0
    <3> QED
        BY <2>1, <3>1 DEF TreeInv, TreeAt
  <2>3. /\ PathRoot(next, auth) = Root
        /\ DOMAIN auth' = 0..hlength-1 /\ DOMAIN keep' = 0..hlength-2
        /\ next + 1 < usr => Signing(auth', keep', retain', instance', next + 1)
    BY <2>1, <2>2, <1>0, SignsNext
  <2>4. TreeAt(auth', keep', retain', instance', treestack', next', gens')
    BY <2>1, <2>3, <1>0 DEF TreeAt
  <2>5. PathRoot(sig'.id, sig'.auth) = Root
    BY <2>1, <2>3
  <2> QED
    BY <2>4, <2>5, <1>1, TreeAtPrimed
<1>5. CASE UNCHANGED mssvars
  <2>1. /\ auth' = auth /\ keep' = keep /\ retain' = retain /\ instance' = instance
        /\ treestack' = treestack /\ next' = next /\ gens' = gens /\ sig' = sig
    BY <1>5 DEF mssvars
  <2>2. TreeAt(auth', keep', retain', instance', treestack', next', gens')
    BY <2>1 DEF TreeInv
  <2> QED
    BY <2>1, <2>2, <1>0, <1>1, TreeAtPrimed
<1> QED
    BY <1>2, <1>3, <1>4, <1>5 DEF MssNext

\* When a signature takes the results of instances, these have finished.
LEMMA MssNextInTime ==
    TreeInv /\ [MssNext]_mssvars =>
        [treestack = <<>> /\ next' = next + 1 /\ gens' = gens =>
            \A j \in DOMAIN instance : j < Tau(next) => instance[j].finalized = 1]_mssvars
<1> SUFFICES ASSUME TreeInv, MssNext, treestack = <<>>, gens' = gens,
                    NEW j \in DOMAIN instance, j < Tau(next)
             PROVE  instance[j].finalized = 1
    OBVIOUS
<1>0. AllBounded(instance) /\ next \in 0..usr /\ usr \in Nat /\ gens \in Nat
    BY HeightAssumption, Pow2Facts DEF usr, TreeInv, InstancesInv, TreeAt
<1>1. SignNext
    BY <1>0 DEF MssNext, KeyGeneration, GenerateNext
<1>2. next \in 0..usr-1 /\ ksnmss_sign(next) /\ gens > 0 /\ next < usr
    BY <1>0, <1>1 DEF SignNext
<1>3. Signing(auth, keep, retain, instance, next)
    BY <1>2 DEF TreeInv, TreeAt
<1>4. j \in Heights
    BY <1>0 DEF AllBounded
<1> QED
    BY <1>0, <1>2, <1>3, <1>4, SignsNext

\* For every even height of the tree and any number of key generations, every
\* signature of ksnmss_sign() carries the path that ksnmss_verify() follows from
\* its one-time key to the root that key_generation() published.
THEOREM SignaturesVerify == K2snSpec => []SignatureVerifies
<1>1. K2snInit => TreeInv
    BY InitTree DEF K2snInit
<1>2. TreeInv /\ [K2snNext]_k2snvars => TreeInv'
  <2> SUFFICES ASSUME TreeInv, [K2snNext]_k2snvars PROVE TreeInv'
    OBVIOUS
  <2>1. [MssNext]_mssvars
    BY DEF K2snNext, k2snvars
  <2> QED
    BY <2>1, MssNextTree
<1>3. TreeInv => SignatureVerifies
    BY DEF TreeInv
<1> QED
    BY <1>1, <1>2, <1>3, PTL DEF K2snSpec

\* For every even height of the tree, hlength / 2 - 1 leaves of work for each
\* signature are enough: an instance has finished its subtree whenever
\* ksnmss_sign() puts its result on the path and starts it again.
THEOREM TreeHashInTime == K2snSpec => FinishedInTime
<1>1. K2snInit => TreeInv
    BY InitTree DEF K2snInit
<1>2. TreeInv /\ [K2snNext]_k2snvars => TreeInv'
  <2> SUFFICES ASSUME TreeInv, [K2snNext]_k2snvars PROVE TreeInv'
    OBVIOUS
  <2>1. [MssNext]_mssvars
    BY DEF K2snNext, k2snvars
  <2> QED
    BY <2>1, MssNextTree
<1>3. TreeInv /\ [K2snNext]_k2snvars =>
          [treestack = <<>> /\ next' = next + 1 /\ gens' = gens =>
              \A j \in DOMAIN instance : j < Tau(next) => instance[j].finalized = 1]_mssvars
  <2> SUFFICES ASSUME TreeInv, [K2snNext]_k2snvars
               PROVE  [treestack = <<>> /\ next' = next + 1 /\ gens' = gens =>
                          \A j \in DOMAIN instance :
                              j < Tau(next) => instance[j].finalized = 1]_mssvars
    OBVIOUS
  <2>1. [MssNext]_mssvars
    BY DEF K2snNext, k2snvars
  <2> QED
    BY <2>1, MssNextInTime
<1> QED
    BY <1>1, <1>2, <1>3, PTL DEF K2snSpec, FinishedInTime


-----------------------------------------------------------------------------
(* create_L_tree(): what each node is over *)

\* The keys from a to b - 1.
Seg(a, b) == [k \in 1..b-a |-> a + k - 1]

\* The first key of node m of the second layer, and of each layer.
Border(m) == IF m <= Spare \div 2 THEN 4 * m ELSE Spare + 2 * m
First(layer, m) == IF layer = 0 THEN 2 * m ELSE Border(m * Pow2[layer - 1])

\* Node m of a layer is there.
NodeDone(node, layer, m) == node[m] = Seg(First(layer, m), First(layer, m + 1))

\* A tree under construction: the nodes of this layer up to i, and behind them
\* those of the layer below that are still to be read.
Building(x) ==
    /\ x.layer \in 0..llength-1 /\ x.i \in 0..Width(x.layer)-1
    /\ \A m \in 0..x.i-1 : NodeDone(x.node, x.layer, m)
    /\ x.layer > 0 => \A m \in 0..Width(x.layer - 1)-1 :
           2 * x.i <= m => NodeDone(x.node, x.layer - 1, m)

\* The pads of trees so far: the one that each node of an earlier tree or an
\* earlier node of this tree has been hashed with.
PadOf(id, layer, m) ==
    <<layer, (id * Pow2[llength]) \div Pow2[layer] + PadIndex(layer, m)>>
UsedBefore(pad, id, layer, m) ==
    \E d \in Nat, l \in 0..llength-1 : \E n \in 0..Width(l)-1 :
        /\ pad = PadOf(d, l, n)
        /\ \/ d < id
           \/ d = id /\ l < layer
           \/ d = id /\ l = layer /\ n < m

LtFields == {"busy", "id", "layer", "i", "node", "used", "done"}
LeafAt(x) ==
    /\ DOMAIN x = LtFields
    /\ x.id \in Int /\ x.id >= -1
    /\ DOMAIN x.node = 0..(k2sn_t \div 2)-1
    /\ IsFiniteSet(x.used) /\ Cardinality(x.used) = x.done
    /\ x.busy \in BOOLEAN
    /\ x.busy => /\ x.id \in Nat /\ Building(x)
                 /\ \A pad \in x.used : UsedBefore(pad, x.id, x.layer, x.i)
    /\ ~x.busy => /\ \A pad \in x.used : UsedBefore(pad, x.id + 1, 0, 0)
                  /\ x.id >= 0 => x.node[0] = Seg(0, k2sn_t)

LeafInv == LeafAt(lt)

\* What the sizes of the tree are.
LEMMA LeafSizes ==
    /\ llength \in Nat /\ llength >= 3 /\ k2sn_t \in Nat /\ Spare \in Nat /\ Spare # 0
    /\ k2sn_t = Spare + Pow2[llength - 1]
    /\ \E h \in Nat : \E w \in Nat : Spare = 2 * h /\ k2sn_t = 2 * w /\ Spare \div 2 = h
            /\ k2sn_t \div 2 = w /\ h > 0
            /\ Pow2[llength - 1] = 2 * (w - h) /\ Pow2[llength - 2] = w - h /\ 2 * h < w
<1>1. /\ llength \in Nat /\ llength >= 3 /\ 0 < Spare /\ 2 * Spare < k2sn_t
      /\ Spare % 2 = 0 /\ k2sn_t % 2 = 0 /\ k2sn_t \in Nat
    BY OtsAssumption, SizeAssumption
<1>2. /\ Pow2[llength - 1] \in Nat /\ Pow2[llength - 2] \in Nat
      /\ Pow2[llength - 1] = 2 * Pow2[llength - 2]
  <2>1. llength - 2 \in Nat /\ llength - 1 \in Nat /\ (llength - 2) + 1 = llength - 1
    BY <1>1
  <2> QED
    BY <2>1, Pow2Facts
<1>3. Spare = k2sn_t - Pow2[llength - 1]
    BY DEF Spare
<1>4. Spare \in Nat
    BY <1>1, <1>2, <1>3
<1> DEFINE h == Spare \div 2
           w == k2sn_t \div 2
<1> HIDE DEF Spare
<1>5. h \in Nat /\ w \in Nat /\ Spare = 2 * h /\ k2sn_t = 2 * w
    BY <1>1, <1>4
<1> HIDE DEF h, w
<1>6. /\ h > 0 /\ 2 * h < w
      /\ Pow2[llength - 1] = 2 * (w - h) /\ Pow2[llength - 2] = w - h
    BY <1>1, <1>2, <1>3, <1>5
<1>7. /\ h \in Nat /\ w \in Nat
      /\ Spare = 2 * h /\ k2sn_t = 2 * w /\ Spare \div 2 = h /\ k2sn_t \div 2 = w /\ h > 0
      /\ Pow2[llength - 1] = 2 * (w - h) /\ Pow2[llength - 2] = w - h /\ 2 * h < w
    BY <1>5, <1>6 DEF h, w
<1>8. k2sn_t = Spare + Pow2[llength - 1]
    BY <1>1, <1>2, <1>3
<1> QED
    BY <1>1, <1>4, <1>7, <1>8

\* Each layer has half the nodes of the one below, the odd ones of the first
\* layer aside, and fits in the array.
LEMMA Widths ==
    ASSUME NEW layer \in 0..llength-1
    PROVE  /\ Width(layer) \in Nat \ {0} /\ Width(layer) <= k2sn_t \div 2
           /\ layer > 0 => Width(layer) = Pow2[llength - 1 - layer]
           /\ layer > 1 => Width(layer - 1) = 2 * Width(layer)
<1>1. PICK h \in Nat : \E w \in Nat : Spare = 2 * h /\ k2sn_t = 2 * w /\ Spare \div 2 = h
            /\ k2sn_t \div 2 = w /\ h > 0
            /\ Pow2[llength - 1] = 2 * (w - h) /\ Pow2[llength - 2] = w - h /\ 2 * h < w
    BY LeafSizes
<1>2. PICK w \in Nat : Spare = 2 * h /\ k2sn_t = 2 * w /\ Spare \div 2 = h
            /\ k2sn_t \div 2 = w /\ h > 0
            /\ Pow2[llength - 1] = 2 * (w - h) /\ Pow2[llength - 2] = w - h /\ 2 * h < w
    BY <1>1
<1>3. llength \in Nat /\ llength >= 3 /\ layer \in Nat
    BY LeafSizes
<1> DEFINE z(l) == Pow2[llength - 1 - l]
<1>4. Width(0) = 2 * h
    BY <1>2 DEF Width
<1>5. Width(1) = w - h /\ z(1) = w - h
  <2>1. (k2sn_t - 2 * Spare) \div 2 = w - 2 * h
    BY <1>2
  <2>2. Width(1) = h + (w - 2 * h)
    BY <2>1, <1>2 DEF Width
  <2>3. llength - 1 - 1 = llength - 2
    BY <1>3
  <2> QED
    BY <2>2, <2>3, <1>2
<1>6. layer > 1 => Width(layer) = z(layer)
    BY <1>3 DEF Width
<1>7. layer > 0 => Width(layer) = z(layer)
    BY <1>3, <1>5, <1>6
<1>8. ASSUME layer > 1 PROVE Width(layer - 1) = 2 * Width(layer)
  <2>1. Width(layer - 1) = z(layer - 1)
    BY <1>3, <1>5, <1>8 DEF Width
  <2>2. llength - 1 - (layer - 1) = (llength - 1 - layer) + 1 /\ llength - 1 - layer \in Nat
    BY <1>3
  <2>3. z(layer - 1) = 2 * z(layer)
    BY <2>2, Pow2Facts
  <2> QED
    BY <2>1, <2>3, <1>3, <1>8, <1>6
<1>9. Width(layer) \in Nat \ {0} /\ Width(layer) <= k2sn_t \div 2
  <2>1. CASE layer = 0
    BY <2>1, <1>2, <1>4
  <2>2. CASE layer = 1
    BY <2>2, <1>2, <1>5
  <2>3. CASE layer > 1
    <3>1. llength - 1 - layer \in Nat /\ llength - 2 \in Nat /\ llength - 1 - layer < llength - 2
        BY <2>3, <1>3
    <3>2. 2 * z(layer) <= Pow2[llength - 2] /\ z(layer) \in Nat \ {0}
        BY <3>1, Pow2Grows, Pow2Facts
    <3> HIDE DEF z
    <3> QED
        BY <3>2, <2>3, <1>2, <1>6
  <2> QED
    BY <2>1, <2>2, <2>3, <1>3
<1> QED
    BY <1>7, <1>8, <1>9


LEMMA JoinSegs ==
    ASSUME NEW a \in Nat, NEW b \in Nat, NEW c \in Nat, a <= b, b <= c
    PROVE  Seg(a, b) \o Seg(b, c) = Seg(a, c)
<1> DEFINE x == Seg(a, b)
           y == Seg(b, c)
           z == Seg(a, c)
<1>1. /\ x \in Seq(Nat) /\ Len(x) = b - a /\ \A k \in 1..b-a : x[k] = a + k - 1
      /\ y \in Seq(Nat) /\ Len(y) = c - b /\ \A k \in 1..c-b : y[k] = b + k - 1
      /\ z \in Seq(Nat) /\ Len(z) = c - a /\ \A k \in 1..c-a : z[k] = a + k - 1
  <2>1. \A d, e \in Nat : d <= e =>
            /\ Seg(d, e) \in Seq(Nat) /\ Len(Seg(d, e)) = e - d
            /\ \A k \in 1..e-d : Seg(d, e)[k] = d + k - 1
    BY DEF Seg
  <2>2. a <= c
    OBVIOUS
  <2> QED
    BY <2>1, <2>2
<1> HIDE DEF x, y, z
<1>2. x \o y \in Seq(Nat) /\ Len(x \o y) = c - a
    BY <1>1
<1>3. ASSUME NEW k \in 1..c-a PROVE (x \o y)[k] = z[k]
  <2>1. CASE k <= b - a
    BY <2>1, <1>1
  <2>2. CASE ~(k <= b - a)
    <3>1. k - (b - a) \in 1..c-b
        BY <2>2
    <3>2. (x \o y)[k] = y[k - (b - a)]
        BY <2>2, <1>1, SMTT(60)
    <3>3. y[k - (b - a)] = b + (k - (b - a)) - 1
        BY <3>1, <1>1
    <3> QED
        BY <3>2, <3>3, <1>1
  <2> QED
    BY <2>1, <2>2
<1>4. x \o y = z
  <2> DEFINE u == x \o y
  <2>1. u = [k \in 1..c-a |-> u[k]] /\ z = [k \in 1..c-a |-> z[k]]
    <3>1. \A s \in Seq(Nat) : s = [k \in 1..Len(s) |-> s[k]]
        OBVIOUS
    <3> QED
        BY <3>1, <1>1, <1>2
  <2>2. \A k \in 1..c-a : u[k] = z[k]
    BY <1>3
  <2> HIDE DEF u
  <2>3. u = z
    BY <2>1, <2>2
  <2> QED
    BY <2>3 DEF u
<1> QED
    BY <1>4 DEF x, y, z

LEMMA TwoKeys ==
    ASSUME NEW k \in Nat
    PROVE  Pk(k) \o Pk(k + 1) = Seg(k, k + 2)
<1>1. Pk(k) = Seg(k, k + 1) /\ Pk(k + 1) = Seg(k + 1, k + 2)
    BY DEF Pk, Seg
<1>2. k + 1 \in Nat /\ k + 2 \in Nat /\ k <= k + 1 /\ k + 1 <= k + 2
    OBVIOUS
<1> QED
    BY <1>1, <1>2, JoinSegs, ZenonT(60)

LEMMA BorderFacts ==
    ASSUME NEW m \in Nat
    PROVE  /\ Border(m) \in Nat /\ Border(m + 1) \in Nat /\ Border(m) <= Border(m + 1)
           /\ m < Spare \div 2 => Border(m) = 4 * m /\ Border(m + 1) = 4 * m + 4
           /\ Spare \div 2 <= m =>
                /\ Border(m) = FirstKey + 2 * (m - Spare \div 2)
                /\ Border(m + 1) = Border(m) + 2
<1>1. PICK h \in Nat : Spare = 2 * h /\ Spare \div 2 = h
    BY LeafSizes
<1> QED
    BY <1>1 DEF Border, FirstKey

\* A layer begins at key 0 and ends with the last key; the children of a node
\* are over the keys that it is over.
LEMMA FirstFacts ==
    ASSUME NEW layer \in Nat, NEW m \in Nat
    PROVE  /\ First(layer, m) \in Nat /\ First(layer, 0) = 0
           /\ layer > 1 => First(layer, m) = First(layer - 1, 2 * m)
<1>1. ASSUME NEW n \in Nat PROVE First(layer, n) \in Nat
  <2>1. CASE layer = 0
    BY <2>1 DEF First
  <2>2. CASE layer # 0
    <3>1. Pow2[layer - 1] \in Nat
        BY <2>2, Pow2Facts
    <3>2. n * Pow2[layer - 1] \in Nat
        BY <3>1
    <3> QED
        BY <3>2, <2>2, BorderFacts DEF First
  <2> QED
    BY <2>1, <2>2
<1>2. First(layer, 0) = 0
  <2>1. CASE layer = 0
    BY <2>1 DEF First
  <2>2. CASE layer # 0
    <3>1. Pow2[layer - 1] \in Nat
        BY <2>2, Pow2Facts
    <3>2. 0 * Pow2[layer - 1] = 0
        BY <3>1
    <3>3. Border(0) = 0
        BY LeafSizes DEF Border
    <3> QED
        BY <3>2, <3>3, <2>2 DEF First
  <2> QED
    BY <2>1, <2>2
<1>3. ASSUME layer > 1 PROVE First(layer, m) = First(layer - 1, 2 * m)
  <2>1. layer - 2 \in Nat /\ (layer - 2) + 1 = layer - 1 /\ (layer - 1) - 1 = layer - 2
    BY <1>3
  <2>2. Pow2[layer - 1] = 2 * Pow2[layer - 2] /\ Pow2[layer - 2] \in Nat
    BY <2>1, Pow2Facts
  <2> DEFINE w == Pow2[layer - 2]
  <2>3. m * (2 * w) = (2 * m) * w
    <3> HIDE DEF w
    <3>1. w \in Nat
        BY <2>2 DEF w
    <3> QED
        BY <3>1
  <2>4. First(layer, m) = Border(m * (2 * w)) /\ First(layer - 1, 2 * m) = Border((2 * m) * w)
    BY <2>1, <2>2, <1>3 DEF First
  <2> QED
    BY <2>3, <2>4
<1> QED
    BY <1>1, <1>2, <1>3

LEMMA BorderAscends ==
    ASSUME NEW m \in Nat, NEW n \in Nat, m <= n
    PROVE  Border(m) <= Border(n)
<1>1. PICK h \in Nat : Spare = 2 * h /\ Spare \div 2 = h
    BY LeafSizes
<1> QED
    BY <1>1 DEF Border

LEMMA FirstAscends ==
    ASSUME NEW layer \in Nat, NEW m \in Nat
    PROVE  First(layer, m) <= First(layer, m + 1)
<1>1. CASE layer = 0
    BY <1>1 DEF First
<1>2. CASE layer # 0
  <2> DEFINE w == Pow2[layer - 1]
             a == m * w
             b == (m + 1) * w
  <2>1. w \in Nat
    BY <1>2, Pow2Facts
  <2>2. First(layer, m) = Border(a) /\ First(layer, m + 1) = Border(b)
    BY <1>2 DEF First
  <2> HIDE DEF w
  <2>3. a \in Nat /\ b = a + w
    BY <2>1
  <2> HIDE DEF a, b
  <2>4. b \in Nat /\ a <= b
    BY <2>1, <2>3
  <2> QED
    BY <2>2, <2>3, <2>4, BorderAscends
<1> QED
    BY <1>1, <1>2

\* The hash of its children puts the right keys in a node.
LEMMA NodeHashed ==
    ASSUME NEW x, Building(x)
    PROVE  LET c == Children(x.layer, x.i, x.node)
           IN  c[1] \o c[2] = Seg(First(x.layer, x.i), First(x.layer, x.i + 1))
<1> DEFINE l == x.layer
           n == x.i
           y == x.node
           c == Children(l, n, y)
<1>1. PICK h \in Nat : \E w \in Nat : Spare = 2 * h /\ k2sn_t = 2 * w /\ Spare \div 2 = h
            /\ k2sn_t \div 2 = w /\ h > 0
            /\ Pow2[llength - 1] = 2 * (w - h) /\ Pow2[llength - 2] = w - h /\ 2 * h < w
    BY LeafSizes
<1>2. /\ l \in 0..llength-1 /\ n \in 0..Width(l)-1 /\ llength \in Nat /\ llength >= 3
      /\ l > 0 => \A m \in 0..Width(l - 1)-1 : 2 * n <= m => NodeDone(y, l - 1, m)
    BY LeafSizes DEF Building
<1>3. Width(l) \in Nat \ {0} /\ Width(l) <= k2sn_t \div 2
    BY <1>2, Widths
<1>4. l \in Nat /\ n \in Nat
    BY <1>2, <1>3
<1> HIDE DEF l, n, y
<1>5. CASE l = 0
  <2>1. c = <<Pk(2 * n), Pk(2 * n + 1)>>
    BY <1>5 DEF Children
  <2>2. First(l, n) = 2 * n /\ First(l, n + 1) = 2 * n + 2
    BY <1>4, <1>5 DEF First
  <2>3. Pk(2 * n) \o Pk(2 * n + 1) = Seg(2 * n, 2 * n + 2)
    <3>1. 2 * n \in Nat
        BY <1>4
    <3> QED
        BY <3>1, TwoKeys
  <2> QED
    BY <2>1, <2>2, <2>3 DEF l, n, y
<1>6. CASE l = 1 /\ n >= Spare \div 2
  <2> DEFINE k == FirstKey + 2 * (n - Spare \div 2)
  <2>1. c = <<Pk(k), Pk(k + 1)>>
    BY <1>6 DEF Children
  <2>2. First(l, n) = k /\ First(l, n + 1) = k + 2 /\ k \in Nat
    <3>1. Border(n) = k /\ Border(n + 1) = k + 2 /\ Border(n) \in Nat
        BY <1>4, <1>6, <1>1, BorderFacts
    <3>2. First(l, n) = Border(n) /\ First(l, n + 1) = Border(n + 1)
      <4>1. Pow2[1 - 1] = 1 /\ n * 1 = n /\ (n + 1) * 1 = n + 1
          BY <1>4, Pow2Facts
      <4> QED
          BY <4>1, <1>6 DEF First
    <3> QED
        BY <3>1, <3>2
  <2>3. Pk(k) \o Pk(k + 1) = Seg(k, k + 2)
    BY <2>2, TwoKeys
  <2> HIDE DEF k
  <2> QED
    BY <2>1, <2>2, <2>3 DEF l, n, y
<1>7. CASE ~(l = 0) /\ ~(l = 1 /\ n >= Spare \div 2)
  <2>1. c = <<y[2 * n], y[2 * n + 1]>>
    BY <1>7 DEF Children
  <2>2. 2 * n + 1 <= Width(l - 1) - 1
    <3>1. CASE l = 1
      <4>1. Width(0) = Spare
          BY DEF Width
      <4> QED
          BY <4>1, <3>1, <1>1, <1>4, <1>7
    <3>2. CASE l > 1
      <4>1. Width(l - 1) = 2 * Width(l)
          BY <3>2, <1>2, Widths
      <4> QED
          BY <4>1, <1>2, <1>3, <1>4
    <3> QED
        BY <3>1, <3>2, <1>4, <1>7
  <2>3. Width(l - 1) \in Nat
    <3>1. l - 1 \in 0..llength-1
        BY <1>2, <1>4, <1>7
    <3> QED
        BY <3>1, Widths
  <2>4. NodeDone(y, l - 1, 2 * n) /\ NodeDone(y, l - 1, 2 * n + 1)
    <3>1. 2 * n \in 0..Width(l - 1)-1 /\ 2 * n + 1 \in 0..Width(l - 1)-1 /\ l > 0
        BY <2>2, <2>3, <1>4, <1>7
    <3> QED
        BY <3>1, <1>2, <1>4
  <2> DEFINE a == First(l - 1, 2 * n)
             b == First(l - 1, 2 * n + 1)
             d == First(l - 1, 2 * n + 2)
  <2>5. y[2 * n] = Seg(a, b) /\ y[2 * n + 1] = Seg(b, d)
    <3>1. 2 * n + 1 + 1 = 2 * n + 2
        BY <1>4
    <3> QED
        BY <2>4, <3>1 DEF NodeDone
  <2>6. a \in Nat /\ b \in Nat /\ d \in Nat /\ a <= b /\ b <= d
    <3>0. l - 1 \in Nat /\ 2 * n \in Nat /\ 2 * n + 1 \in Nat /\ 2 * n + 2 \in Nat
        BY <1>4, <1>7
    <3>1. a \in Nat /\ b \in Nat /\ d \in Nat
        BY <3>0, FirstFacts
    <3>2. CASE l = 1
        BY <3>2, <1>4 DEF First
    <3>3. CASE l > 1
      <4>1. a <= b
          BY <3>0, FirstAscends
      <4>2. First(l - 1, 2 * n + 1) <= First(l - 1, (2 * n + 1) + 1)
          BY <3>0, FirstAscends
      <4>3. (2 * n + 1) + 1 = 2 * n + 2
          BY <1>4
      <4>4. b <= d
          BY <4>2, <4>3
      <4> QED
          BY <3>1, <4>1, <4>4
    <3> QED
        BY <3>1, <3>2, <3>3, <1>4, <1>7
  <2>7. First(l, n) = a /\ First(l, n + 1) = d
    <3>1. CASE l = 1
      <4>1. Border(n) = 4 * n /\ Border(n + 1) = 4 * n + 4
          BY <3>1, <1>1, <1>4, <1>7, BorderFacts, SMTT(60)
      <4>2. Pow2[1 - 1] = 1 /\ n * 1 = n /\ (n + 1) * 1 = n + 1
          BY <1>4, Pow2Facts
      <4>3. First(l, n) = 4 * n /\ First(l, n + 1) = 4 * n + 4
          BY <4>1, <4>2, <3>1 DEF First
      <4>4. a = 4 * n /\ d = 4 * n + 4
          BY <3>1, <1>4 DEF First
      <4> QED
          BY <4>3, <4>4
    <3>2. CASE l > 1
      <4>1. n + 1 \in Nat /\ 2 * (n + 1) = 2 * n + 2
          BY <1>4
      <4> QED
          BY <4>1, <3>2, <1>4, FirstFacts
    <3> QED
        BY <3>1, <3>2, <1>4, <1>7
  <2> HIDE DEF a, b, d
  <2>8. Seg(a, b) \o Seg(b, d) = Seg(a, d)
    BY ONLY <2>6, JoinSegs
  <2> QED
    BY <2>1, <2>5, <2>7, <2>8 DEF l, n, y
<1> QED
    BY <1>5, <1>6, <1>7 DEF l, n, y


\* A pad belongs to one node of one tree.
LEMMA PadIndexFits ==
    ASSUME NEW layer \in 0..llength-1, NEW m \in 0..Width(layer)-1, NEW n \in 0..Width(layer)-1
    PROVE  /\ PadIndex(layer, m) \in 0..Pow2[llength - layer]-1
           /\ PadIndex(layer, m) = PadIndex(layer, n) => m = n
<1>1. PICK h \in Nat : \E w \in Nat : Spare = 2 * h /\ k2sn_t = 2 * w /\ Spare \div 2 = h
            /\ k2sn_t \div 2 = w /\ h > 0
            /\ Pow2[llength - 1] = 2 * (w - h) /\ Pow2[llength - 2] = w - h /\ 2 * h < w
    BY LeafSizes
<1>2. PICK w \in Nat : Spare = 2 * h /\ k2sn_t = 2 * w /\ Spare \div 2 = h
            /\ k2sn_t \div 2 = w /\ h > 0
            /\ Pow2[llength - 1] = 2 * (w - h) /\ Pow2[llength - 2] = w - h /\ 2 * h < w
    BY <1>1
<1>3. llength \in Nat /\ llength >= 3 /\ layer \in Nat /\ layer <= llength - 1
    BY LeafSizes
<1>4. Width(layer) \in Nat \ {0} /\ (layer > 0 => Width(layer) = Pow2[llength - 1 - layer])
    BY Widths
<1>5. m \in Nat /\ n \in Nat
    BY <1>4
<1>6. CASE layer = 1
  <2>1. llength - 1 - 1 = llength - 2
    BY <1>3
  <2>2. Width(layer) = w - h
    BY <1>2, <1>4, <1>6, <2>1
  <2>3. PadIndex(layer, m) = IF m >= h THEN m + h ELSE m
    BY <1>2, <1>5, <1>6 DEF PadIndex
  <2>4. PadIndex(layer, n) = IF n >= h THEN n + h ELSE n
    BY <1>2, <1>5, <1>6 DEF PadIndex
  <2> QED
    BY <2>2, <2>3, <2>4, <1>2, <1>5, <1>6
<1>7. CASE layer # 1
  <2>1. PadIndex(layer, m) = m /\ PadIndex(layer, n) = n
    BY <1>7 DEF PadIndex
  <2>2. Width(layer) <= Pow2[llength - layer] /\ Pow2[llength - layer] \in Nat
    <3>1. Pow2[llength - layer] = 2 * Pow2[llength - 1 - layer] /\ Pow2[llength - 1 - layer] \in Nat
      <4>1. llength - 1 - layer \in Nat /\ (llength - 1 - layer) + 1 = llength - layer
          BY <1>3
      <4> QED
          BY <4>1, Pow2Facts
    <3>2. CASE layer = 0
      <4>1. Width(layer) = 2 * h /\ llength - 1 - layer = llength - 1
          BY <3>2, <1>2, <1>3 DEF Width
      <4> QED
          BY <3>1, <4>1, <1>2
    <3>3. CASE layer > 0
        BY <3>1, <3>3, <1>4
    <3> QED
        BY <3>2, <3>3, <1>3
  <2> QED
    BY <2>1, <2>2, <1>4, <1>5
<1> QED
    BY <1>6, <1>7

LEMMA PadsDiffer ==
    ASSUME NEW d \in Nat, NEW l \in 0..llength-1, NEW n \in 0..Width(l)-1,
           NEW id \in Nat, NEW layer \in 0..llength-1, NEW m \in 0..Width(layer)-1,
           PadOf(d, l, n) = PadOf(id, layer, m)
    PROVE  d = id /\ l = layer /\ n = m
<1>1. l = layer
    BY DEF PadOf
<1> DEFINE w == Pow2[llength - layer]
           v == Pow2[layer]
           x == PadIndex(layer, n)
           y == PadIndex(layer, m)
<1>2. /\ w \in Nat \ {0} /\ v \in Nat \ {0} /\ Pow2[llength] = v * w
  <2>1. layer \in Nat /\ llength - layer \in Nat /\ layer + (llength - layer) = llength
    BY LeafSizes
  <2>2. Pow2[layer + (llength - layer)] = v * w
    BY ONLY <2>1, Pow2Add
  <2>3. w \in Nat \ {0} /\ v \in Nat \ {0}
    BY ONLY <2>1, Pow2Facts
  <2> QED
    BY <2>1, <2>2, <2>3
<1>3. x \in 0..w-1 /\ y \in 0..w-1 /\ (x = y => n = m)
    BY <1>1, PadIndexFits
<1>4. ASSUME NEW z \in Nat PROVE (z * Pow2[llength]) \div v = z * w
  <2> DEFINE a == z * Pow2[llength]
             b == z * w
  <2> HIDE DEF w, v
  <2>1. a = v * b + 0 /\ a \in Int /\ b \in Int /\ 0 \in 0..v-1
    BY <1>2
  <2> HIDE DEF a, b
  <2>2. a \div v = b
    BY ONLY <2>1, <1>2, Quotient
  <2> QED
    BY <2>2 DEF a, b
<1>5. d * w + x = id * w + y
    BY <1>1, <1>4 DEF PadOf
<1> HIDE DEF w, v, x, y
<1> DEFINE e == d * w + x
<1>6. e = w * d + x /\ e = w * id + y /\ e \in Int
    BY <1>2, <1>3, <1>5
<1> HIDE DEF e
<1>7. e \div w = d /\ e \div w = id
  <2>1. d \in Int /\ id \in Int
    OBVIOUS
  <2>2. e \div w = d
    BY ONLY <2>1, <1>2, <1>3, <1>6, Quotient
  <2>3. e \div w = id
    BY ONLY <2>1, <1>2, <1>3, <1>6, Quotient
  <2> QED
    BY <2>2, <2>3
<1>8. x = y
    BY <1>2, <1>3, <1>6, <1>7
<1> QED
    BY <1>1, <1>3, <1>7, <1>8

\* The pad of the next node is a new one.
LEMMA PadIsNew ==
    ASSUME NEW pad, NEW id \in Nat, NEW layer \in 0..llength-1, NEW m \in 0..Width(layer)-1,
           UsedBefore(pad, id, layer, m)
    PROVE  pad # PadOf(id, layer, m)
<1> SUFFICES ASSUME pad = PadOf(id, layer, m) PROVE FALSE
    OBVIOUS
<1>1. PICK d \in Nat, l \in 0..llength-1 : \E n \in 0..Width(l)-1 :
        /\ pad = PadOf(d, l, n)
        /\ \/ d < id
           \/ d = id /\ l < layer
           \/ d = id /\ l = layer /\ n < m
    BY DEF UsedBefore
<1>2. PICK n \in 0..Width(l)-1 :
        /\ pad = PadOf(d, l, n)
        /\ \/ d < id
           \/ d = id /\ l < layer
           \/ d = id /\ l = layer /\ n < m
    BY <1>1
<1>3. d = id /\ l = layer /\ n = m
  <2>1. PadOf(d, l, n) = PadOf(id, layer, m)
    BY <1>2
  <2> QED
    BY ONLY <2>1, PadsDiffer, d \in Nat, l \in 0..llength-1, n \in 0..Width(l)-1,
            id \in Nat, layer \in 0..llength-1, m \in 0..Width(layer)-1
<1>4. layer \in Nat /\ m \in Nat
    BY LeafSizes, Widths
<1> QED
    BY <1>2, <1>3, <1>4


Earlier(id, layer, m, e, h, n) ==
    \/ id < e
    \/ id = e /\ layer < h
    \/ id = e /\ layer = h /\ m <= n

LEMMA UsedLater ==
    ASSUME NEW pad, NEW id \in Nat, NEW layer \in Nat, NEW m \in Nat,
           UsedBefore(pad, id, layer, m),
           NEW e \in Nat, NEW h \in Nat, NEW n \in Nat,
           Earlier(id, layer, m, e, h, n)
    PROVE  UsedBefore(pad, e, h, n)
<1>1. PICK d \in Nat, l \in 0..llength-1 : \E k \in 0..Width(l)-1 :
        /\ pad = PadOf(d, l, k)
        /\ \/ d < id
           \/ d = id /\ l < layer
           \/ d = id /\ l = layer /\ k < m
    BY DEF UsedBefore
<1>2. PICK k \in 0..Width(l)-1 :
        /\ pad = PadOf(d, l, k)
        /\ \/ d < id
           \/ d = id /\ l < layer
           \/ d = id /\ l = layer /\ k < m
    BY <1>1
<1>3. l \in Nat /\ k \in Nat
    BY LeafSizes, Widths
<1>4. \/ d < e
      \/ d = e /\ l < h
      \/ d = e /\ l = h /\ k < n
    BY <1>2, <1>3 DEF Earlier
<1> QED
    BY <1>2, <1>4 DEF UsedBefore

\* What has been hashed once the tree is complete.
LEMMA RootOverAll == Width(llength - 1) = 1 /\ First(llength - 1, 1) = k2sn_t
<1>1. PICK h \in Nat : \E w \in Nat : Spare = 2 * h /\ k2sn_t = 2 * w /\ Spare \div 2 = h
            /\ k2sn_t \div 2 = w /\ h > 0
            /\ Pow2[llength - 1] = 2 * (w - h) /\ Pow2[llength - 2] = w - h /\ 2 * h < w
    BY LeafSizes
<1>2. PICK w \in Nat : Spare = 2 * h /\ k2sn_t = 2 * w /\ Spare \div 2 = h
            /\ k2sn_t \div 2 = w /\ h > 0
            /\ Pow2[llength - 1] = 2 * (w - h) /\ Pow2[llength - 2] = w - h /\ 2 * h < w
    BY <1>1
<1>3. llength \in Nat /\ llength >= 3
    BY LeafSizes
<1>4. Width(llength - 1) = 1
  <2>1. llength - 1 \in 0..llength-1 /\ llength - 1 > 0 /\ llength - 1 - (llength - 1) = 0
    BY <1>3
  <2>2. Width(llength - 1) = Pow2[llength - 1 - (llength - 1)]
    BY <2>1, Widths
  <2> QED
    BY <2>1, <2>2, Pow2Facts
<1>5. First(llength - 1, 1) = Border(w - h)
  <2>1. llength - 1 - 1 = llength - 2 /\ llength - 1 # 0
    BY <1>3
  <2>2. 1 * (w - h) = w - h
    BY <1>2
  <2> QED
    BY <2>1, <2>2, <1>2 DEF First
<1>6. Border(w - h) = k2sn_t
    BY <1>2 DEF Border
<1> QED
    BY <1>4, <1>5, <1>6

\* One more node.
LEMMA HashBuilds ==
    ASSUME LeafInv, HashNode
    PROVE  LeafAt(lt')
<1> DEFINE x == lt
           y == lt'
           c == Children(x.layer, x.i, x.node)
           new == c[1] \o c[2]
           pad == PadOf(x.id, x.layer, x.i)
           last == x.i = Width(x.layer) - 1
<1>1. /\ x.busy /\ DOMAIN x = LtFields /\ x.id \in Nat /\ Building(x)
      /\ DOMAIN x.node = 0..(k2sn_t \div 2)-1
      /\ IsFiniteSet(x.used) /\ Cardinality(x.used) = x.done
      /\ \A q1 \in x.used : UsedBefore(q1, x.id, x.layer, x.i)
    BY DEF LeafInv, LeafAt, HashNode
<1>2. /\ DOMAIN y = LtFields /\ y.id = x.id
      /\ y.node = [x.node EXCEPT ![x.i] = new]
      /\ y.used = x.used \cup {pad} /\ y.done = x.done + 1
      /\ y.i = (IF last THEN 0 ELSE x.i + 1)
      /\ y.layer = (IF last THEN x.layer + 1 ELSE x.layer)
      /\ y.busy = ~(last /\ x.layer = llength - 1)
    BY <1>1 DEF HashNode, PadOf, LtFields
<1>3. new = Seg(First(x.layer, x.i), First(x.layer, x.i + 1))
    BY <1>1, NodeHashed
<1> HIDE DEF c, new
<1>4. /\ llength \in Nat /\ llength >= 3 /\ k2sn_t \in Nat
      /\ x.layer \in 0..llength-1 /\ x.layer \in Nat
      /\ x.i \in 0..Width(x.layer)-1 /\ x.i \in Nat
      /\ Width(x.layer) \in Nat \ {0} /\ Width(x.layer) <= k2sn_t \div 2
  <2>1. /\ llength \in Nat /\ llength >= 3 /\ k2sn_t \in Nat
        /\ x.layer \in 0..llength-1 /\ x.i \in 0..Width(x.layer)-1
    BY <1>1, LeafSizes DEF Building
  <2>2. Width(x.layer) \in Nat \ {0} /\ Width(x.layer) <= k2sn_t \div 2
    BY <2>1, Widths
  <2> QED
    BY <2>1, <2>2
<1>5. /\ DOMAIN y.node = 0..(k2sn_t \div 2)-1
      /\ y.node[x.i] = new /\ \A m : m # x.i => (m \in DOMAIN x.node => y.node[m] = x.node[m])
  <2>1. x.i \in 0..(k2sn_t \div 2)-1
    BY <1>4
  <2> QED
    BY <2>1, <1>1, <1>2
<1>6. \A m \in 0..x.i : NodeDone(y.node, x.layer, m)
  <2> SUFFICES ASSUME NEW m \in 0..x.i PROVE NodeDone(y.node, x.layer, m)
    OBVIOUS
  <2>1. CASE m = x.i
    BY <2>1, <1>3, <1>5 DEF NodeDone
  <2>2. CASE m # x.i
    <3>1. m \in 0..x.i-1 /\ m \in 0..(k2sn_t \div 2)-1
        BY <2>2, <1>4
    <3>2. NodeDone(x.node, x.layer, m)
        BY <3>1, <1>1 DEF Building
    <3> QED
        BY <3>1, <3>2, <2>2, <1>1, <1>5 DEF NodeDone
  <2> QED
    BY <2>1, <2>2
<1>7. IsFiniteSet(y.used) /\ Cardinality(y.used) = y.done
  <2>1. pad \notin x.used
    BY <1>1, <1>4, PadIsNew
  <2>2. IsFiniteSet(x.used \cup {pad}) /\ Cardinality(x.used \cup {pad}) = Cardinality(x.used) + 1
    BY <2>1, <1>1, FS_AddElement
  <2> QED
    BY <2>2, <1>1, <1>2
<1>8. \A q1 \in y.used : UsedBefore(q1, x.id, x.layer, x.i + 1)
  <2> SUFFICES ASSUME NEW q1 \in y.used PROVE UsedBefore(q1, x.id, x.layer, x.i + 1)
    OBVIOUS
  <2>1. CASE q1 \in x.used
    <3>1. UsedBefore(q1, x.id, x.layer, x.i)
        BY <2>1, <1>1
    <3>2. x.i + 1 \in Nat /\ x.i <= x.i + 1
        BY <1>4
    <3> QED
        BY <3>1, <3>2, <1>1, <1>4, UsedLater DEF Earlier
  <2>2. CASE q1 = pad
    <3>1. x.i < x.i + 1
        BY <1>4
    <3> QED
        BY <3>1, <2>2, <1>1, <1>4 DEF UsedBefore
  <2> QED
    BY <2>1, <2>2, <1>2
<1> HIDE DEF pad
<1>9. CASE ~last
  <2>1. y.busy /\ y.i = x.i + 1 /\ y.layer = x.layer
    BY <1>2, <1>9
  <2>2. y.i \in 0..Width(y.layer)-1
    BY <2>1, <1>4, <1>9
  <2>3. \A m \in 0..y.i-1 : NodeDone(y.node, y.layer, m)
    <3>1. 0..y.i-1 = 0..x.i
        BY <2>1, <1>4
    <3> QED
        BY <3>1, <2>1, <1>6
  <2>4. ASSUME y.layer > 0, NEW m \in 0..Width(y.layer - 1)-1, 2 * y.i <= m
        PROVE  NodeDone(y.node, y.layer - 1, m)
    <3>1. y.layer - 1 \in 0..llength-1
        BY <2>1, <2>4, <1>4
    <3>2. Width(y.layer - 1) \in Nat /\ Width(y.layer - 1) <= k2sn_t \div 2
        BY <3>1, Widths
    <3>3. m \in 0..(k2sn_t \div 2)-1 /\ m # x.i /\ 2 * x.i <= m
        BY <3>2, <2>1, <2>4, <1>4
    <3>4. NodeDone(x.node, y.layer - 1, m)
        BY <3>3, <2>1, <2>4, <1>1 DEF Building
    <3> QED
        BY <3>3, <3>4, <1>1, <1>5 DEF NodeDone
  <2>5. Building(y)
    BY <2>1, <2>2, <2>3, <2>4, <1>4 DEF Building
  <2>6. \A q1 \in y.used : UsedBefore(q1, y.id, y.layer, y.i)
    BY <2>1, <1>2, <1>8
  <2>7. y.id \in Int /\ y.id >= -1 /\ y.id \in Nat /\ y.busy \in BOOLEAN
    BY <2>1, <1>1, <1>2
  <2> HIDE DEF y
  <2> QED
    BY <2>1, <2>5, <2>6, <2>7, <1>2, <1>5, <1>7 DEF LeafAt, y
<1>10. CASE last /\ x.layer # llength - 1
  <2>1. y.busy /\ y.i = 0 /\ y.layer = x.layer + 1 /\ y.layer \in 0..llength-1 /\ y.layer \in Nat
    <3>1. y.busy /\ y.i = 0 /\ y.layer = x.layer + 1
        BY <1>2, <1>10
    <3>2. x.layer + 1 \in 0..llength-1 /\ x.layer + 1 \in Nat
        BY <1>4, <1>10
    <3> QED
        BY <3>1, <3>2
  <2>2. y.i \in 0..Width(y.layer)-1
    BY <2>1, Widths
  <2>3. \A m \in 0..y.i-1 : NodeDone(y.node, y.layer, m)
    BY <2>1
  <2>4. \A m \in 0..Width(y.layer - 1)-1 : NodeDone(y.node, y.layer - 1, m)
    <3>1. y.layer - 1 = x.layer
        BY <2>1, <1>4
    <3> QED
        BY <3>1, <1>6, <1>10
  <2>5. Building(y)
    BY <2>1, <2>2, <2>3, <2>4 DEF Building
  <2>6. \A q1 \in y.used : UsedBefore(q1, y.id, y.layer, y.i)
    <3> SUFFICES ASSUME NEW q1 \in y.used PROVE UsedBefore(q1, y.id, y.layer, y.i)
        OBVIOUS
    <3>1. UsedBefore(q1, x.id, x.layer, x.i + 1) /\ x.i + 1 \in Nat /\ 0 \in Nat
        BY <1>4, <1>8
    <3>2. x.layer < y.layer
        BY <2>1, <1>4
    <3>3. UsedBefore(q1, x.id, y.layer, 0)
        BY <3>1, <3>2, <2>1, <1>1, <1>4, UsedLater DEF Earlier
    <3> QED
        BY <3>3, <2>1, <1>2
  <2>7. y.id \in Int /\ y.id >= -1 /\ y.id \in Nat /\ y.busy \in BOOLEAN
    BY <2>1, <1>1, <1>2
  <2> HIDE DEF y
  <2> QED
    BY <2>1, <2>5, <2>6, <2>7, <1>2, <1>5, <1>7 DEF LeafAt, y
<1>11. CASE last /\ x.layer = llength - 1
  <2>1. ~y.busy /\ y.busy \in BOOLEAN /\ y.id = x.id
    BY <1>2, <1>11
  <2>2. y.node[0] = Seg(0, k2sn_t)
    <3>1. x.i = 0 /\ x.i + 1 = 1
        BY <1>4, <1>11, RootOverAll
    <3>2. First(x.layer, 0) = 0 /\ First(x.layer, 1) = k2sn_t
        BY <1>4, <1>11, RootOverAll, FirstFacts
    <3> QED
        BY <3>1, <3>2, <1>3, <1>5
  <2>3. \A q1 \in y.used : UsedBefore(q1, y.id + 1, 0, 0)
    <3> SUFFICES ASSUME NEW q1 \in y.used PROVE UsedBefore(q1, y.id + 1, 0, 0)
        OBVIOUS
    <3>1. UsedBefore(q1, x.id, x.layer, x.i + 1) /\ x.i + 1 \in Nat /\ 0 \in Nat
        BY <1>4, <1>8
    <3>2. x.id < x.id + 1 /\ x.id + 1 \in Nat
        BY <1>1
    <3>3. UsedBefore(q1, x.id + 1, 0, 0)
        BY <3>1, <3>2, <1>1, <1>4, UsedLater DEF Earlier
    <3> QED
        BY <3>3, <2>1
  <2>4. y.id \in Int /\ y.id >= -1
    BY <2>1, <1>1
  <2> HIDE DEF y
  <2> QED
    BY <2>1, <2>2, <2>3, <2>4, <1>2, <1>5, <1>7 DEF LeafAt, y
<1> QED
    BY <1>9, <1>10, <1>11

\* A new tree.
LEMMA StartBuilds ==
    ASSUME LeafInv, NEW id \in 0..MaxTrees-1, StartTree(id)
    PROVE  LeafAt(lt')
<1> DEFINE x == lt
           y == lt'
<1>0. id \in Nat
    BY OtsAssumption
<1>1. /\ ~x.busy /\ DOMAIN x = LtFields /\ x.id \in Int /\ x.id >= -1 /\ id > x.id
      /\ DOMAIN x.node = 0..(k2sn_t \div 2)-1
      /\ IsFiniteSet(x.used) /\ Cardinality(x.used) = x.done
      /\ \A pad \in x.used : UsedBefore(pad, x.id + 1, 0, 0)
    BY DEF LeafInv, LeafAt, StartTree
<1>2. /\ DOMAIN y = LtFields /\ y.busy = TRUE /\ y.id = id /\ y.layer = 0 /\ y.i = 0
      /\ y.node = x.node /\ y.used = x.used /\ y.done = x.done
    BY <1>1 DEF StartTree, LtFields
<1>3. Building(y)
  <2>1. 0 \in 0..llength-1
    BY LeafSizes
  <2>2. 0 \in 0..Width(0)-1
    BY <2>1, Widths
  <2> QED
    BY <2>1, <2>2, <1>2 DEF Building
<1>4. \A pad \in y.used : UsedBefore(pad, y.id, y.layer, y.i)
  <2> SUFFICES ASSUME NEW pad \in x.used PROVE UsedBefore(pad, id, 0, 0)
    BY <1>2
  <2>1. UsedBefore(pad, x.id + 1, 0, 0) /\ x.id + 1 \in Nat /\ 0 \in Nat
    BY <1>1
  <2>2. x.id + 1 < id \/ x.id + 1 = id
    BY <1>0, <1>1
  <2> QED
    BY <2>1, <2>2, <1>0, UsedLater DEF Earlier
<1>5. y.id \in Nat /\ y.id \in Int /\ y.id >= -1
    BY <1>0, <1>2
<1>6. y.busy \in BOOLEAN /\ y.busy
    BY <1>2
<1>7. DOMAIN y.node = 0..(k2sn_t \div 2)-1 /\ IsFiniteSet(y.used) /\ Cardinality(y.used) = y.done
    BY <1>1, <1>2
<1>8. DOMAIN y = LtFields
    BY <1>2
<1> HIDE DEF y, x
<1>9. LeafAt(y)
    BY <1>3, <1>4, <1>5, <1>6, <1>7, <1>8 DEF LeafAt
<1> QED
    BY <1>9 DEF y


LEMMA OtsNextLeaf == LeafInv /\ [K2snNext]_k2snvars => LeafInv'
<1> SUFFICES ASSUME LeafInv, [K2snNext]_k2snvars PROVE LeafInv'
    OBVIOUS
<1>1. LeafInv' <=> LeafAt(lt')
    BY DEF LeafInv, LeafAt, Building, NodeDone, Seg, First, Border, UsedBefore, PadOf,
           PadIndex, Width, LtFields, Spare
<1>2. CASE HashNode
    BY <1>1, <1>2, HashBuilds
<1>3. CASE \E id \in 0..MaxTrees-1 : StartTree(id)
    BY <1>1, <1>3, StartBuilds
<1>4. CASE UNCHANGED lt
    BY <1>1, <1>4 DEF LeafInv
<1>5. HashNode \/ (\E id \in 0..MaxTrees-1 : StartTree(id)) \/ UNCHANGED lt
    BY DEF K2snNext, k2snvars, otsvars, OtsNext, SignOts, VerifyOts, LeafNext
<1> QED
    BY <1>2, <1>3, <1>4, <1>5

\* For every number of component keys and every height of the tree over them,
\* the hashing in place of create_L_tree() puts every component key once and in
\* order under the root, and no two hashes use the same pad.
THEOREM LeavesCoverKeys == K2snSpec => []LeafCoversKeys
<1>1. K2snInit => LeafInv
  <2> SUFFICES ASSUME lt = NoTree PROVE LeafAt(lt)
    BY DEF K2snInit, OtsInit, LeafInv
  <2>1. IsFiniteSet({}) /\ Cardinality({}) = 0
    BY FS_EmptySet
  <2> QED
    BY <2>1 DEF NoTree, LeafAt, LtFields
<1>2. LeafInv => LeafCoversKeys
  <2> SUFFICES ASSUME LeafInv, ~lt.busy, lt.id >= 0
               PROVE  lt.node[0] = [k \in 1..k2sn_t |-> k - 1] /\ Cardinality(lt.used) = lt.done
    BY DEF LeafCoversKeys
  <2>1. lt.node[0] = Seg(0, k2sn_t) /\ Cardinality(lt.used) = lt.done
    BY DEF LeafInv, LeafAt
  <2>2. Seg(0, k2sn_t) = [k \in 1..k2sn_t |-> k - 1]
    BY SizeAssumption DEF Seg
  <2> QED
    BY <2>1, <2>2
<1> QED
    BY <1>1, <1>2, OtsNextLeaf, PTL DEF K2snSpec


-----------------------------------------------------------------------------
(* SumOver(): sums of the first values of a function *)

\* The sum has a value for each number of terms, and they follow one another.
LEMMA SumNext ==
    ASSUME NEW n \in Nat, NEW f, \A k \in 0..n : f[k] \in Int
    PROVE  /\ SumOver(f, 0) = 0 /\ SumOver(f, n) \in Int
           /\ SumOver(f, n + 1) = SumOver(f, n) + f[n]
<1> DEFINE Rec(s, m) == s = [k \in 0..m |-> IF k = 0 THEN 0 ELSE s[k - 1] + f[k - 1]]
           G == [k \in 1..n+1 |-> [x \in Int |-> x + f[k - 1]]]
<1>1. n + 1 \in Nat /\ 0 \in Int
    OBVIOUS
<1>2. G \in [1..n+1 -> [Int -> Int]]
  <2>1. \A k \in 1..n+1 : f[k - 1] \in Int
    OBVIOUS
  <2>2. \A k \in 1..n+1 : \A x \in Int : x + f[k - 1] \in Int
    BY <2>1
  <2> QED
    BY <2>2
<1>3. \A k \in 1..n+1 : \A x \in Int : G[k][x] = x + f[k - 1]
    OBVIOUS
<1> HIDE DEF G
<1>4. PICK s : Steps(n + 1, Int, 0, G, s)
    BY ONLY <1>1, <1>2, StepsExist
<1>5. s \in [0..n+1 -> Int] /\ s[0] = 0 /\ \A k \in 1..n+1 : s[k] = s[k - 1] + f[k - 1]
  <2>1. s \in [0..n+1 -> Int] /\ s[0] = 0 /\ \A k \in 1..n+1 : s[k] = G[k][s[k - 1]]
    BY <1>4 DEF Steps
  <2>2. ASSUME NEW k \in 1..n+1 PROVE s[k] = s[k - 1] + f[k - 1]
    <3>1. k - 1 \in 0..n+1
        OBVIOUS
    <3>2. s[k - 1] \in Int
        BY <3>1, <2>1
    <3> QED
        BY <3>2, <2>1, <1>3
  <2> QED
    BY <2>1, <2>2
<1>6. ASSUME NEW m \in 0..n+1 PROVE SumOver(f, m) = s[m]
  <2> DEFINE g == [k \in 0..m |-> s[k]]
             u == CHOOSE v : Rec(v, m)
  <2>1. Rec(g, m)
    <3>1. \A k \in 0..m : g[k] = IF k = 0 THEN 0 ELSE g[k - 1] + f[k - 1]
      <4> SUFFICES ASSUME NEW k \in 0..m
                   PROVE  g[k] = IF k = 0 THEN 0 ELSE g[k - 1] + f[k - 1]
          OBVIOUS
      <4>1. CASE k = 0
          BY <4>1, <1>5
      <4>2. CASE k # 0
        <5>1. k \in 1..n+1 /\ k - 1 \in 0..m
            BY <4>2
        <5>2. g[k] = s[k] /\ g[k - 1] = s[k - 1]
            BY <5>1
        <5> HIDE DEF g
        <5> QED
            BY <5>1, <5>2, <4>2, <1>5
      <4> QED
          BY <4>1, <4>2
    <3>2. g = [k \in 0..m |-> g[k]]
        OBVIOUS
    <3> HIDE DEF g
    <3> QED
        BY <3>1, <3>2
  <2>2. Rec(u, m)
    <3> HIDE DEF Rec, g
    <3> QED
        BY <2>1
  <2>3. SumOver(f, m) = u[m]
    BY DEF SumOver
  <2> HIDE DEF u
  <2>4. \A k \in 0..m : u[k] = IF k = 0 THEN 0 ELSE u[k - 1] + f[k - 1]
    BY <2>2
  <2> DEFINE P == {k \in 0..m : u[k] = s[k]}
  <2>5. m \in Nat
    OBVIOUS
  <2>6. 0 \in P
    <3>1. 0 \in 0..m
        BY <2>5
    <3> QED
        BY <3>1, <2>4, <1>5
  <2>7. ASSUME NEW k \in 1..m, k - 1 \in P PROVE k \in P
    <3>1. k \in 0..m /\ k # 0 /\ k \in 1..n+1
        OBVIOUS
    <3>2. u[k] = u[k - 1] + f[k - 1]
        BY <3>1, <2>4
    <3> QED
        BY <3>1, <3>2, <2>7, <1>5
  <2> HIDE DEF P
  <2>8. \A k \in 0..m : k \in P
    BY ONLY <2>5, <2>6, <2>7, UpTo
  <2>9. u[m] = s[m]
    BY <2>5, <2>8 DEF P
  <2> QED
    BY <2>3, <2>9
<1>7. 0 \in 0..n+1 /\ n \in 0..n+1 /\ n + 1 \in 0..n+1 /\ n + 1 \in 1..n+1
    OBVIOUS
<1>8. s[n] \in Int
    BY <1>5, <1>7
<1>9. s[n + 1] = s[n] + f[n]
  <2>1. s[n + 1] = s[(n + 1) - 1] + f[(n + 1) - 1] /\ (n + 1) - 1 = n
    BY <1>5, <1>7
  <2> QED
    BY <2>1
<1> QED
    BY <1>5, <1>6, <1>7, <1>8, <1>9

\* What the sum of each number of terms is, one after the other.
LEMMA SumRuns ==
    ASSUME NEW n \in Nat, NEW f, \A k \in 0..n-1 : f[k] \in Int
    PROVE  /\ SumOver(f, 0) = 0
           /\ \A m \in 0..n : SumOver(f, m) \in Int
           /\ \A m \in 1..n : SumOver(f, m) = SumOver(f, m - 1) + f[m - 1]
<1>1. ASSUME NEW m \in 1..n
      PROVE  /\ SumOver(f, 0) = 0 /\ SumOver(f, m - 1) \in Int
             /\ SumOver(f, m) = SumOver(f, m - 1) + f[m - 1] /\ SumOver(f, m) \in Int
  <2> DEFINE k == m - 1
  <2>1. k \in Nat /\ k + 1 = m /\ \A h \in 0..k : f[h] \in Int
    OBVIOUS
  <2> HIDE DEF k
  <2>2. /\ SumOver(f, 0) = 0 /\ SumOver(f, k) \in Int
        /\ SumOver(f, k + 1) = SumOver(f, k) + f[k]
    BY ONLY <2>1, SumNext
  <2>3. f[k] \in Int
    BY <2>1
  <2> QED
    BY <2>1, <2>2, <2>3 DEF k
<1>2. SumOver(f, 0) = 0
  <2>1. SumOver(f, 0) = (CHOOSE v : v = [k \in 0..0 |-> IF k = 0 THEN 0 ELSE v[k - 1] + f[k - 1]])[0]
    BY DEF SumOver
  <2> DEFINE Rec(v) == v = [k \in 0..0 |-> IF k = 0 THEN 0 ELSE v[k - 1] + f[k - 1]]
             g == [k \in 0..0 |-> 0]
             u == CHOOSE v : Rec(v)
  <2>2. Rec(g)
    OBVIOUS
  <2>3. Rec(u)
    <3> HIDE DEF Rec, g
    <3> QED
        BY <2>2
  <2>4. SumOver(f, 0) = u[0]
    BY <2>1
  <2> HIDE DEF u
  <2>5. u[0] = 0
    BY <2>3
  <2> QED
    BY <2>4, <2>5
<1>3. ASSUME NEW m \in 0..n PROVE SumOver(f, m) \in Int
  <2>1. CASE m = 0
    BY <2>1, <1>2
  <2>2. CASE m # 0
    BY <2>2, <1>1
  <2> QED
    BY <2>1, <2>2
<1> QED
    BY <1>1, <1>2, <1>3

LEMMA SumOfZeros ==
    ASSUME NEW n \in Nat, NEW f, \A k \in 0..n-1 : f[k] = 0
    PROVE  SumOver(f, n) = 0
<1> DEFINE P == {m \in 0..n : SumOver(f, m) = 0}
<1>1. SumOver(f, 0) = 0 /\ \A m \in 1..n : SumOver(f, m) = SumOver(f, m - 1) + f[m - 1]
  <2>1. \A k \in 0..n-1 : f[k] \in Int
    OBVIOUS
  <2> QED
    BY <2>1, SumRuns
<1>2. 0 \in P
    BY <1>1
<1>3. ASSUME NEW m \in 1..n, m - 1 \in P PROVE m \in P
  <2>1. SumOver(f, m - 1) = 0 /\ f[m - 1] = 0 /\ m \in 0..n
    BY <1>3
  <2> QED
    BY <2>1, <1>1
<1> HIDE DEF P
<1>4. \A m \in 0..n : m \in P
    BY ONLY <1>2, <1>3, UpTo, n \in Nat
<1> QED
    BY <1>4, n \in 0..n DEF P

LEMMA SumOfSums ==
    ASSUME NEW n \in Nat, NEW f, NEW g, NEW h,
           \A k \in 0..n-1 : f[k] \in Int /\ g[k] \in Int /\ h[k] = f[k] + g[k]
    PROVE  SumOver(h, n) = SumOver(f, n) + SumOver(g, n)
<1> DEFINE P == {m \in 0..n : SumOver(h, m) = SumOver(f, m) + SumOver(g, m)}
<1>1. \A k \in 0..n-1 : h[k] \in Int /\ f[k] \in Int /\ g[k] \in Int
    OBVIOUS
<1>2. /\ SumOver(f, 0) = 0 /\ \A m \in 0..n : SumOver(f, m) \in Int
      /\ \A m \in 1..n : SumOver(f, m) = SumOver(f, m - 1) + f[m - 1]
    BY <1>1, SumRuns
<1>3. /\ SumOver(g, 0) = 0 /\ \A m \in 0..n : SumOver(g, m) \in Int
      /\ \A m \in 1..n : SumOver(g, m) = SumOver(g, m - 1) + g[m - 1]
    BY <1>1, SumRuns
<1>4. /\ SumOver(h, 0) = 0 /\ \A m \in 0..n : SumOver(h, m) \in Int
      /\ \A m \in 1..n : SumOver(h, m) = SumOver(h, m - 1) + h[m - 1]
    BY <1>1, SumRuns
<1>5. 0 \in P
    BY <1>2, <1>3, <1>4
<1>6. ASSUME NEW m \in 1..n, m - 1 \in P PROVE m \in P
  <2>1. SumOver(h, m - 1) = SumOver(f, m - 1) + SumOver(g, m - 1) /\ m \in 0..n
    BY <1>6
  <2>2. m - 1 \in 0..n /\ m - 1 \in 0..n-1
    OBVIOUS
  <2>3. h[m - 1] = f[m - 1] + g[m - 1] /\ f[m - 1] \in Int /\ g[m - 1] \in Int
    BY <2>2
  <2>4. SumOver(f, m - 1) \in Int /\ SumOver(g, m - 1) \in Int
    BY <2>2, <1>2, <1>3
  <2>5. SumOver(h, m) = SumOver(f, m) + SumOver(g, m)
    BY <2>1, <2>3, <2>4, <1>2, <1>3, <1>4
  <2> QED
    BY <2>1, <2>5
<1> HIDE DEF P
<1>7. \A m \in 0..n : m \in P
    BY ONLY <1>5, <1>6, UpTo, n \in Nat
<1> QED
    BY <1>7, n \in 0..n DEF P

LEMMA SumOfEquals ==
    ASSUME NEW n \in Nat, NEW f, NEW g, \A k \in 0..n-1 : f[k] \in Int /\ g[k] = f[k]
    PROVE  SumOver(g, n) = SumOver(f, n)
<1> DEFINE z == [k \in 0..n-1 |-> 0]
<1>1. \A k \in 0..n-1 : f[k] \in Int /\ z[k] \in Int /\ g[k] = f[k] + z[k]
    OBVIOUS
<1>2. \A k \in 0..n-1 : z[k] = 0
    OBVIOUS
<1> HIDE DEF z
<1>3. SumOver(g, n) = SumOver(f, n) + SumOver(z, n)
    BY ONLY <1>1, SumOfSums, n \in Nat
<1>4. SumOver(z, n) = 0
    BY ONLY <1>2, SumOfZeros, n \in Nat
<1>5. SumOver(f, n) \in Int
    BY <1>1, SumRuns, n \in 0..n
<1> QED
    BY <1>3, <1>4, <1>5


-----------------------------------------------------------------------------
(* unpackY() and convert_ring() *)

LEMMA ByteFacts ==
    /\ ByteBits \in Nat \ {0} /\ Byte \in Nat /\ Byte > 1 /\ p \in Nat \ {0} /\ p = Byte + 1
    /\ Byte = Pow2[ByteBits]
<1>1. ByteBits \in Nat \ {0}
    BY OtsAssumption
<1>2. Pow2[ByteBits] \in Nat /\ 2 * Pow2[0] <= Pow2[ByteBits] /\ Pow2[0] = 1
    BY <1>1, Pow2Facts, Pow2Grows
<1> QED
    BY <1>1, <1>2 DEF Byte, p

LEMMA DivModIs ==
    ASSUME NEW w \in Nat \ {0}, NEW n \in Nat
    PROVE  /\ n \div w \in Nat /\ n % w \in 0..w-1
           /\ n = (w * (n \div w)) + (n % w)
OBVIOUS

\* The part of element e that is in byte e, and the part in the next one.
LEMMA PackedInto ==
    ASSUME NEW y, \A e \in Elems : y[e] \in 0..p-1, NEW e \in Elems
    PROVE  LET r == unpackY(y)
           IN  /\ r[e] \div Pow2[e] = y[e] % Pow2[ByteBits - e]
               /\ r[e + 1] % Pow2[e + 1] = y[e] \div Pow2[ByteBits - e]
<1> DEFINE u == Pow2[e]
           v == Pow2[ByteBits - e]
           w == Pow2[e + 1]
           n == y[e]
           r == unpackY(y)
           q1 == n % v
           q2 == n \div v
<1>0. /\ ByteBits \in Nat /\ e \in Nat /\ e < ByteBits /\ e \in 0..ByteBits /\ e + 1 \in 0..ByteBits
      /\ e # ByteBits /\ e + 1 # 0
  <2>1. ByteBits \in Nat
    BY ByteFacts
  <2> QED
    BY <2>1 DEF Elems
<1>1. /\ u \in Nat \ {0} /\ v \in Nat \ {0} /\ w \in Nat \ {0} /\ w = 2 * u /\ Byte = u * v
  <2>1. ByteBits - e \in Nat /\ e + (ByteBits - e) = ByteBits
    BY <1>0
  <2>2. Pow2[ByteBits] = u * v
    BY <2>1, <1>0, Pow2Add
  <2> QED
    BY <2>1, <2>2, <1>0, Pow2Facts, ByteFacts
<1>2. n \in Nat /\ n <= Byte
  <2>1. n \in 0..p-1
    OBVIOUS
  <2> QED
    BY <2>1, ByteFacts
<1>3. \A k \in 0..ByteBits :
          r[k] = (IF k = 0 THEN 0 ELSE ((y[k - 1] \div Pow2[ByteBits - k + 1]) % Pow2[k]))
                 + (IF k = ByteBits THEN 0 ELSE (y[k] % Pow2[ByteBits - k]) * Pow2[k])
    BY DEF unpackY
<1>4. \A k \in 1..ByteBits : (y[k - 1] \div Pow2[ByteBits - k + 1]) % Pow2[k] \in 0..Pow2[k]-1
  <2> SUFFICES ASSUME NEW k \in 1..ByteBits
               PROVE  (y[k - 1] \div Pow2[ByteBits - k + 1]) % Pow2[k] \in 0..Pow2[k]-1
    OBVIOUS
  <2> DEFINE a == Pow2[ByteBits - k + 1]
             b == Pow2[k]
             c == y[k - 1]
             d == c \div a
  <2>1. k - 1 \in Elems /\ ByteBits - k + 1 \in Nat /\ k \in Nat
    BY <1>0 DEF Elems
  <2>2. a \in Nat \ {0} /\ b \in Nat \ {0}
    BY <2>1, Pow2Facts
  <2>3. c \in Nat
    <3>1. c \in 0..p-1
        BY <2>1
    <3> QED
        BY <3>1, ByteFacts
  <2> HIDE DEF a, b, c
  <2>4. d \in Nat
    BY <2>2, <2>3
  <2> HIDE DEF d
  <2>5. d % b \in 0..b-1
    BY <2>2, <2>4
  <2> QED
    BY <2>5 DEF a, b, c, d
<1>5. q1 \in 0..v-1 /\ q2 \in Nat /\ n = v * q2 + q1
  <2> HIDE DEF n, v
  <2> QED
    BY <1>1, <1>2, DivModIs
<1>6. q2 <= u
  <2> HIDE DEF n, u, v, q1, q2
  <2> SUFFICES ASSUME q2 > u PROVE FALSE
    BY <1>1, <1>5
  <2> DEFINE d == q2 - u - 1
  <2>1. d \in Nat /\ q2 = d + u + 1
    BY <1>1, <1>5
  <2> HIDE DEF d
  <2>2. v * q2 = v * d + u * v + v /\ v * d \in Nat /\ u * v \in Nat
    BY <2>1, <1>1
  <2> QED
    BY <2>2, <1>1, <1>2, <1>5
<1>7. r[e] \div u = q1
  <2> DEFINE a == IF e = 0 THEN 0 ELSE (y[e - 1] \div Pow2[ByteBits - e + 1]) % Pow2[e]
             z == r[e]
  <2>1. z = a + q1 * u
    BY <1>0, <1>3
  <2>2. a \in 0..u-1
    <3>1. CASE e = 0
        BY <3>1, <1>1
    <3>2. CASE e # 0
      <4>1. e \in 1..ByteBits
          BY <3>2, <1>0
      <4> QED
          BY <4>1, <3>2, <1>4
    <3> QED
        BY <3>1, <3>2
  <2> HIDE DEF a, z, u, q1
  <2>3. z = u * q1 + a /\ z \in Int /\ q1 \in Int
    BY <2>1, <2>2, <1>1, <1>5
  <2>4. z \div u = q1
    BY ONLY <2>2, <2>3, <1>1, Quotient
  <2> QED
    BY <2>4 DEF z, u
<1>8. r[e + 1] % w = q2
  <2> DEFINE b == IF e + 1 = ByteBits THEN 0 ELSE (y[e + 1] % Pow2[ByteBits - (e + 1)])
             z == r[e + 1]
  <2>1. z = (q2 % w) + b * w
    <3>1. e + 1 - 1 = e /\ ByteBits - (e + 1) + 1 = ByteBits - e
        BY <1>0
    <3>2. r[e + 1] = ((y[e] \div Pow2[ByteBits - e]) % Pow2[e + 1])
                     + (IF e + 1 = ByteBits THEN 0
                        ELSE (y[e + 1] % Pow2[ByteBits - (e + 1)]) * Pow2[e + 1])
        BY <3>1, <1>0, <1>3
    <3>3. 0 * w = 0
        BY <1>1
    <3>4. (IF e + 1 = ByteBits THEN 0 ELSE (y[e + 1] % Pow2[ByteBits - (e + 1)]) * w) = b * w
        BY <3>3
    <3> QED
        BY <3>2, <3>4
  <2>2. b \in Nat
    <3>1. CASE e + 1 = ByteBits
        BY <3>1
    <3>2. CASE e + 1 # ByteBits
      <4> DEFINE c == Pow2[ByteBits - (e + 1)]
                 d == y[e + 1]
      <4>1. e + 1 \in Elems /\ ByteBits - (e + 1) \in Nat
          BY <3>2, <1>0 DEF Elems
      <4>2. c \in Nat \ {0}
          BY <4>1, Pow2Facts
      <4>3. d \in Nat
        <5>1. d \in 0..p-1
            BY <4>1
        <5> QED
            BY <5>1, ByteFacts
      <4>4. b = d % c
          BY <3>2
      <4> HIDE DEF b, c, d
      <4> QED
          BY <4>2, <4>3, <4>4
    <3> QED
        BY <3>1, <3>2
  <2> HIDE DEF b, z, w, q2, u
  <2>3. q2 \in 0..w-1
    BY <1>1, <1>5, <1>6
  <2>4. q2 % w = q2
    <3>1. q2 = w * 0 + q2 /\ 0 \in Int /\ q2 \in Int
        BY <2>3, <1>1
    <3> QED
        BY ONLY <3>1, <2>3, <1>1, DivMod
  <2>5. z = w * b + q2 /\ z \in Int /\ b \in Int
    BY <2>1, <2>2, <2>3, <2>4, <1>1
  <2>6. z % w = q2
    BY ONLY <2>3, <2>5, <1>1, DivMod
  <2> QED
    BY <2>6 DEF z, w
<1> QED
    BY <1>7, <1>8

\* Packing the elements in bytes and taking them out again gives them back.
LEMMA PackingBack ==
    ASSUME NEW y, DOMAIN y = Elems, y = [e \in Elems |-> y[e]],
           \A e \in Elems : y[e] \in 0..p-1
    PROVE  convert_ring(unpackY(y)) = y
<1> DEFINE r == unpackY(y)
<1>1. ASSUME NEW e \in Elems
      PROVE  r[e] \div Pow2[e] + (r[e + 1] % Pow2[e + 1]) * Pow2[ByteBits - e] = y[e]
  <2> DEFINE v == Pow2[ByteBits - e]
             n == y[e]
             q1 == n % v
             q2 == n \div v
  <2>1. r[e] \div Pow2[e] = q1 /\ r[e + 1] % Pow2[e + 1] = q2
    BY PackedInto
  <2>2. v \in Nat \ {0} /\ n \in Nat
    <3>1. n \in 0..p-1 /\ ByteBits - e \in Nat
        BY ByteFacts DEF Elems
    <3> QED
        BY <3>1, ByteFacts, Pow2Facts
  <2>3. q1 \in 0..v-1 /\ q2 \in Nat /\ n = v * q2 + q1
    <3> HIDE DEF n, v
    <3> QED
        BY <2>2, DivModIs
  <2> HIDE DEF r, v, q1, q2
  <2>4. q1 + q2 * v = n
    BY <2>2, <2>3
  <2> QED
    BY <2>1, <2>4 DEF v
<1>2. convert_ring(r) = [e \in Elems |-> y[e]]
    BY <1>1 DEF convert_ring
<1> QED
    BY <1>2


-----------------------------------------------------------------------------
(* The sums of component keys *)

\* A secret key is bits, and the coefficients of the map are numbers.
LEMMA StreamBit ==
    ASSUME NEW s \in Nat, NEW in, in[1] \in Int, in[2] \in Int, NEW b \in Int
    PROVE  KeyStream(s, in, b) \in {0, 1}
<1>1. CASE s < 2
    BY <1>1 DEF KeyStream
<1>2. CASE ~(s < 2)
  <2> DEFINE z == (in[1] + Byte * in[2] + s) * (b + s)
             h == z \div 2
  <2>1. KeyStream(s, in, b) = h % 2
    BY <1>2 DEF KeyStream
  <2>2. z \in Int
    <3> DEFINE c == Byte * in[2]
               d == in[1] + c + s
               f == b + s
    <3>1. c \in Int
        BY ByteFacts
    <3> HIDE DEF c
    <3>2. d \in Int /\ f \in Int
        BY <3>1
    <3>3. z = d * f
        BY DEF c
    <3> HIDE DEF d, f, z
    <3> QED
        BY <3>2, <3>3
  <2> HIDE DEF z
  <2>3. h \in Int
    BY <2>2
  <2> HIDE DEF h
  <2>4. h % 2 \in {0, 1}
    BY <2>3
  <2> QED
    BY <2>1, <2>4
<1> QED
    BY <1>1, <1>2

LEMMA KeyBits ==
    ASSUME NEW s \in Streams, NEW k \in Keys, NEW b \in Bits
    PROVE  generate_secret_key_OTS(s)[k][b] \in {0, 1}
<1>1. s \in Nat /\ b \in Int /\ k \in Int
    BY OtsAssumption DEF Keys, Bits
<1> DEFINE in == component_id(k)
<1>2. in[1] \in Int /\ in[2] \in Int
    BY <1>1, ByteFacts DEF component_id
<1> HIDE DEF in
<1>3. KeyStream(s, in, b) \in {0, 1}
    BY <1>1, <1>2, StreamBit
<1> QED
    BY <1>3 DEF generate_secret_key_OTS, in

LEMMA Coefficients ==
    ASSUME NEW a \in Streams, NEW e \in Elems, NEW b \in Bits
    PROVE  set_Key(a)[e][b] \in Nat
<1>1. a \in Int /\ e \in Int /\ b \in Int
    BY OtsAssumption DEF Elems, Bits
<1> DEFINE c == a * a
           d == 3 * e * b
           z == c + d + b + e
<1>2. c \in Int
    BY <1>1
<1>3. d \in Int
    BY <1>1
<1>4. set_Key(a)[e][b] = z % Byte
    BY DEF set_Key
<1> HIDE DEF c, d
<1>5. z \in Int
    BY <1>1, <1>2, <1>3
<1> HIDE DEF z
<1>6. z % Byte \in Nat
    BY <1>5, ByteFacts
<1> QED
    BY <1>4, <1>6

\* What is added up for one element.
Terms(A, x, e) == [b \in Bits |-> A[e][b] * x[b]]

LEMMA TermSums ==
    ASSUME NEW A, NEW x, NEW e \in Elems,
           \A b \in Bits : A[e][b] \in Nat /\ x[b] \in Int
    PROVE  /\ SumOver(Terms(A, x, e), SkBits) \in Int
           /\ gSWIFFT(A, x)[e] = SumOver(Terms(A, x, e), SkBits) % p
           /\ gSWIFFT(A, x)[e] \in 0..p-1
<1> DEFINE f == Terms(A, x, e)
           z == SumOver(f, SkBits)
<1>1. SkBits \in Nat
    BY OtsAssumption
<1>2. ASSUME NEW b \in 0..SkBits-1 PROVE f[b] \in Int
  <2>1. b \in Bits
    BY DEF Bits
  <2> DEFINE c == A[e][b]
             d == x[b]
  <2>2. c \in Nat /\ d \in Int /\ f[b] = c * d
    BY <2>1 DEF Terms
  <2> HIDE DEF c, d, f
  <2> QED
    BY <2>2
<1> HIDE DEF f
<1>3. z \in Int
    BY <1>1, <1>2, SumRuns, SkBits \in 0..SkBits
<1>4. gSWIFFT(A, x)[e] = z % p
    BY DEF gSWIFFT, Terms, f
<1> HIDE DEF z
<1>5. z % p \in 0..p-1
    BY <1>3, ByteFacts
<1> QED
    BY <1>3, <1>4, <1>5 DEF z, f

\* No sum of secret keys leaves its byte.
Members(S, f) == [k \in Keys |-> IF k \in S THEN f[k] ELSE 0]

LEMMA SumFits ==
    ASSUME NEW S \in KeySets, NEW f, \A k \in Keys : f[k] \in {0, 1}
    PROVE  SumOver(Members(S, f), k2sn_t) \in 0..tb2
<1> DEFINE g == Members(S, f)
           n == k2sn_t
           T(m) == S \cap (0..m-1)
           P == {m \in 0..n : SumOver(g, m) \in 0..Cardinality(T(m))}
<1>1. n \in Nat /\ tb2 \in Nat
    BY SizeAssumption
<1>2. \A k \in 0..n-1 : g[k] \in {0, 1} /\ g[k] \in Int /\ (k \notin S => g[k] = 0)
    BY DEF Members, Keys
<1>3. /\ SumOver(g, 0) = 0 /\ \A m \in 1..n : SumOver(g, m) = SumOver(g, m - 1) + g[m - 1]
  <2> HIDE DEF g
  <2> QED
    BY <1>1, <1>2, SumRuns
<1>4. \A m \in Nat : IsFiniteSet(T(m)) /\ Cardinality(T(m)) \in Nat
  <2> SUFFICES ASSUME NEW m \in Nat PROVE IsFiniteSet(T(m)) /\ Cardinality(T(m)) \in Nat
    OBVIOUS
  <2>1. IsFiniteSet(0..m-1)
    BY FS_Interval
  <2>2. IsFiniteSet(T(m))
    BY <2>1, FS_Subset
  <2> QED
    BY <2>2, FS_CardinalityType
<1> HIDE DEF g
<1>5. 0 \in P
  <2>1. 0 \in Nat /\ 0 \in 0..n
    BY <1>1
  <2>2. Cardinality(T(0)) \in Nat
    BY <2>1, <1>4
  <2> HIDE DEF T
  <2>3. SumOver(g, 0) \in 0..Cardinality(T(0))
    BY <2>2, <1>3
  <2> QED
    BY <2>1, <2>3
<1>6. ASSUME NEW m \in 1..n, m - 1 \in P PROVE m \in P
  <2> DEFINE k == m - 1
             c == Cardinality(T(k))
             d == Cardinality(T(m))
  <2>1. /\ k \in Nat /\ m \in Nat /\ k \in 0..n-1 /\ m \in 0..n
        /\ SumOver(g, k) \in 0..c /\ c \in Nat /\ d \in Nat /\ IsFiniteSet(T(k))
    <3>1. k \in Nat /\ m \in Nat /\ k \in 0..n-1 /\ m \in 0..n
        BY <1>1
    <3>2. c \in Nat /\ d \in Nat /\ IsFiniteSet(T(k))
        BY <3>1, <1>4
    <3>3. SumOver(g, k) \in 0..c
        BY <1>6
    <3> QED
        BY <3>1, <3>2, <3>3
  <2>2. SumOver(g, m) = SumOver(g, k) + g[k]
    BY <1>3
  <2>3. CASE k \in S
    <3>1. T(m) = T(k) \cup {k} /\ k \notin T(k)
        BY <2>1, <2>3
    <3>2. d = c + 1
        BY <3>1, <2>1, FS_AddElement
    <3>3. g[k] \in {0, 1}
        BY <2>1, <1>2
    <3> HIDE DEF T, k, c, d
    <3> QED
        BY <3>2, <3>3, <2>1, <2>2 DEF d
  <2>4. CASE k \notin S
    <3>1. T(m) = T(k)
        BY <2>1, <2>4
    <3>2. g[k] = 0
        BY <2>1, <2>4, <1>2
    <3>3. d = c
        BY <3>1
    <3> HIDE DEF T, k, c, d
    <3> QED
        BY <3>2, <3>3, <2>1, <2>2 DEF d
  <2> QED
    BY <2>3, <2>4
<1> HIDE DEF P
<1>7. \A m \in 0..n : m \in P
    BY ONLY <1>1, <1>5, <1>6, UpTo
<1>8. T(n) = S /\ Cardinality(S) = tb2
    BY DEF KeySets
<1>9. SumOver(g, n) \in 0..Cardinality(T(n))
    BY <1>1, <1>7, n \in 0..n DEF P
<1> QED
    BY <1>8, <1>9 DEF g


\* Congruence modulo p.
Cong(a, b) == \E z \in Int : a = b + z * p

LEMMA DivModInt ==
    ASSUME NEW w \in Nat \ {0}, NEW n \in Int
    PROVE  /\ n \div w \in Int /\ n % w \in 0..w-1
           /\ n = (w * (n \div w)) + (n % w)
OBVIOUS

LEMMA CongMod ==
    ASSUME NEW a \in Int
    PROVE  Cong(a, a % p)
<1> DEFINE z == a \div p
           e == a % p
<1>1. p \in Nat \ {0}
    BY ByteFacts
<1>2. z \in Int /\ e \in 0..p-1 /\ a = p * z + e
    BY ONLY <1>1, a \in Int, DivModInt
<1> HIDE DEF z, e
<1>3. e \in Int
    BY <1>1, <1>2
<1>4. z * p = p * z /\ p * z \in Int
    BY <1>1, <1>2
<1>5. a = e + z * p
    BY <1>2, <1>3, <1>4
<1> QED
    BY <1>2, <1>5 DEF Cong, e

LEMMA CongAdds ==
    ASSUME NEW a \in Int, NEW b \in Int, NEW c \in Int, NEW d \in Int, Cong(a, b), Cong(c, d)
    PROVE  Cong(a + c, b + d)
<1>1. PICK x \in Int : a = b + x * p
    BY DEF Cong
<1>2. PICK y \in Int : c = d + y * p
    BY DEF Cong
<1>3. x + y \in Int /\ (x + y) * p = x * p + y * p /\ x * p \in Int /\ y * p \in Int
    BY ByteFacts
<1>4. a + c = (b + d) + (x + y) * p
    BY <1>1, <1>2, <1>3
<1> QED
    BY <1>3, <1>4 DEF Cong

LEMMA CongSame ==
    ASSUME NEW a \in Int, NEW b \in Int, Cong(a, b)
    PROVE  a % p = b % p
<1>1. PICK z \in Int : a = b + z * p
    BY DEF Cong
<1> DEFINE y == b \div p
           e == b % p
<1>2. y \in Int /\ e \in 0..p-1 /\ b = p * y + e
  <2>1. p \in Nat \ {0}
    BY ByteFacts
  <2> QED
    BY ONLY <2>1, b \in Int, DivModInt
<1> HIDE DEF y, e
<1>3. a = p * (y + z) + e /\ y + z \in Int
    BY <1>1, <1>2, ByteFacts
<1>4. p \in Nat \ {0}
    BY ByteFacts
<1> DEFINE h == y + z
<1>5. a = p * h + e /\ h \in Int
    BY <1>3
<1> HIDE DEF h
<1>6. a % p = e
    BY ONLY <1>2, <1>4, <1>5, DivMod, a \in Int
<1> QED
    BY <1>6 DEF e

\* The sums of the first m keys of S.
Column(sk, b) == [k \in Keys |-> sk[k][b]]
PartSums(S, sk, m) == [b \in Bits |-> SumOver(Members(S, Column(sk, b)), m)]

\* The map is linear: what it makes of the sum of keys is, modulo p, the sum of
\* what it makes of them.
LEMMA SumOfMapped ==
    ASSUME NEW e \in Elems, NEW A, \A b \in Bits : A[e][b] \in Nat,
           NEW sk, \A k \in Keys : \A b \in Bits : sk[k][b] \in {0, 1},
           NEW S, NEW conv, \A k \in Keys : conv[k] = gSWIFFT(A, sk[k])[e]
    PROVE  LET x == SumOver(Terms(A, PartSums(S, sk, k2sn_t), e), SkBits)
               y == SumOver(Members(S, conv), k2sn_t)
           IN  x \in Int /\ y \in Int /\ Cong(x, y)
<1> DEFINE n == k2sn_t
           X(m) == Terms(A, PartSums(S, sk, m), e)
           L(m) == SumOver(X(m), SkBits)
           g == Members(S, conv)
           R(m) == SumOver(g, m)
           P == {m \in 0..n : Cong(L(m), R(m))}
<1>1. n \in Nat /\ SkBits \in Nat /\ Keys = 0..n-1 /\ Bits = 0..SkBits-1
    BY SizeAssumption, OtsAssumption DEF Keys, Bits
<1>2. ASSUME NEW k \in Keys
      PROVE  /\ SumOver(Terms(A, sk[k], e), SkBits) \in Int
             /\ conv[k] = SumOver(Terms(A, sk[k], e), SkBits) % p /\ conv[k] \in Int
  <2> DEFINE x == sk[k]
  <2>1. \A b \in Bits : A[e][b] \in Nat /\ x[b] \in Int
    OBVIOUS
  <2>2. conv[k] = gSWIFFT(A, x)[e]
    OBVIOUS
  <2> HIDE DEF x
  <2>3. /\ SumOver(Terms(A, x, e), SkBits) \in Int
        /\ gSWIFFT(A, x)[e] = SumOver(Terms(A, x, e), SkBits) % p
        /\ gSWIFFT(A, x)[e] \in 0..p-1
    BY <2>1, TermSums
  <2>4. gSWIFFT(A, x)[e] \in Int
    BY <2>3, ByteFacts
  <2> QED
    BY <2>2, <2>3, <2>4 DEF x
<1>3. \A k \in 0..n-1 : g[k] \in Int /\ g[k] = IF k \in S THEN conv[k] ELSE 0
    BY <1>1, <1>2 DEF Members
<1>4. /\ R(0) = 0 /\ \A m \in 0..n : R(m) \in Int
      /\ \A m \in 1..n : R(m) = R(m - 1) + g[m - 1]
  <2> HIDE DEF g
  <2>1. \A k \in 0..n-1 : g[k] \in Int
    BY <1>3
  <2> QED
    BY <2>1, <1>1, SumRuns
<1> HIDE DEF g
<1>5. ASSUME NEW b \in Bits
      PROVE  LET f == Members(S, Column(sk, b))
             IN  /\ SumOver(f, 0) = 0 /\ \A m \in 0..n : SumOver(f, m) \in Int
                 /\ \A m \in 1..n : SumOver(f, m) = SumOver(f, m - 1)
                                        + IF m - 1 \in S THEN sk[m - 1][b] ELSE 0
  <2> DEFINE f == Members(S, Column(sk, b))
  <2>1. \A k \in 0..n-1 : f[k] \in Int /\ f[k] = IF k \in S THEN sk[k][b] ELSE 0
    BY <1>1 DEF Members, Column
  <2> HIDE DEF f
  <2>2. \A k \in 0..n-1 : f[k] \in Int
    BY <2>1
  <2>3. /\ SumOver(f, 0) = 0 /\ \A m \in 0..n : SumOver(f, m) \in Int
        /\ \A m \in 1..n : SumOver(f, m) = SumOver(f, m - 1) + f[m - 1]
    BY <2>2, <1>1, SumRuns
  <2>4. \A m \in 1..n : f[m - 1] = IF m - 1 \in S THEN sk[m - 1][b] ELSE 0
    BY <2>1, <1>1
  <2> QED
    BY <2>3, <2>4 DEF f
<1>6. ASSUME NEW m \in 0..n, NEW b \in Bits
      PROVE  X(m)[b] = A[e][b] * PartSums(S, sk, m)[b] /\ PartSums(S, sk, m)[b] \in Int
    BY <1>5 DEF PartSums, Terms
<1>7. ASSUME NEW m \in 0..n PROVE (\A b \in 0..SkBits-1 : X(m)[b] \in Int) /\ L(m) \in Int
  <2>1. \A b \in Bits : A[e][b] \in Nat /\ PartSums(S, sk, m)[b] \in Int
    BY <1>6
  <2>2. L(m) \in Int
    BY <2>1, TermSums
  <2>3. ASSUME NEW b \in Bits PROVE X(m)[b] \in Int
    <3> DEFINE c == A[e][b]
               d == PartSums(S, sk, m)[b]
    <3>1. c \in Nat /\ d \in Int /\ X(m)[b] = c * d
        BY <2>1, <1>6
    <3> HIDE DEF c, d, X
    <3> QED
        BY <3>1
  <2> QED
    BY <2>2, <2>3, <1>1
<1>8. L(0) = 0
  <2>1. ASSUME NEW b \in Bits PROVE X(0)[b] = 0
    <3> DEFINE c == A[e][b]
               d == PartSums(S, sk, 0)[b]
    <3>1. d = 0
        BY <1>5 DEF PartSums
    <3>2. c \in Nat /\ X(0)[b] = c * d
        BY <1>1, <1>6, 0 \in 0..n
    <3> HIDE DEF c, d, X
    <3> QED
        BY <3>1, <3>2
  <2> HIDE DEF X
  <2> QED
    BY <2>1, <1>1, SumOfZeros
<1>9. ASSUME NEW m \in 1..n
      PROVE  L(m) = L(m - 1) + IF m - 1 \in S THEN SumOver(Terms(A, sk[m - 1], e), SkBits) ELSE 0
  <2> DEFINE k == m - 1
             t == Terms(A, sk[k], e)
             x == X(k)
             y == X(m)
  <2>1. k \in 0..n /\ m \in 0..n /\ k \in Keys /\ k \in Nat
    BY <1>1
  <2>2. ASSUME NEW b \in Bits
        PROVE  /\ t[b] \in Int /\ x[b] \in Int
               /\ y[b] = x[b] + IF k \in S THEN t[b] ELSE 0
    <3> DEFINE c == A[e][b]
               d == PartSums(S, sk, k)[b]
               f == PartSums(S, sk, m)[b]
               h == sk[k][b]
    <3>1. c \in Nat /\ h \in {0, 1} /\ t[b] = c * h
        BY <2>1 DEF Terms
    <3>2. x[b] = c * d /\ d \in Int /\ y[b] = c * f /\ f \in Int
        BY <2>1, <1>6
    <3>3. f = d + IF k \in S THEN h ELSE 0
        BY <1>5 DEF PartSums
    <3> HIDE DEF c, d, f, h, t, x, y, k
    <3>4. CASE k \in S
        BY <3>1, <3>2, <3>3, <3>4
    <3>5. CASE k \notin S
        BY <3>1, <3>2, <3>3, <3>5
    <3> QED
        BY <3>4, <3>5
  <2> HIDE DEF t, x, y, k
  <2>3. CASE k \in S
    <3>1. \A b \in 0..SkBits-1 : x[b] \in Int /\ t[b] \in Int /\ y[b] = x[b] + t[b]
        BY <2>2, <2>3, <1>1
    <3>2. SumOver(y, SkBits) = SumOver(x, SkBits) + SumOver(t, SkBits)
        BY ONLY <3>1, <1>1, SumOfSums
    <3> QED
        BY <3>2, <2>3 DEF x, y, t, k
  <2>4. CASE k \notin S
    <3>1. \A b \in 0..SkBits-1 : x[b] \in Int /\ y[b] = x[b]
        BY <2>2, <2>4, <1>1
    <3>2. SumOver(y, SkBits) = SumOver(x, SkBits)
        BY ONLY <3>1, <1>1, SumOfEquals
    <3>3. SumOver(x, SkBits) \in Int
        BY <2>1, <1>7 DEF x
    <3> QED
        BY <3>2, <3>3, <2>4 DEF x, y, k
  <2> QED
    BY <2>3, <2>4
<1> HIDE DEF L, R
<1>10. 0 \in P
  <2>1. 0 = 0 + 0 * p /\ 0 \in Int
    BY ByteFacts
  <2> QED
    BY <2>1, <1>1, <1>4, <1>8 DEF Cong
<1>11. ASSUME NEW m \in 1..n, m - 1 \in P PROVE m \in P
  <2> DEFINE k == m - 1
             t == SumOver(Terms(A, sk[k], e), SkBits)
             a == L(k)
             b == R(k)
  <2>1. k \in 0..n /\ m \in 0..n /\ k \in Keys /\ k \in 0..n-1
    BY <1>1
  <2>2. a \in Int /\ b \in Int /\ Cong(a, b)
    BY <2>1, <1>4, <1>7, <1>11 DEF L
  <2>3. L(m) = a + (IF k \in S THEN t ELSE 0) /\ R(m) = b + g[k]
    BY <1>4, <1>9
  <2>4. t \in Int /\ conv[k] = t % p /\ conv[k] \in Int /\ g[k] = IF k \in S THEN conv[k] ELSE 0
    BY <2>1, <1>2, <1>3
  <2> HIDE DEF k, t, a, b
  <2>5. CASE k \in S
    <3>1. Cong(t, conv[k])
        BY <2>4, CongMod
    <3>2. Cong(a + t, b + conv[k])
        BY <3>1, <2>2, <2>4, CongAdds
    <3> QED
        BY <3>2, <2>1, <2>3, <2>4, <2>5
  <2>6. CASE k \notin S
    <3>1. L(m) = a /\ R(m) = b
        BY <2>2, <2>3, <2>4, <2>6
    <3> QED
        BY <3>1, <2>1, <2>2
  <2> QED
    BY <2>5, <2>6
<1> HIDE DEF P
<1>12. \A m \in 0..n : m \in P
    BY ONLY <1>1, <1>10, <1>11, UpTo
<1>13. Cong(L(n), R(n)) /\ L(n) \in Int /\ R(n) \in Int
    BY <1>1, <1>4, <1>7, <1>12, n \in 0..n DEF P, L
<1> QED
    BY <1>13 DEF L, R, g


-----------------------------------------------------------------------------
(* The signature that passes its check *)

\* The sum of the secret keys in S, in bytes, and what SignOts makes of a stream,
\* a hash key and a set of keys.
SkSum(s, S) ==
    [b \in Bits |->
        SumOver([k \in Keys |-> IF k \in S THEN generate_secret_key_OTS(s)[k][b] ELSE 0], k2sn_t)
        % Byte]
SignedAs(s, a, S) ==
    [phase |-> "signed", key |-> set_Key(a), set |-> S, sk |-> generate_secret_key_OTS(s),
     pk |-> generate_public_key_OTS(generate_secret_key_OTS(s), set_Key(a)),
     sksum |-> SkSum(s, S)]

\* Every byte holds its sum.
LEMMA SumInByte ==
    ASSUME NEW s \in Streams, NEW S \in KeySets
    PROVE  /\ SkSum(s, S) = PartSums(S, generate_secret_key_OTS(s), k2sn_t)
           /\ SumInRange(SkSum(s, S))
<1> DEFINE sk == generate_secret_key_OTS(s)
<1>1. \A k \in Keys : \A b \in Bits : sk[k][b] \in {0, 1}
    BY KeyBits
<1> HIDE DEF sk
<1>2. ASSUME NEW b \in Bits
      PROVE  /\ SumOver(Members(S, Column(sk, b)), k2sn_t) \in 0..tb2
             /\ SumOver(Members(S, Column(sk, b)), k2sn_t)
                  = SumOver([k \in Keys |-> IF k \in S THEN sk[k][b] ELSE 0], k2sn_t)
  <2>1. \A k \in Keys : Column(sk, b)[k] \in {0, 1}
    BY <1>1 DEF Column
  <2>2. Members(S, Column(sk, b)) = [k \in Keys |-> IF k \in S THEN sk[k][b] ELSE 0]
    BY DEF Members, Column
  <2>3. SumOver(Members(S, Column(sk, b)), k2sn_t) \in 0..tb2
    BY <2>1, SumFits
  <2> QED
    BY <2>2, <2>3
<1>3. ASSUME NEW z \in 0..tb2 PROVE z % Byte = z
  <2>1. tb2 \in Nat /\ tb2 < Byte /\ Byte \in Nat \ {0}
    BY SizeAssumption, OtsAssumption, ByteFacts DEF Byte
  <2>2. z \in Int /\ z \in 0..Byte-1 /\ 0 \in Int /\ z = Byte * 0 + z
    BY <2>1
  <2> QED
    BY ONLY <2>1, <2>2, DivMod
<1>4. ASSUME NEW b \in Bits
      PROVE  /\ SkSum(s, S)[b] = PartSums(S, sk, k2sn_t)[b]
             /\ SkSum(s, S)[b] \in 0..tb2
  <2> DEFINE z == SumOver(Members(S, Column(sk, b)), k2sn_t)
  <2>1. SkSum(s, S)[b] = z % Byte
    BY <1>2 DEF SkSum, sk
  <2>2. PartSums(S, sk, k2sn_t)[b] = z
    BY DEF PartSums
  <2>3. z \in 0..tb2 /\ z % Byte = z
    BY <1>2, <1>3
  <2> QED
    BY <2>1, <2>2, <2>3
<1>5. SumInRange(SkSum(s, S))
    BY <1>4, SizeAssumption DEF SumInRange
<1>6. SkSum(s, S) = PartSums(S, sk, k2sn_t)
  <2> DEFINE f == SkSum(s, S)
             g == PartSums(S, sk, k2sn_t)
  <2>1. f = [b \in Bits |-> f[b]] /\ g = [b \in Bits |-> g[b]]
    BY DEF SkSum, PartSums
  <2>2. \A b \in Bits : f[b] = g[b]
    BY <1>4
  <2> HIDE DEF f, g
  <2>3. f = g
    BY <2>1, <2>2
  <2> QED
    BY <2>3 DEF f, g
<1> QED
    BY <1>5, <1>6 DEF sk

\* What generate_public_key_OTS() packs is read back.
LEMMA PublicKeysRead ==
    ASSUME NEW s \in Streams, NEW a \in Streams, NEW k \in Keys
    PROVE  LET sk == generate_secret_key_OTS(s)
               A == set_Key(a)
           IN  convert_ring(generate_public_key_OTS(sk, A)[k]) = gSWIFFT(A, sk[k])
<1> DEFINE sk == generate_secret_key_OTS(s)
           A == set_Key(a)
           x == sk[k]
           y == gSWIFFT(A, x)
<1>1. \A b \in Bits : x[b] \in {0, 1}
    BY KeyBits
<1>2. \A e \in Elems : \A b \in Bits : A[e][b] \in Nat
    BY Coefficients
<1>3. generate_public_key_OTS(sk, A)[k] = unpackY(y)
    BY DEF generate_public_key_OTS
<1> HIDE DEF sk, A, x
<1>4. \A b \in Bits : x[b] \in Int
    BY <1>1
<1>5. \A e \in Elems : y[e] \in 0..p-1
    BY <1>2, <1>4, TermSums
<1>6. DOMAIN y = Elems /\ y = [e \in Elems |-> y[e]]
    BY DEF gSWIFFT
<1> HIDE DEF y
<1>7. convert_ring(unpackY(y)) = y
    BY <1>5, <1>6, PackingBack
<1> QED
    BY <1>3, <1>7 DEF sk, A, x, y

\* Adding before hashing is adding after it, modulo p.
LEMMA SumsAgree ==
    ASSUME NEW s \in Streams, NEW a \in Streams, NEW S \in KeySets, NEW e \in Elems
    PROVE  LET sk == generate_secret_key_OTS(s)
               A == set_Key(a)
           IN  /\ gSWIFFT(A, SkSum(s, S))[e] = PublicSum(generate_public_key_OTS(sk, A), S)[e]
               /\ gSWIFFT(A, SkSum(s, S))[e] \in Int
<1> DEFINE sk == generate_secret_key_OTS(s)
           A == set_Key(a)
           pk == generate_public_key_OTS(sk, A)
           t == PartSums(S, sk, k2sn_t)
           conv == [k \in Keys |-> convert_ring(pk[k])[e]]
           x == SumOver(Terms(A, t, e), SkBits)
           y == SumOver(Members(S, conv), k2sn_t)
<1>1. \A k \in Keys : \A b \in Bits : sk[k][b] \in {0, 1}
    BY KeyBits
<1>2. \A b \in Bits : A[e][b] \in Nat
    BY Coefficients
<1>3. \A k \in Keys : conv[k] = gSWIFFT(A, sk[k])[e]
    BY PublicKeysRead
<1>4. SkSum(s, S) = t /\ SumInRange(SkSum(s, S))
    BY SumInByte
<1>5. PublicSum(pk, S)[e] = y % p
  <2>1. Members(S, conv) = [k \in Keys |-> IF k \in S THEN convert_ring(pk[k])[e] ELSE 0]
    BY DEF Members
  <2> HIDE DEF pk, conv
  <2> QED
    BY <2>1 DEF PublicSum
<1>6. \A b \in Bits : t[b] \in Int
  <2>1. \A b \in Bits : SumOver(Members(S, Column(sk, b)), k2sn_t) \in 0..tb2
    <3> SUFFICES ASSUME NEW b \in Bits
                 PROVE  SumOver(Members(S, Column(sk, b)), k2sn_t) \in 0..tb2
        OBVIOUS
    <3> HIDE DEF sk
    <3>1. \A k \in Keys : Column(sk, b)[k] \in {0, 1}
        BY <1>1 DEF Column
    <3> QED
        BY <3>1, SumFits
  <2> HIDE DEF sk
  <2>2. \A b \in Bits : t[b] \in 0..tb2
    BY <2>1 DEF PartSums
  <2> HIDE DEF t
  <2> QED
    BY <2>2, SizeAssumption
<1> HIDE DEF sk, A, pk, conv
<1>7. x \in Int /\ y \in Int /\ Cong(x, y)
    BY <1>1, <1>2, <1>3, SumOfMapped
<1> HIDE DEF t
<1>8. gSWIFFT(A, t)[e] = x % p /\ gSWIFFT(A, t)[e] \in 0..p-1
    BY <1>2, <1>6, TermSums
<1> HIDE DEF x, y
<1>9. x % p = y % p
    BY <1>7, CongSame
<1>10. gSWIFFT(A, t)[e] \in Int
    BY <1>8, ByteFacts
<1> QED
    BY <1>4, <1>5, <1>8, <1>9, <1>10 DEF sk, A, pk

\* So ksnmss_verify() finds no difference.
LEMMA SignedIsRight ==
    ASSUME NEW s \in Streams, NEW a \in Streams, NEW S \in KeySets
    PROVE  LET o == SignedAs(s, a, S) IN CheckSum(o.key, o.sksum, o.pk, o.set) = 0
<1> DEFINE A == set_Key(a)
           ss == SkSum(s, S)
           pk == generate_public_key_OTS(generate_secret_key_OTS(s), A)
           d == [e \in Elems |-> gSWIFFT(A, ss)[e] - PublicSum(pk, S)[e]]
<1>1. SumInRange(ss)
    BY SumInByte
<1>2. \A e \in Elems : gSWIFFT(A, ss)[e] = PublicSum(pk, S)[e] /\ gSWIFFT(A, ss)[e] \in Int
    BY SumsAgree
<1>3. LET o == SignedAs(s, a, S) IN o.key = A /\ o.sksum = ss /\ o.pk = pk /\ o.set = S
    BY DEF SignedAs
<1> HIDE DEF A, ss, pk
<1>4. \A e \in 0..ByteBits-1 : d[e] = 0
    BY <1>2 DEF Elems
<1>5. CheckSum(A, ss, pk, S) = IF SumOver(d, ByteBits) # 0 THEN 2 ELSE 0
    BY <1>1 DEF CheckSum
<1> HIDE DEF d
<1>6. SumOver(d, ByteBits) = 0
    BY <1>4, SumOfZeros, ByteFacts
<1> QED
    BY <1>3, <1>5, <1>6

\* A signature is the one of a stream, a hash key and a set of keys until it has
\* been checked.
OtsInv ==
    \/ ots = NoOts
    \/ \E s \in Streams, a \in Streams, S \in KeySets : ots = SignedAs(s, a, S)
    \/ ots.phase = "verified" /\ ots.result = 0

LEMMA OtsNextSigned == OtsInv /\ [K2snNext]_k2snvars => OtsInv'
<1> SUFFICES ASSUME OtsInv, [K2snNext]_k2snvars PROVE OtsInv'
    OBVIOUS
<1>1. CASE SignOts
  <2>1. PICK s \in Streams, a \in Streams, S \in KeySets : ots' = SignedAs(s, a, S)
    BY <1>1 DEF SignOts, SignedAs, SkSum
  <2> QED
    BY <2>1 DEF OtsInv, SignedAs, SkSum, NoOts
<1>2. CASE VerifyOts
  <2>1. ots.phase = "signed"
    BY <1>2 DEF VerifyOts
  <2>2. PICK s \in Streams, a \in Streams, S \in KeySets : ots = SignedAs(s, a, S)
    BY <2>1 DEF OtsInv, NoOts
  <2>3. CheckSum(ots.key, ots.sksum, ots.pk, ots.set) = 0
    BY <2>2, SignedIsRight
  <2>4. ots'.phase = "verified" /\ ots'.result = CheckSum(ots.key, ots.sksum, ots.pk, ots.set)
    BY <1>2 DEF VerifyOts
  <2> QED
    BY <2>3, <2>4 DEF OtsInv
<1>3. CASE UNCHANGED ots
    BY <1>3 DEF OtsInv, SignedAs, SkSum, NoOts
<1>4. SignOts \/ VerifyOts \/ UNCHANGED ots
    BY DEF K2snNext, k2snvars, otsvars, OtsNext, LeafNext, HashNode, StartTree
<1> QED
    BY <1>1, <1>2, <1>3, <1>4

\* For every key size, stream, hash key and set of component keys, the signature
\* that ksnmss_sign() makes passes the range check and the check of the sums in
\* ksnmss_verify(), and every packed public key reads back as what was hashed.
THEOREM OneTimeSignaturesVerify == K2snSpec => []OneTimeVerifies
<1>1. K2snInit => OtsInv
    BY DEF K2snInit, OtsInit, OtsInv
<1>2. OtsInv => OneTimeVerifies
  <2> SUFFICES ASSUME OtsInv PROVE OneTimeVerifies
    OBVIOUS
  <2>1. CASE ots = NoOts
    BY <2>1 DEF OneTimeVerifies, NoOts
  <2>2. CASE \E s \in Streams, a \in Streams, S \in KeySets : ots = SignedAs(s, a, S)
    <3>1. PICK s \in Streams, a \in Streams, S \in KeySets : ots = SignedAs(s, a, S)
        BY <2>2
    <3> DEFINE A == set_Key(a)
               sk == generate_secret_key_OTS(s)
               pk == generate_public_key_OTS(sk, A)
    <3>2. ots.phase = "signed" /\ ots.pk = pk /\ ots.key = A /\ ots.sk = sk
        BY <3>1 DEF SignedAs
    <3>3. \A k \in Keys : convert_ring(pk[k]) = gSWIFFT(A, sk[k])
        BY PublicKeysRead
    <3> HIDE DEF A, sk, pk
    <3> QED
        BY <3>2, <3>3 DEF OneTimeVerifies
  <2>3. CASE ots.phase = "verified" /\ ots.result = 0
    BY <2>3 DEF OneTimeVerifies
  <2> QED
    BY <2>1, <2>2, <2>3 DEF OtsInv
<1> QED
    BY <1>1, <1>2, OtsNextSigned, PTL DEF K2snSpec
=============================================================================
