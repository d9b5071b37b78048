------------------------------- MODULE Limbs -------------------------------
(***************************************************************************)
(* The long numbers of k2sn/1cff.c: what add(), sub() and isgteq() compute *)
(* on limbs, against the numbers that Cff works with.  A u256 has limbs    *)
(* 0..4 of 64 bits in the program, limb 0 the lowest.                      *)
(***************************************************************************)
EXTENDS Cff

CONSTANTS
    Base,       \* 2^64 in the program
    Top         \* the highest limb (4)

\* What a 1 in a limb stands for, and in the limb above the highest one.
Weight[k \in 0..Top+1] == IF k = 0 THEN 1 ELSE Base * Weight[k - 1]

\* Every message fits: C(262, 131) is below 2^320.
ASSUME LimbAssumption ==
    /\ Base \in Nat /\ Base > 1 /\ Top \in Nat \ {0}
    /\ Cardinality(KeySets) <= Weight[Top + 1]

Limb == 0..Base-1
u256 == [0..Top -> Limb]

\* From the highest limb down to the first that differs.  Of equal numbers the
\* loop also reads what lies before limb 0 and stops whatever it finds.
isgteq(a, b) ==
    \/ a = b
    \/ \E k \in 0..Top : a[k] > b[k] /\ \A j \in k+1..Top : a[j] = b[j]

\* The carry goes into the next sum; the highest limb drops it.
add(a, b) ==
    LET t[k \in 0..Top] ==
            a[k] + b[k] + IF k > 0 /\ t[k - 1] > Base - 1 THEN 1 ELSE 0
    IN [k \in 0..Top |-> t[k] % Base]

\* Bug: a borrow is forgotten.
Bugsub(a, b) == [k \in 0..Top |-> (a[k] - b[k]) % Base]

\* The borrow is added to the next limb of b, which wraps around if it is full.
sub(a, b) ==
    LET v[k \in 0..Top] ==
            (b[k] + IF k > 0 /\ a[k - 1] < v[k - 1] THEN 1 ELSE 0) % Base
    IN [k \in 0..Top |-> (a[k] - v[k]) % Base]

-----------------------------------------------------------------------------
(* Properties, of the numbers in the states of Cff *)

\* The reference: the number that limbs stand for, and the limbs of a number.
Value(a) ==
    LET s[k \in 0..Top] == (IF k = 0 THEN 0 ELSE s[k - 1]) + a[k] * Weight[k]
    IN s[Top]
Limbs(n) == [k \in 0..Top |-> (n \div Weight[k]) % Base]

\* No limb that can receive a borrow is full; every binomial coefficient of the
\* program's table is like this.
NoFullLimb(b) == \A k \in 1..Top-1 : b[k] # Base - 1

\* Limbs calculate as the numbers do that Cff works with.  isgteq() decides
\* between a message and any cell the table could have (what is left of it
\* later is again a message);
\* sub() of such a cell is exact, although the borrow into a full limb would be
\* lost; and while set_binotable() fills the table, add() of a cell and any
\* other number is their sum, as long as it fits.
LimbsExact ==
    /\ i = 1 /\ q = 1 => \A b \in u256 :
          /\ isgteq(Limbs(msg), b) <=> msg >= Value(b)
          /\ isgteq(Limbs(msg), b) /\ NoFullLimb(b) =>
                Value(sub(Limbs(msg), b)) = msg - Value(b)
    /\ row \in 1..k2sn_t-1 =>
          \A n \in 0..k2sn_t-1, m \in 0..tb2, b \in u256 :
              binoTab[n][m] + Value(b) < Weight[Top + 1] =>
                  Value(add(Limbs(binoTab[n][m]), b)) = binoTab[n][m] + Value(b)
=============================================================================
