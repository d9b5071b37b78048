-------------------------------- MODULE Cff --------------------------------
(***************************************************************************)
(* The cover-free family of K2SN-MSS (k2sn/1cff.c): set_binotable() fills  *)
(* a table of binomial coefficients, cff() turns a message, read as a      *)
(* number, into the tb2 component keys that sign it.  Numbers are naturals *)
(* here: a u256 is five limbs of 64 bits, wide enough for every entry.    *)
(***************************************************************************)
EXTENDS Integers, FiniteSets

CONSTANTS
    k2sn_t,     \* component keys of a one-time key (262 in the program)
    tb2         \* how many of them sign a message (131)

ASSUME SizeAssumption == k2sn_t \in Nat /\ tb2 \in Nat /\ 1 <= tb2 /\ tb2 < k2sn_t

VARIABLES
    binoTab,        \* the table of binomial coefficients
    row,            \* the row set_binotable() fills next
    mes,            \* history: the message of the last call of cff()
    msg,            \* what is left of it
    q,              \* cff(): one more than the component key looked at
    i,              \* cff(): the place to fill in component_key; 0: never called
    component_key   \* the result

vars == <<binoTab, row, mes, msg, q, i, component_key>>

EmptyTable == [n \in 0..k2sn_t-1 |-> [m \in 0..tb2 |-> 0]]

Init ==
    /\ binoTab = EmptyTable
    /\ row = 0
    /\ mes = 0 /\ msg = 0
    /\ q = 1
    /\ i = 0
    /\ component_key = [j \in 0..tb2-1 |-> 0]

cffvars == <<mes, msg, q, i, component_key>>

\* The first two loops of set_binotable().
SetBorders ==
    /\ row = 0
    /\ binoTab' = [n \in 0..k2sn_t-1 |-> [m \in 0..tb2 |->
                      IF m = 0 \/ m = n THEN 1 ELSE binoTab[n][m]]]
    /\ row' = 1
    /\ UNCHANGED cffvars

\* Bug: the sum takes the wrong cell of the row above.
BugFillRow ==
    /\ 1 <= row /\ row < k2sn_t
    /\ binoTab' = [binoTab EXCEPT ![row] = [m \in 0..tb2 |->
                      IF 1 <= m /\ m < row
                      THEN binoTab[row - 1][m] + binoTab[row - 1][m]
                      ELSE binoTab[row][m]]]
    /\ row' = row + 1
    /\ UNCHANGED cffvars

\* One row of the two nested loops that follow.
FillRow ==
    /\ 1 <= row /\ row < k2sn_t
    /\ binoTab' = [binoTab EXCEPT ![row] = [m \in 0..tb2 |->
                      IF 1 <= m /\ m < row
                      THEN binoTab[row - 1][m - 1] + binoTab[row - 1][m]
                      ELSE binoTab[row][m]]]
    /\ row' = row + 1
    /\ UNCHANGED cffvars

\* The number of messages: a message of 256 bits is below C(262, 131).
Messages == binoTab[k2sn_t - 1][tb2 - 1] + binoTab[k2sn_t - 1][tb2]

Running == 1 <= i /\ i <= tb2

\* Bug: one message more than there are sets of keys.
BugStartCff ==
    /\ row = k2sn_t /\ ~Running
    /\ \E x \in 0..Messages : mes' = x /\ msg' = x
    /\ q' = 1 /\ i' = 1
    /\ UNCHANGED <<binoTab, row, component_key>>

\* convert_u82u256() and the call of cff(), in ksnmss_sign() or ksnmss_verify().
StartCff ==
    /\ row = k2sn_t /\ ~Running
    /\ \E x \in 0..Messages-1 : mes' = x /\ msg' = x
    /\ q' = 1 /\ i' = 1
    /\ UNCHANGED <<binoTab, row, component_key>>

Cell == binoTab[k2sn_t - q][tb2 - i]

\* Bug: the comparison is off by one.
BugSkipKey ==
    /\ Running /\ msg >= Cell - 1
    /\ msg' = msg - Cell
    /\ q' = q + 1
    /\ UNCHANGED <<binoTab, row, mes, i, component_key>>

\* The body of the while loop.
SkipKey ==
    /\ Running /\ msg >= Cell
    /\ msg' = msg - Cell
    /\ q' = q + 1
    /\ UNCHANGED <<binoTab, row, mes, i, component_key>>

\* Bug: q is not moved past the key that was taken.
BugTakeKey ==
    /\ Running /\ msg < Cell
    /\ component_key' = [component_key EXCEPT ![i - 1] = q - 1]
    /\ i' = i + 1
    /\ UNCHANGED <<binoTab, row, mes, msg, q>>

\* The end of the while loop and the rest of the for loop.
TakeKey ==
    /\ Running /\ msg < Cell
    /\ component_key' = [component_key EXCEPT ![i - 1] = q - 1]
    /\ q' = q + 1
    /\ i' = i + 1
    /\ UNCHANGED <<binoTab, row, mes, msg>>

Next == SetBorders \/ FillRow \/ StartCff \/ SkipKey \/ TakeKey

Spec == Init /\ [][Next]_vars

-----------------------------------------------------------------------------
(* Properties *)

\* The shape of every variable.
TypeOK ==
    /\ binoTab \in [0..k2sn_t-1 -> [0..tb2 -> Nat]]
    /\ row \in 0..k2sn_t
    /\ mes \in Nat /\ msg \in Nat
    /\ q \in Nat \ {0} /\ i \in 0..tb2+1
    /\ component_key \in [0..tb2-1 -> Nat]

\* cff() never runs past its table: while it looks for a key, the row
\* k2sn_t - q exists, because the message left is smaller than the number of
\* ways to choose the keys that are still to be found.
StaysInTable == Running => q <= k2sn_t

\* The keys found so far are different keys of the one-time key, in order.
KeysAscend ==
    /\ \A j \in 0..tb2-1 : j < i - 1 => component_key[j] < k2sn_t
    /\ \A j, k \in 0..tb2-1 : j < k /\ k < i - 1 => component_key[j] < component_key[k]

\* The sets of component keys, and the reference: how many of them come
\* before S in the lexicographic order.
KeySets == {S \in SUBSET (0..k2sn_t-1) : Cardinality(S) = tb2}
Before(S, U) == \E x \in S \ U : \A y \in (S \ U) \cup (U \ S) : x <= y
Chosen == {component_key[j] : j \in 0..tb2-1}

\* cff() is a bijection: message number n gets the n-th set, so no two
\* messages are signed with the same component keys.
NthSet ==
    i = tb2 + 1 => mes = Cardinality({S \in KeySets : Before(S, Chosen)})
=============================================================================
