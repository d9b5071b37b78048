------------------------------- MODULE Bytes -------------------------------
(***************************************************************************)
(* Symbolic bytes.  A byte is a set of atoms and xor the symmetric         *)
(* difference, so that the laws of xor hold and nothing else: two results  *)
(* are equal exactly if they are for every value of the atoms.  An atom is *)
(* a tuple that starts with its kind.                                      *)
(***************************************************************************)
EXTENDS Integers, Sequences

Xor(a, b) == (a \ b) \cup (b \ a)

Zero == {}
Zeros(n) == [i \in 1..n |-> Zero]

\* The bytes first+1 .. first+n of an input named kind.
Fresh(kind, first, n) == [i \in 1..n |-> {<<kind, first + i>>}]

\* memxor(): the first bytes of a with b, as far as b goes.
XorBytes(a, b) ==
    [i \in DOMAIN a |-> IF i \in DOMAIN b THEN Xor(a[i], b[i]) ELSE a[i]]

\* memcpy() of the bytes b to position pos + 1 of the array a.
Copy(a, pos, b) ==
    [i \in DOMAIN a |-> IF i > pos /\ i <= pos + Len(b) THEN b[i - pos] ELSE a[i]]

\* bytes pos+1 .. pos+n of s
Part(s, pos, n) == SubSeq(s, pos + 1, pos + n)

\* The n-byte pieces of s, whose length is a multiple of n.
Pieces(s, n) == [k \in 1..(Len(s) \div n) |-> Part(s, (k - 1) * n, n)]

Least(m, n) == IF m < n THEN m ELSE n
=============================================================================
