-------------------------------- MODULE Ots --------------------------------
(***************************************************************************)
(* The one-time signature inside K2SN-MSS (k2sn/ksnmss.c): component keys, *)
(* their sum as a signature, the check of that sum, and the tree that      *)
(* hashes the public component keys of one instance into a leaf of Mss.    *)
(*                                                                         *)
(* Which keys sign a message is Cff's part; here it is any set of keys.    *)
(* SWIFFT is what the check of a sum relies on: a linear map modulo p,     *)
(* packed.  A secret key is the bits that a stream cipher makes of its     *)
(* number; a few streams stand for all of them, the constant ones included.*)
(***************************************************************************)
EXTENDS Cff, Powers, Sequences

CONSTANTS
    ByteBits,   \* bits of a byte (8 in the program); p = 2^ByteBits + 1
    SkBits,     \* bits of a secret component key (1024)
    Streams,    \* numbers of the streams and of the hash keys that are tried
    llength,    \* height of the tree over the component keys (9)
    MaxTrees    \* bound: trees built in a behaviour

\* The six nodes of the lowest layer of the program's tree.
Spare == k2sn_t - Pow2[llength - 1]

ASSUME OtsAssumption ==
    /\ ByteBits \in Nat \ {0} /\ SkBits \in Nat \ {0} /\ Streams \subseteq Nat
    /\ llength \in Nat /\ llength >= 3
    /\ Spare % 2 = 0 /\ k2sn_t % 2 = 0 /\ 0 < Spare /\ 2 * Spare < k2sn_t
    /\ k2sn_t < Pow2[ByteBits + 1] /\ tb2 < Pow2[ByteBits]
    /\ MaxTrees \in Nat

VARIABLES
    ots,    \* the signature being made and checked
    lt      \* create_L_tree()

otsvars == <<ots, lt>>

Byte == Pow2[ByteBits]
p == Byte + 1
Keys == 0..k2sn_t-1
Bits == 0..SkBits-1
Elems == 0..ByteBits-1     \* the program has eight such groups

\* The sum of the first n values of f.
SumOver(f, n) ==
    LET s[k \in 0..n] == IF k = 0 THEN 0 ELSE s[k - 1] + f[k - 1] IN s[n]

-----------------------------------------------------------------------------
(* Keys *)

\* The two loops of generate_secret_key_OTS(): the counter in component_id.
component_id(k) == IF k < Byte - 1 THEN <<k + 1, 0>> ELSE <<k - (Byte - 1), 1>>

\* Bit b of what ChaCha makes of an input, for stream s: all zeros, all ones,
\* or mixed.
KeyStream(s, in, b) ==
    IF s < 2 THEN s ELSE (((in[1] + Byte * in[2] + s) * (b + s)) \div 2) % 2

generate_secret_key_OTS(s) ==
    [k \in Keys |-> [b \in Bits |-> KeyStream(s, component_id(k), b)]]

\* set_Key(): the coefficients of the linear map.
set_Key(s) == [e \in Elems |-> [b \in Bits |-> (s * s + 3 * e * b + b + e) % Byte]]

\* The sums of gSWIFFT(), for coefficients up to tb2.
gSWIFFT(A, x) ==
    [e \in Elems |-> SumOver([b \in Bits |-> A[e][b] * x[b]], SkBits) % p]

\* unpackY(): elements of one bit more than a byte, back to back in bytes.
unpackY(y) ==
    [k \in 0..ByteBits |->
        (IF k = 0 THEN 0 ELSE (y[k - 1] \div Pow2[ByteBits - k + 1]) % Pow2[k])
        + (IF k = ByteBits THEN 0 ELSE (y[k] % Pow2[ByteBits - k]) * Pow2[k])]

convert_ring(r) ==
    [e \in Elems |-> r[e] \div Pow2[e] + (r[e + 1] % Pow2[e + 1]) * Pow2[ByteBits - e]]

generate_public_key_OTS(sk, A) ==
    [k \in Keys |-> unpackY(gSWIFFT(A, sk[k]))]

-----------------------------------------------------------------------------
(* Signature *)

NoOts == [phase |-> "none"]

\* The first part of ksnmss_sign(): the sum, bit by bit in bytes, of the keys
\* in S; and what else goes into the signature.
SignOts ==
    /\ ots.phase # "signed"
    /\ \E s, a \in Streams, S \in KeySets :
         LET sk == generate_secret_key_OTS(s)
             A  == set_Key(a)
             Sum(b) == SumOver([k \in Keys |-> IF k \in S THEN sk[k][b] ELSE 0], k2sn_t)
         IN  ots' = [phase |-> "signed", key |-> A, set |-> S, sk |-> sk,
                     pk |-> generate_public_key_OTS(sk, A),
                     sksum |-> [b \in Bits |-> Sum(b) % Byte]]
    /\ UNCHANGED lt

\* Bug: a sum must be smaller than the number of keys.
BugSumInRange(sksum) == \A b \in Bits : sksum[b] < tb2

SumInRange(sksum) == \A b \in Bits : sksum[b] <= tb2

\* The sum of the public keys in S, reduced at the end.
PublicSum(pk, S) ==
    [e \in Elems |->
        SumOver([k \in Keys |-> IF k \in S THEN convert_ring(pk[k])[e] ELSE 0], k2sn_t) % p]

\* The first part of ksnmss_verify(), up to the root.  The differences of the
\* elements are added up and the total is compared.
CheckSum(key, sksum, pk, S) ==
    LET pksum == gSWIFFT(key, sksum)
        sum   == PublicSum(pk, S)
        d     == [e \in Elems |-> pksum[e] - sum[e]]
    IN  IF ~SumInRange(sksum) THEN 3
        ELSE IF SumOver(d, ByteBits) # 0 THEN 2 ELSE 0

VerifyOts ==
    /\ ots.phase = "signed"
    /\ ots' = [phase |-> "verified", sk |-> ots.sk,
               result |-> CheckSum(ots.key, ots.sksum, ots.pk, ots.set)]
    /\ UNCHANGED lt

-----------------------------------------------------------------------------
(* create_L_tree() *)

\* A node is the sequence of the component keys below it.
Pk(k) == <<k>>
NoTree == [busy |-> FALSE, id |-> -1, layer |-> 0, i |-> 0,
           node |-> [k \in 0..(k2sn_t \div 2)-1 |-> <<>>], used |-> {}, done |-> 0]

\* The nodes of a layer, in the order in which they are computed.  The first
\* two layers mix nodes and component keys.
Width(layer) ==
    IF layer = 0 THEN Spare
    ELSE IF layer = 1 THEN Spare \div 2 + (k2sn_t - 2 * Spare) \div 2
    ELSE Pow2[llength - 1 - layer]

\* Bug: the keys are taken from where the nodes end.
BugFirstKey == Spare

FirstKey == 2 * Spare

\* The children of node i of a layer, and the number that selects its pad.
Children(layer, i_, node) ==
    IF layer = 0 THEN <<Pk(2 * i_), Pk(2 * i_ + 1)>>
    ELSE IF layer = 1 /\ i_ >= Spare \div 2
    THEN LET k == FirstKey + 2 * (i_ - Spare \div 2) IN <<Pk(k), Pk(k + 1)>>
    ELSE <<node[2 * i_], node[2 * i_ + 1]>>

PadIndex(layer, i_) ==
    IF layer = 1 /\ i_ >= Spare \div 2 THEN i_ - Spare \div 2 + Spare ELSE i_

StartTree(id) ==
    /\ ~lt.busy /\ id > lt.id /\ id < MaxTrees
    /\ lt' = [lt EXCEPT !.busy = TRUE, !.id = id, !.layer = 0, !.i = 0]
    /\ UNCHANGED ots

\* One node, written into the array its children are read from.
HashNode ==
    LET c    == Children(lt.layer, lt.i, lt.node)
        pad  == <<lt.layer, (lt.id * Pow2[llength]) \div Pow2[lt.layer] + PadIndex(lt.layer, lt.i)>>
        last == lt.i = Width(lt.layer) - 1
    IN  /\ lt.busy
        /\ lt' = [lt EXCEPT
                    !.node = [@ EXCEPT ![lt.i] = c[1] \o c[2]],
                    !.used = @ \cup {pad},
                    !.done = @ + 1,
                    !.i = IF last THEN 0 ELSE @ + 1,
                    !.layer = IF last THEN @ + 1 ELSE @,
                    !.busy = ~(last /\ lt.layer = llength - 1)]
        /\ UNCHANGED ots

-----------------------------------------------------------------------------

OtsInit == ots = NoOts /\ lt = NoTree

OtsNext == SignOts \/ VerifyOts

LeafNext == HashNode \/ \E id \in 0..MaxTrees-1 : StartTree(id)

-----------------------------------------------------------------------------
(* Properties *)

\* Whatever the streams, the hash key and the set of component keys, a
\* signature that ksnmss_sign() makes passes the range check and the check of
\* the sums in ksnmss_verify(): packing loses nothing, adding before hashing is
\* adding after it, and no sum leaves its byte.
OneTimeVerifies ==
    /\ ots.phase = "verified" => ots.result = 0
    /\ ots.phase = "signed" =>
         \A k \in Keys : convert_ring(ots.pk[k]) = gSWIFFT(ots.key, ots.sk[k])

\* create_L_tree() hashes in place: the root is over every component key, once
\* and in order, and no two hashes of one or several trees use the same pad.
LeafCoversKeys ==
    ~lt.busy /\ lt.id >= 0 =>
        /\ lt.node[0] = [k \in 1..k2sn_t |-> k - 1]
        /\ Cardinality(lt.used) = lt.done
=============================================================================
