-------------------------------- MODULE Hmac --------------------------------
(***************************************************************************)
(* HMAC (dtls-hmac.c) on top of the streamed SHA-256, as the code uses it: *)
(* a context is initialised with a key, updated in pieces and finalised    *)
(* (the cookie, TESLA), and the PRF of TLS (dtls_p_hash in dtls-crypto.c), *)
(* one turn of its loop per action, with contexts from a pool that may     *)
(* refuse one.                                                             *)
(***************************************************************************)
EXTENDS Sha2

CONSTANTS
    KeyLengths,     \* lengths of the keys
    PrfLengths,     \* lengths of the output of the PRF
    MaxMac          \* bound: bytes authenticated

ASSUME HmacAssumption == KeyLengths \subseteq Nat /\ PrfLengths \subseteq Nat

VARIABLES
    hmac,       \* an HMAC context
    hmacin,     \* history: key and text of that context
    hmacout,    \* the result of dtls_hmac_finalize(), or <<>>
    prf         \* the activation of dtls_p_hash()

hmacvars == <<hmac, hmacin, hmacout, prf>>

-----------------------------------------------------------------------------
(* The references: RFC 2104, and P_hash of RFC 5246, section 5 *)

IpadByte == {<<"0x36">>}
OpadByte == {<<"0x5C">>}

Padded(key) ==
    LET k == IF Len(key) > BlockLength THEN Sha256(key) ELSE key
    IN  k \o Zeros(BlockLength - Len(k))

KeyXor(key, byte) == [i \in 1..BlockLength |-> Xor(Padded(key)[i], byte)]

HmacOf(key, text) ==
    Sha256(KeyXor(key, OpadByte) \o Sha256(KeyXor(key, IpadByte) \o text))

P_hash(key, seed, n) ==
    LET A[i \in 0..n] == IF i = 0 THEN seed ELSE HmacOf(key, A[i - 1])
    IN  Part(FlattenSeq([i \in 1..n |-> HmacOf(key, A[i] \o seed)]), 0, n)

-----------------------------------------------------------------------------
(* dtls-hmac.c *)

Hash(text) == dtls_sha256_final(dtls_sha256_update(dtls_sha256_init, text))

XorAll(pad, byte) == [i \in DOMAIN pad |-> Xor(pad[i], byte)]

\* Bug: a key of one block is hashed as well.
BugLongKey(key) == Len(key) >= BlockLength

LongKey(key) == Len(key) > BlockLength

dtls_hmac_init(key) ==
    LET pad  == Copy(Zeros(BlockLength), 0, IF LongKey(key) THEN Hash(key) ELSE key)
        ipad == XorAll(pad, IpadByte)
    IN  [data |-> dtls_sha256_update(dtls_sha256_init, ipad),
         pad |-> XorAll(ipad, Xor(IpadByte, OpadByte))]

dtls_hmac_update(c, input) == [c EXCEPT !.data = dtls_sha256_update(@, input)]

dtls_hmac_finalize(c) ==
    dtls_sha256_final(
        dtls_sha256_update(dtls_sha256_update(dtls_sha256_init, c.pad),
                           dtls_sha256_final(c.data)))

-----------------------------------------------------------------------------
(* A context in use *)

NewHmac(n) ==
    /\ hmac.pad = <<>>
    /\ hmac' = dtls_hmac_init(Fresh("k", 0, n))
    /\ hmacin' = [key |-> Fresh("k", 0, n), text |-> <<>>]
    /\ UNCHANGED <<hmacout, prf>>

UpdateHmac(n) ==
    LET input == Fresh("m", Len(hmacin.text), n)
    IN  /\ hmac.pad # <<>> /\ hmacout = <<>>
        /\ Len(hmacin.text) + n <= MaxMac
        /\ hmac' = dtls_hmac_update(hmac, input)
        /\ hmacin' = [hmacin EXCEPT !.text = @ \o input]
        /\ UNCHANGED <<hmacout, prf>>

FinalizeHmac ==
    /\ hmac.pad # <<>> /\ hmacout = <<>>
    /\ hmacout' = dtls_hmac_finalize(hmac)
    /\ UNCHANGED <<hmac, hmacin, prf>>

-----------------------------------------------------------------------------
(* dtls_prf() and dtls_p_hash() *)

PrfKey == Fresh("k", 0, 1)
Seed(p) == Fresh("s", 0, p.seed)
NoPrf == [pc |-> "idle", n |-> 0, seed |-> 0, A |-> <<>>, len |-> 0, buf |-> <<>>,
          contexts |-> 0, ret |-> 0]

\* The contexts it got (a history here) are freed and r is returned.
Return(p, r) == [p EXCEPT !.pc = "done", !.ret = r]

\* The buffer is cleared and A(1) calculated; either context may be refused.
\* Without the first the function returns 0, without the second (label error)
\* the length of the buffer.
StartPrf(n, seed) ==
    LET p  == [NoPrf EXCEPT !.n = n, !.seed = seed, !.buf = Zeros(n)]
        a1 == dtls_hmac_finalize(dtls_hmac_update(dtls_hmac_init(PrfKey), Seed(p)))
    IN  /\ prf.pc = "idle"
        /\ \/ prf' = Return(p, 0)
           \/ prf' = Return([p EXCEPT !.A = a1, !.contexts = 1], n)
           \/ prf' = [p EXCEPT !.pc = "loop", !.A = a1, !.contexts = 2]
        /\ UNCHANGED <<hmac, hmacin, hmacout>>

\* HMAC(key, A(i) + label + random1 + random2)
Block(p) ==
    dtls_hmac_finalize(dtls_hmac_update(
        dtls_hmac_update(dtls_hmac_init(PrfKey), p.A), Seed(p)))

\* Bug: A(i+1) is not calculated.
BugNextA(p) == p.A

NextA(p) == dtls_hmac_finalize(dtls_hmac_update(dtls_hmac_init(PrfKey), p.A))

MoreBlocks(p) == p.len + DigestLength < p.n

LoopPrf ==
    /\ prf.pc = "loop" /\ MoreBlocks(prf)
    /\ prf' = [prf EXCEPT
           !.buf = Copy(@, prf.len, Block(prf)),
           !.len = @ + DigestLength,
           !.A = NextA(prf)]
    /\ UNCHANGED <<hmac, hmacin, hmacout>>

LastPrf ==
    /\ prf.pc = "loop" /\ ~MoreBlocks(prf)
    /\ prf' = Return([prf EXCEPT
           !.buf = Copy(@, prf.len, Part(Block(prf), 0, prf.n - prf.len))],
           prf.n)
    /\ UNCHANGED <<hmac, hmacin, hmacout>>

HmacInit ==
    /\ hmac = [data |-> dtls_sha256_init, pad |-> <<>>]
    /\ hmacin = [key |-> <<>>, text |-> <<>>]
    /\ hmacout = <<>>
    /\ prf = NoPrf

HmacNext ==
    \/ \E n \in KeyLengths : NewHmac(n)
    \/ \E n \in ChunkSizes : UpdateHmac(n)
    \/ FinalizeHmac

PrfNext ==
    \/ \E n \in PrfLengths : \E seed \in ChunkSizes : StartPrf(n, seed)
    \/ LoopPrf \/ LastPrf

-----------------------------------------------------------------------------
(* Properties *)

\* The HMAC of dtls-hmac.c, with its pad reused for the outer key and its hash
\* context reused for the outer hash, is that of RFC 2104, for keys shorter
\* than, as long as and longer than a block and for a text in any pieces.
HmacCorrect == hmacout # <<>> => hmacout = HmacOf(hmacin.key, hmacin.text)

\* With both contexts dtls_prf() fills its buffer with exactly P_hash and
\* returns its length, wherever in a block the buffer ends; with one or none
\* it leaves the zeros it began with, never a part of the key material.
PrfComplete ==
    prf.pc = "done" =>
        IF prf.contexts = 2
        THEN prf.buf = P_hash(PrfKey, Seed(prf), prf.n) /\ prf.ret = prf.n
        ELSE prf.buf = Zeros(prf.n)

\* dtls-crypto.h:202-203: dtls_p_hash() returns "the actual number of bytes
\* written to buf or 0 on error".  Bytes it reports are bytes of the PRF.
PrfReturnsWritten ==
    prf.pc = "done" /\ prf.ret # 0 => prf.buf = P_hash(PrfKey, Seed(prf), prf.n)
=============================================================================
