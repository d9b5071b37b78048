-------------------------------- MODULE Ccm --------------------------------
(***************************************************************************)
(* AES-CCM of dtls-ccm.c, one turn of a loop per action: CBC-MAC over the  *)
(* first block, the additional data and the message, counter mode over the *)
(* message, in place and with blocks that are reused.  AES is a term.  A   *)
(* message is sealed and what the network makes of it is opened again,     *)
(* as dtls_encrypt() and dtls_decrypt() do for a record.                   *)
(***************************************************************************)
EXTENDS Bytes, SequencesExt

CONSTANTS
    CcmBlock,       \* DTLS_CCM_BLOCKSIZE (16)
    M,              \* bytes of the MAC (8)
    L,              \* bytes of a counter (3)
    AadLengths,     \* lengths of the additional data (13)
    MsgLengths      \* lengths of the message

ASSUME CcmAssumption ==
    /\ CcmBlock \in Nat /\ M \in 1..CcmBlock /\ L \in Nat /\ L < CcmBlock - 1
    /\ AadLengths \subseteq Nat /\ MsgLengths \subseteq Nat

VARIABLE ccm    \* the activation of dtls_ccm_{en,de}crypt_message()

Aes(block) == [i \in 1..CcmBlock |-> {<<"aes", block, i>>}]

Nonce == Fresh("n", 0, CcmBlock - L - 1)
Aad(la) == Fresh("a", 0, la)
Plain(n) == Fresh("m", 0, n)

\* block0() and the template of the counter blocks with SET_COUNTER.
block0(la, lm) ==
    <<{<<"flags", la > 0>>}>> \o Nonce \o [i \in 1..L |-> {<<"length", lm, i>>}]
CounterBlock(cnt) ==
    <<{<<"L-1">>}>> \o Nonce \o [i \in 1..L |-> {<<"counter", cnt, i>>}]

\* dtls_int_to_uint16(B, la) for additional data shorter than 0xFF00 bytes
AadLength(la) == [i \in 1..2 |-> {<<"la", la, i>>}]

-----------------------------------------------------------------------------
(* The reference: RFC 3610 *)

PadBlock(s) == s \o Zeros((-Len(s)) % CcmBlock)

CbcMac(blocks) ==
    LET X[i \in 0..Len(blocks)] ==
            IF i = 0 THEN Zeros(CcmBlock) ELSE Aes(XorBytes(X[i - 1], blocks[i]))
    IN  X[Len(blocks)]

Tag(aad, m) ==
    CbcMac(<<block0(Len(aad), Len(m))>> \o
           Pieces((IF aad = <<>> THEN <<>> ELSE PadBlock(AadLength(Len(aad)) \o aad))
                  \o PadBlock(m), CcmBlock))

Keystream(n) == FlattenSeq([i \in 1..n |-> Aes(CounterBlock(i))])

Seal(aad, m) ==
    XorBytes(m, Part(Keystream(Len(m)), 0, Len(m))) \o
    Part(XorBytes(Tag(aad, m), Aes(CounterBlock(0))), 0, M)

-----------------------------------------------------------------------------
(* The code *)

NoCcm == [pc |-> "idle", op |-> "", aad |-> <<>>, msg |-> <<>>, pos |-> 0,
          lm |-> 0, counter |-> 1, B |-> <<>>, X |-> <<>>, ok |-> FALSE,
          la |-> 0, n |-> 0,                  \* history: of the sealed record,
          in |-> <<>>, lb |-> 0]              \* of the one that is opened

\* add_auth_data() up to and including the block with the length.
Authenticated(c) ==
    LET x0 == Aes(c.B)
        i  == Least(CcmBlock - 2, Len(c.aad))
        b  == Copy(Zeros(CcmBlock), 0, AadLength(Len(c.aad)) \o Part(c.aad, 0, i))
    IN  IF c.aad = <<>> THEN [c EXCEPT !.B = Zeros(CcmBlock), !.X = x0, !.pc = "auth"]
        ELSE [c EXCEPT !.B = XorBytes(b, x0), !.X = Aes(XorBytes(b, x0)),
                       !.aad = Part(@, i, Len(@) - i), !.pc = "auth"]

\* Start with the buffer msg, of which lm bytes are the message.
Start(c, op, aad, msg, lm) ==
    Authenticated([c EXCEPT
        !.op = op, !.aad = aad, !.msg = msg, !.lm = lm, !.pos = 0, !.counter = 1,
        !.B = block0(Len(aad), lm)])

\* mac(): the first len bytes of B, then AES.
Mac(c, n) ==
    LET b == Copy(c.B, 0, XorBytes(Part(c.msg, c.pos, n), Part(c.X, 0, n)))
    IN  [c EXCEPT !.B = b, !.X = Aes(b)]

\* encrypt(): counter mode over n bytes, in place.
Encrypt(c, n) ==
    [c EXCEPT !.msg = Copy(@, c.pos,
                  XorBytes(Part(@, c.pos, n), Part(Aes(CounterBlock(c.counter)), 0, n)))]

\* The MAC is over the plain text: before encryption, after decryption.
Both(c, n) == IF c.op = "enc" THEN Encrypt(Mac(c, n), n) ELSE Mac(Encrypt(c, n), n)

Advanced(c, n) ==
    [c EXCEPT !.lm = @ - n, !.pos = @ + n, !.counter = @ + 1]

\* Bug: the rest of B is what the block before left there.
BugFillB(c, n) == c.B

\* memcpy(B + lm, X + lm, ...): the rest of the last block is X ^ 0.
FillB(c, n) == Copy(c.B, n, Part(c.X, n, CcmBlock - n))

dtls_encrypt(la, n) ==
    /\ ccm.pc = "idle"
    /\ ccm' = Start([NoCcm EXCEPT !.la = la, !.n = n],
                    "enc", Aad(la), Plain(n) \o Zeros(M), n)

AuthBlock ==
    LET b == XorBytes(ccm.X, Part(ccm.aad, 0, CcmBlock))
    IN  /\ ccm.pc = "auth" /\ Len(ccm.aad) > CcmBlock
        /\ ccm' = [ccm EXCEPT !.B = b, !.X = Aes(b),
                              !.aad = Part(@, CcmBlock, Len(@) - CcmBlock)]

AuthLast ==
    LET b == XorBytes(Copy(Zeros(CcmBlock), 0, ccm.aad), ccm.X)
    IN  /\ ccm.pc = "auth" /\ Len(ccm.aad) <= CcmBlock
        /\ ccm' = IF ccm.aad = <<>> THEN [ccm EXCEPT !.pc = "blocks"]
                  ELSE [ccm EXCEPT !.pc = "blocks", !.B = b, !.X = Aes(b),
                                   !.aad = <<>>]

FullBlock(c) == c.lm >= CcmBlock

WholeBlock ==
    /\ ccm.pc = "blocks" /\ FullBlock(ccm)
    /\ ccm' = Advanced(Both(ccm, CcmBlock), CcmBlock)

\* The partial block, then S_0 and the MAC: written, or compared.
Finish ==
    LET n  == ccm.lm
        c1 == IF n = 0 THEN ccm
              ELSE Advanced(Both([ccm EXCEPT !.B = FillB(ccm, n)], n), n)
        s0 == Part(Aes(CounterBlock(0)), 0, M)
    IN  /\ ccm.pc = "blocks" /\ ~FullBlock(ccm)
        /\ ccm' = IF ccm.op = "enc"
                  THEN [c1 EXCEPT !.pc = "sealed",
                            !.msg = Copy(@, c1.pos, XorBytes(Part(c1.X, 0, M), s0))]
                  ELSE [c1 EXCEPT !.pc = "opened",
                            !.ok = Part(c1.X, 0, M) =
                                   XorBytes(Part(c1.msg, c1.pos, M), s0)]

\* What the network does to a sealed record: nothing, one byte is changed, or
\* bytes at the end are missing.  la is the additional data the receiver sees.
Delivered(msg) ==
    {msg} \cup {[msg EXCEPT ![i] = Xor(@, {<<"flip">>})] : i \in DOMAIN msg}
          \cup {Part(msg, 0, n) : n \in 0..(Len(msg) - 1)}

dtls_decrypt(in, la) ==
    LET c == [ccm EXCEPT !.in = in, !.lb = la]
    IN  /\ ccm.pc = "sealed"
        /\ ccm' = IF Len(in) < M THEN [c EXCEPT !.pc = "opened", !.msg = in]
                  ELSE Start(c, "dec", Aad(la), in, Len(in) - M)

CcmInit == ccm = NoCcm

CcmNext ==
    \/ \E la \in AadLengths : \E n \in MsgLengths : dtls_encrypt(la, n)
    \/ AuthBlock \/ AuthLast \/ WholeBlock \/ Finish
    \/ \E in \in Delivered(ccm.msg) : \E la \in AadLengths : dtls_decrypt(in, la)

-----------------------------------------------------------------------------
(* Properties *)

\* What dtls_encrypt() leaves in the buffer is the CCM of RFC 3610, at every
\* length of message and additional data around a block, although B, X and the
\* message itself are overwritten on the way; and dtls_decrypt() returns a
\* message exactly if the record and its additional data arrive as they were
\* sealed, and then the one that was sealed.
CcmExact ==
    LET sealed == Seal(Aad(ccm.la), Plain(ccm.n)) IN
    /\ ccm.pc = "sealed" => ccm.msg = sealed
    /\ ccm.pc = "opened" =>
          /\ ccm.ok <=> (ccm.in = sealed /\ ccm.lb = ccm.la)
          /\ ccm.ok => Part(ccm.msg, 0, ccm.n) = Plain(ccm.n)
=============================================================================
