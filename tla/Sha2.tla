-------------------------------- MODULE Sha2 --------------------------------
(***************************************************************************)
(* SHA-256 of sha2.c as a stream: the buffer of one block, the counter,    *)
(* padding.  The compression function is a term: the state of a context is *)
(* the sequence of the blocks it has swallowed.  Like the code, it works   *)
(* in the context's own buffer, whose contents are lost by every call.     *)
(*                                                                         *)
(* The actions are the transcript hash of dtls.c: update_hs_hash(),        *)
(* clear_hs_hash(), and the digest check_finished() takes with a copy of   *)
(* the context that it restores afterwards.                                *)
(***************************************************************************)
EXTENDS Bytes, SequencesExt

CONSTANTS
    BlockLength,    \* DTLS_SHA256_BLOCK_LENGTH (64)
    ShortLength,    \* DTLS_SHA256_SHORT_BLOCK_LENGTH (56)
    DigestLength,   \* DTLS_SHA256_DIGEST_LENGTH (32)
    ChunkSizes,     \* lengths of one update
    MaxText         \* bound: bytes hashed

ASSUME HashAssumption ==
    /\ BlockLength \in Nat \ {0} /\ ShortLength \in 1..(BlockLength - 1)
    /\ DigestLength \in 1..BlockLength /\ ChunkSizes \subseteq Nat

VARIABLES
    hs_hash,    \* the context of the transcript
    hs_digest   \* the last digest taken

sha2vars == <<hs_hash, hs_digest>>

-----------------------------------------------------------------------------
(* The reference: pad, cut into blocks, compress *)

LengthField(n) == [i \in 1..(BlockLength - ShortLength) |-> {<<"count", n, i>>}]
One == {<<"0x80">>}

Compressed(blocks) == [i \in 1..DigestLength |-> {<<"sha", blocks, i>>}]

Sha256(text) ==
    LET gap == (ShortLength - (Len(text) + 1)) % BlockLength
    IN  Compressed(Pieces(text \o <<One>> \o Zeros(gap) \o LengthField(Len(text)),
                          BlockLength))

-----------------------------------------------------------------------------
(* The code *)

\* The buffer after a transform.  Nothing may read it.
Scratch == [i \in 1..BlockLength |-> {<<"W256">>}]

dtls_sha256_init == [state |-> <<>>, buffer |-> Zeros(BlockLength), count |-> 0]

dtls_sha256_transform(c, block) ==
    [c EXCEPT !.state = Append(@, block), !.buffer = Scratch]

Usedspace(c) == c.count % BlockLength

Store(c, pos, data) ==
    [c EXCEPT !.buffer = Copy(@, pos, data), !.count = @ + Len(data)]

\* Whole blocks straight from the input.
Swallow(c, blocks) ==
    [c EXCEPT !.state = @ \o blocks, !.count = @ + Len(blocks) * BlockLength,
              !.buffer = IF blocks = <<>> THEN @ ELSE Scratch]

\* Bug: a buffer that is filled up exactly is not processed.
BugFits(len, freespace) == len <= freespace

Fits(len, freespace) == len < freespace

dtls_sha256_update(c, data) ==
    LET used == Usedspace(c)
        free == BlockLength - used
        fill == IF used > 0 THEN Part(data, 0, Least(free, Len(data))) ELSE <<>>
        c1   == Store(c, used, fill)
        c2   == IF used > 0 THEN dtls_sha256_transform(c1, c1.buffer) ELSE c1
        rest == Part(data, Len(fill), Len(data) - Len(fill))
        n    == (Len(rest) \div BlockLength) * BlockLength
    IN  IF data = <<>> \/ (used > 0 /\ Fits(Len(data), free)) THEN c1
        ELSE Store(Swallow(c2, Pieces(Part(rest, 0, n), BlockLength)),
                   0, Part(rest, n, Len(rest) - n))

\* The 1 bit and the counter both fit behind the used bytes.
Short(used) == used <= ShortLength

\* Zeros from the byte after the first used ones to the counter or the end.
PadBuffer(c, used) ==
    IF Short(used)
    THEN [c EXCEPT !.buffer = Copy(@, used, Zeros(ShortLength - used))]
    ELSE LET c1 == [c EXCEPT !.buffer = Copy(@, used, Zeros(BlockLength - used))]
             c2 == dtls_sha256_transform(c1, c1.buffer)
         IN  [c2 EXCEPT !.buffer = Copy(@, 0, Zeros(ShortLength))]

\* dtls_sha256_final(): the digest; the context is cleared.
dtls_sha256_final(c) ==
    LET used == Usedspace(c)
        c1   == IF used > 0
                THEN PadBuffer([c EXCEPT !.buffer = Copy(@, used, <<One>>)], used + 1)
                ELSE [c EXCEPT !.buffer =
                         Copy(Copy(@, 0, Zeros(ShortLength)), 0, <<One>>)]
        last == Copy(c1.buffer, ShortLength, LengthField(c.count))
    IN  Compressed(dtls_sha256_transform(c1, last).state)

-----------------------------------------------------------------------------
(* The transcript hash of a handshake *)

check_finished ==
    /\ hs_digest' = dtls_sha256_final(hs_hash)
    /\ UNCHANGED hs_hash

update_hs_hash(n) ==
    /\ hs_hash.count + n <= MaxText
    /\ hs_hash' = dtls_sha256_update(hs_hash, Fresh("m", hs_hash.count, n))
    /\ UNCHANGED hs_digest

clear_hs_hash ==
    /\ hs_hash' = dtls_sha256_init
    /\ UNCHANGED hs_digest

Sha2Init == hs_hash = dtls_sha256_init /\ hs_digest = <<>>

Sha2Next ==
    \/ check_finished \/ clear_hs_hash
    \/ \E n \in ChunkSizes : update_hs_hash(n)

-----------------------------------------------------------------------------
(* Properties *)

\* The refinement mapping: what a context has been given is in the blocks it
\* has swallowed and in the used part of its buffer.
Absorbed(c) == FlattenSeq(c.state) \o Part(c.buffer, 0, Usedspace(c))

NextBytes(t, n) == Fresh("m", Len(t), n)

Stream == INSTANCE StreamHash WITH
    H <- Sha256, Chunk <- NextBytes, Sizes <- ChunkSizes,
    text <- Absorbed(hs_hash), digest <- hs_digest

\* The buffered SHA-256 of sha2.c and the roll-back of check_finished()
\* implement StreamHash: no byte is lost, doubled or taken from the scratch
\* area, wherever the calls divide the text and at every padding boundary.
ImplementsStream == Stream!Spec
=============================================================================
