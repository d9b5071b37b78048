----------------------------- MODULE StreamHash -----------------------------
(***************************************************************************)
(* What a hash context promises (dtls_hash_t): the digest is that of all   *)
(* the bytes it was given, in order, however they were divided into calls, *)
(* and taking a digest of a copy does not disturb the context.  H is the   *)
(* hash function on whole texts, Chunk(t, n) the n bytes given after t.    *)
(***************************************************************************)
EXTENDS Naturals, Sequences

CONSTANTS H(_), Chunk(_, _), Sizes

VARIABLES text, digest

hashvars == <<text, digest>>

Init == text = <<>> /\ digest = <<>>

Update(n) == text' = text \o Chunk(text, n) /\ UNCHANGED digest

Digest == digest' = H(text) /\ UNCHANGED text

Clear == text' = <<>> /\ UNCHANGED digest

Next == Digest \/ Clear \/ \E n \in Sizes : Update(n)

Spec == Init /\ [][Next]_hashvars
=============================================================================
