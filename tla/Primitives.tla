----------------------------- MODULE Primitives -----------------------------
(***************************************************************************)
(* The symmetric primitives side by side: the streamed hash, the HMAC, the *)
(* PRF and CCM.  They share no state, so a behaviour exercises one.        *)
(***************************************************************************)
EXTENDS Hmac, Ccm

VARIABLE task   \* the primitive this behaviour exercises

primvars == <<sha2vars, hmacvars, ccm, task>>

PrimInit ==
    /\ Sha2Init /\ HmacInit /\ CcmInit
    /\ task \in {"hash", "hmac", "prf", "ccm", "none"}

PrimNext ==
    \/ task = "hash" /\ Sha2Next /\ UNCHANGED <<hmacvars, ccm, task>>
    \/ task = "hmac" /\ HmacNext /\ UNCHANGED <<sha2vars, ccm, task>>
    \/ task = "prf" /\ PrfNext /\ UNCHANGED <<sha2vars, ccm, task>>
    \/ task = "ccm" /\ CcmNext /\ UNCHANGED <<sha2vars, hmacvars, task>>

PrimSpec == PrimInit /\ [][PrimNext]_primvars
=============================================================================
