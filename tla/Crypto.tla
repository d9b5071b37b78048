------------------------------- MODULE Crypto -------------------------------
(***************************************************************************)
(* The cryptography below the engine: the K2SN-MSS signature and the       *)
(* symmetric primitives.  dtls.c calls both, neither calls the other and   *)
(* they share no state, so a behaviour is about a part of the one or a     *)
(* task of the other.                                                      *)
(***************************************************************************)
EXTENDS K2sn, Primitives

CryptoInit == K2snInit /\ PrimInit /\ (part = "none") # (task = "none")

CryptoNext ==
    \/ K2snNext /\ UNCHANGED primvars
    \/ PrimNext /\ UNCHANGED k2snvars

CryptoSpec == CryptoInit /\ [][CryptoNext]_<<k2snvars, primvars>>
=============================================================================
