-------------------------------- MODULE K2sn --------------------------------
(***************************************************************************)
(* The parts of the K2SN-MSS signature side by side: the Merkle tree and   *)
(* its traversal, the choice of the component keys, the one-time signature *)
(* and the tree of one leaf.  ksnmss_sign() and ksnmss_verify() run them   *)
(* one after the other and pass on only what they return, so a behaviour   *)
(* exercises one of them.                                                  *)
(***************************************************************************)
EXTENDS Mss, Limbs, Ots

VARIABLE part   \* the part that this behaviour exercises

k2snvars == <<mssvars, vars, otsvars, part>>

K2snInit ==
    /\ MssInit /\ Init /\ OtsInit
    /\ part \in {"tree", "family", "instance", "leaf", "none"}

K2snNext ==
    \/ part = "tree" /\ MssNext /\ UNCHANGED <<vars, otsvars, part>>
    \/ part = "family" /\ Next /\ UNCHANGED <<mssvars, otsvars, part>>
    \/ part = "instance" /\ OtsNext /\ UNCHANGED <<mssvars, vars, part>>
    \/ part = "leaf" /\ LeafNext /\ UNCHANGED <<mssvars, vars, part>>

K2snSpec == K2snInit /\ [][K2snNext]_k2snvars
=============================================================================
