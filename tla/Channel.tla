------------------------------ MODULE Channel -------------------------------
(***************************************************************************)
(* Two parts of a connection that Handshake abstracts from, side by side:  *)
(* the TESLA extension of application data and the records that carry      *)
(* messages.  They share no state (a packet is one record, whatever it     *)
(* carries, and is never sent again), so a behaviour is about one of them. *)
(***************************************************************************)
EXTENDS Tesla, Records

VARIABLE layer      \* "tesla" or "records"; never changes

cvars == <<teslavars, vars, layer>>

ChannelInit ==
    /\ TeslaInit /\ Init
    /\ layer \in {"tesla", "records"}

ChannelNext ==
    \/ layer = "tesla" /\ TeslaNext /\ UNCHANGED <<vars, layer>>
    \/ layer = "records" /\ Next /\ UNCHANGED <<teslavars, layer>>

ChannelSpec == ChannelInit /\ [][ChannelNext]_cvars
=============================================================================
