------------------------------- MODULE Tesla -------------------------------
(***************************************************************************)
(* The TESLA source authentication that this tinydtls adds to application  *)
(* data (dtls.c): the client makes a chain of keys for its                 *)
(* ClientKeyExchange, dtls_write() appends to every packet the interval    *)
(* index, the key of the packet before it and a MAC under the key of its   *)
(* own, and dtls_handle_message() checks the packet it stored before with  *)
(* the key the new one discloses.  The server application echoes what it   *)
(* reads, so the same code runs on both sides.                             *)
(*                                                                         *)
(* A key is <<chain, k>>, for K[k] of a chain, or <<chain, -1>> for its    *)
(* commitment Key_comm; key k gives away the keys below it.  <<0, s>> is   *)
(* what lies behind the array.  A MAC is the key it was made with.         *)
(***************************************************************************)
EXTENDS Integers, Sequences, SequencesExt

CONSTANTS
    ChainLen,       \* keys in peer->K (1000 in the program)
    Lens,           \* lengths of application data
    Faults,         \* what the network does to it: "loss", "duplication", "reordering"
    MaxWrites,      \* bound: packets the client writes
    MaxExchanges,   \* bound: ClientKeyExchanges
    MaxSessions,    \* bound: connections of the client
    MaxFaults       \* bound: faults of the network

ASSUME LenAssumption == ChainLen \in Nat \ {0}
ASSUME LensAssumption == Lens \subseteq Nat
ASSUME BoundAssumption == MaxWrites \in Nat /\ MaxExchanges \in Nat
                          /\ MaxSessions \in Nat /\ MaxFaults \in Nat

VARIABLES
    state,      \* per side: "none" (no peer), "handshake" or "connected"
    ses,        \* per side: which peer object, counting the connections
    int_index,  \* per side: peer->int_index
    tesla_ps,   \* per side: the packet kept for the next check
    K,          \* the chain in the client's peer->K, 0 before it has one
    tsync,      \* per side: the chain that ctx->tsync describes
    net,        \* the messages on their way to each side
    chains,     \* history: chains made so far
    faults,     \* faults of the network so far
    wrote,      \* history: packets the client wrote so far
    mackey,     \* history: the key of the last packet's MAC
    disclosed,  \* history: the keys sent
    last        \* history: what the last packet received was checked against

teslavars == <<state, ses, int_index, tesla_ps, K, tsync, net, faults, chains,
               wrote, mackey, disclosed, last>>

Endpoint == {"C", "S"}
Other(e) == IF e = "C" THEN "S" ELSE "C"

Key == (0..MaxExchanges) \X (-1..(ChainLen + 1))
NoPacket == [kind |-> "none"]
NoCheck == [to |-> "S", pkt |-> NoPacket, stored |-> NoPacket, t |-> 0, ok |-> TRUE]

TeslaInit ==
    /\ state = [e \in Endpoint |-> "none"]
    /\ ses = [e \in Endpoint |-> 0]
    /\ int_index = [e \in Endpoint |-> 0]
    /\ tesla_ps = [e \in Endpoint |-> NoPacket]
    /\ K = 0
    /\ tsync = [e \in Endpoint |-> 0]
    /\ net = [e \in Endpoint |-> <<>>]
    /\ faults = 0 /\ chains = 0 /\ wrote = 0
    /\ mackey = <<0, 0>>
    /\ disclosed = {}
    /\ last = NoCheck

history == <<faults, chains, wrote, mackey, disclosed, last>>

Send(e, m) == net' = [net EXCEPT ![e] = Append(@, m)]
Answer(e, m) == net' = [net EXCEPT ![e] = Tail(@), ![Other(e)] = Append(@, m)]
Arrives(e, kind) == net[e] # <<>> /\ Head(net[e]).kind = kind

-----------------------------------------------------------------------------
(* Handshakes, as far as they touch the TESLA state                        *)

\* dtls_new_peer() clears the object it allocates.
dtls_new_peer(e, s) ==
    /\ ses' = [ses EXCEPT ![e] = s]
    /\ int_index' = [int_index EXCEPT ![e] = 0]
    /\ tesla_ps' = [tesla_ps EXCEPT ![e] = NoPacket]

\* dtls_connect(): a new peer and a ClientHello.
dtls_connect ==
    /\ state["C"] = "none" /\ ses["C"] < MaxSessions
    /\ state' = [state EXCEPT !["C"] = "handshake"]
    /\ dtls_new_peer("C", ses["C"] + 1)
    /\ K' = 0
    /\ Send("S", [kind |-> "HELLO", fresh |-> TRUE, ses |-> ses["C"] + 1])
    /\ UNCHANGED <<tsync, history>>

\* dtls_renegotiate(): the peer keeps its index, its keys and its store.
dtls_renegotiate ==
    /\ state["C"] = "connected" /\ chains < MaxExchanges
    /\ state' = [state EXCEPT !["C"] = "handshake"]
    /\ Send("S", [kind |-> "HELLO", fresh |-> FALSE, ses |-> ses["C"]])
    /\ UNCHANGED <<ses, int_index, tesla_ps, K, tsync, history>>

\* The client loses its peer: a restart, a close or an alert.
ClientRestart ==
    /\ state["C"] # "none" /\ ses["C"] < MaxSessions
    /\ state' = [state EXCEPT !["C"] = "none"]
    /\ UNCHANGED <<ses, int_index, tesla_ps, K, tsync, net, history>>

\* A ClientHello with a good cookie: a new connection replaces the peer, a
\* renegotiation keeps it.
AcceptHello ==
    /\ Arrives("S", "HELLO")
    /\ LET m == Head(net["S"]) IN
       /\ state' = [state EXCEPT !["S"] = "handshake"]
       /\ IF m.fresh THEN dtls_new_peer("S", m.ses)
                     ELSE UNCHANGED <<ses, int_index, tesla_ps>>
       /\ Answer("S", [kind |-> "SH", ses |-> m.ses])
    /\ UNCHANGED <<K, tsync, history>>

\* dtls_send_client_key_exchange(): a new chain from a new seed; its
\* commitment goes into the synchronisation message.
SendKeyExchange ==
    /\ Arrives("C", "SH") /\ Head(net["C"]).ses = ses["C"]
    /\ state["C"] = "handshake" /\ chains < MaxExchanges
    /\ chains' = chains + 1
    /\ K' = chains + 1
    /\ tsync' = [tsync EXCEPT !["C"] = chains + 1]
    /\ Answer("C", [kind |-> "KX", chain |-> chains + 1, ses |-> ses["C"]])
    /\ UNCHANGED <<state, ses, int_index, tesla_ps, faults, wrote, mackey,
                   disclosed, last>>

\* The server copies the synchronisation message; the rest of the handshake
\* connects it.
AcceptKeyExchange ==
    /\ Arrives("S", "KX") /\ Head(net["S"]).ses = ses["S"]
    /\ tsync' = [tsync EXCEPT !["S"] = Head(net["S"]).chain]
    /\ state' = [state EXCEPT !["S"] = "connected"]
    /\ Answer("S", [kind |-> "FIN", ses |-> ses["S"]])
    /\ UNCHANGED <<ses, int_index, tesla_ps, K, history>>

\* The server's Finished connects the client.
AcceptFinished ==
    /\ Arrives("C", "FIN") /\ Head(net["C"]).ses = ses["C"]
    /\ state["C"] = "handshake"
    /\ state' = [state EXCEPT !["C"] = "connected"]
    /\ net' = [net EXCEPT !["C"] = Tail(@)]
    /\ UNCHANGED <<ses, int_index, tesla_ps, K, tsync, history>>

\* A message of a peer that is gone does not decrypt.
DropStale(e) ==
    /\ net[e] # <<>>
    /\ LET m == Head(net[e]) IN
       /\ m.kind # "HELLO"
       /\ m.ses # ses[e] \/ (e = "C" /\ state["C"] = "none")
    /\ net' = [net EXCEPT ![e] = Tail(@)]
    /\ UNCHANGED <<state, ses, int_index, tesla_ps, K, tsync, history>>

-----------------------------------------------------------------------------
(* Application data                                                        *)

\* Reading K[k]: past the array lie the last MAC and the stored packet.
ReadKey(k) == IF k < ChainLen THEN {<<K, k>>} ELSE {0} \X {0, 1}

\* Bug: the packet discloses its own key.
BugDisclosed(t) == IF t = 0 THEN {<<tsync["C"], -1>>} ELSE ReadKey(t)

\* The key a packet discloses.
Disclosed(t) == IF t = 0 THEN {<<tsync["C"], -1>>} ELSE ReadKey(t - 1)

\* dtls_write() of the client: the index, the disclosed key and the MAC are
\* appended to the data.
dtls_write ==
    /\ state["C"] = "connected" /\ wrote < MaxWrites
    /\ \E len \in Lens, mk \in ReadKey(int_index["C"]), dk \in Disclosed(int_index["C"]) :
         /\ Send("S", [kind |-> "APP", ses |-> ses["C"], n |-> wrote + 1,
                       index |-> int_index["C"], len |-> len, key |-> dk, mac |-> mk])
         /\ mackey' = mk
         /\ disclosed' = disclosed \cup {dk}
    /\ int_index' = [int_index EXCEPT !["C"] = @ + 1]
    /\ wrote' = wrote + 1
    /\ UNCHANGED <<state, ses, tesla_ps, K, tsync, faults, chains, last>>

\* Bug: the MAC is computed with the key the stored packet disclosed itself.
BugMacMatches(stored, m) ==
    stored # NoPacket /\ stored.mac = stored.key /\ stored.len = m.len

\* Bug: only the lengths are compared.
BugLenMatches(stored, m) == stored # NoPacket /\ stored.len = m.len

\* The MAC over the stored packet: as many bytes of it as the new packet has.
MacMatches(stored, m) ==
    stored # NoPacket /\ stored.mac = m.key /\ stored.len = m.len

\* dtls_handle_message(): check the stored packet unless this is the first,
\* store this one, deliver it; a failed check is only printed.  The server
\* application may answer with dtls_write(), which then sends the data with
\* the extension that still follows it in the buffer.
Receive(e) ==
    /\ Arrives(e, "APP")
    /\ state[e] # "none" /\ Head(net[e]).ses = ses[e]
    /\ LET m == Head(net[e])
           t == int_index[e]
       IN
       /\ last' = [to |-> e, pkt |-> m, stored |-> tesla_ps[e], t |-> t,
                   ok |-> t = 0 \/ MacMatches(tesla_ps[e], m)]
       /\ tesla_ps' = [tesla_ps EXCEPT ![e] = m]
       /\ \E echo \in BOOLEAN :
            IF e = "S" /\ echo /\ state["S"] = "connected"
            THEN /\ int_index' = [int_index EXCEPT !["S"] = @ + 1]
                 /\ Answer("S", m)
            ELSE /\ net' = [net EXCEPT ![e] = Tail(@)]
                 /\ UNCHANGED int_index
    /\ UNCHANGED <<state, ses, K, tsync, faults, chains, wrote, mackey, disclosed>>

\* The network loses, duplicates or reorders application data.
Fault(e) ==
    /\ faults < MaxFaults
    /\ faults' = faults + 1
    /\ \E i \in 1..Len(net[e]) :
         /\ net[e][i].kind = "APP"
         /\ \/ /\ "loss" \in Faults
               /\ net' = [net EXCEPT ![e] = RemoveAt(@, i)]
            \/ /\ "duplication" \in Faults
               /\ net' = [net EXCEPT ![e] = Append(@, net[e][i])]
            \/ /\ "reordering" \in Faults
               /\ net' = [net EXCEPT ![e] = Append(RemoveAt(@, i), net[e][i])]
    /\ UNCHANGED <<state, ses, int_index, tesla_ps, K, tsync, chains, wrote,
                   mackey, disclosed, last>>

TeslaNext ==
    \/ dtls_connect \/ dtls_renegotiate \/ ClientRestart
    \/ AcceptHello \/ SendKeyExchange \/ AcceptKeyExchange \/ AcceptFinished
    \/ dtls_write
    \/ \E e \in Endpoint : Receive(e) \/ DropStale(e) \/ Fault(e)

TeslaSpec == TeslaInit /\ [][TeslaNext]_teslavars

-----------------------------------------------------------------------------
(* Properties *)

\* The keys a listener can compute from what was sent.
Derivable == {k \in Key : \E d \in disclosed : d[1] = k[1] /\ k[2] <= d[2]}

\* The TESLA condition on the sender: when a packet is sent, the key of its
\* MAC is not known to anyone else and does not follow from a key that is;
\* across renegotiations, restarts and reconnections.
MacKeySecret == mackey[1] # 0 => mackey \notin Derivable

\* While the network keeps order, what the receiver checks is the packet the
\* sender wrote just before the one that discloses the key: the two counters
\* and the store stay in step across renegotiations and reconnections.  If the
\* chain is still the one of that packet, the key disclosed is the one its MAC
\* was made with, and it passes whenever the new packet is as long.
StoreInStep ==
    faults = 0 /\ last.to = "S" /\ last.t > 0 =>
        /\ last.stored # NoPacket /\ last.stored.n = last.pkt.n - 1
        /\ last.stored.mac[1] # 0 /\ last.stored.mac[1] = last.pkt.key[1] =>
               /\ last.pkt.key = last.stored.mac
               /\ last.stored.len = last.pkt.len => last.ok

\* dtls.c:5346-5347: "take revealed key in this packet and use it to check
\* previous stored packet authenticity".  A stored packet whose MAC was made
\* with the key that is revealed passes the check.
StoredAuthenticates ==
    faults = 0 /\ last.t > 0 /\ last.stored # NoPacket
    /\ last.stored.mac[1] # 0 /\ last.stored.mac = last.pkt.key => last.ok

\* Whatever the network does to the packets, a check that succeeds has
\* authenticated the packet its sender wrote just before; unless the key was
\* read behind the chain.
AcceptedIsPrevious ==
    last.t > 0 /\ last.ok =>
        last.stored.mac[1] = 0 \/ last.stored.n = last.pkt.n - 1
=============================================================================
