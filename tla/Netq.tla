-------------------------------- MODULE Netq --------------------------------
(***************************************************************************)
(* The packet queues (netq.c), the retransmission timer that walks the     *)
(* send queue (dtls.c, contiki-support/dtls-support.c) and the pool of     *)
(* nodes that the send queue shares with the reorder queues.  A node's t   *)
(* is kept as the time left until it, 0 when it is due.                    *)
(***************************************************************************)
EXTENDS Integers, Sequences, FiniteSets, SequencesExt

CONSTANTS
    Peers,          \* the peers of the context
    NETQ_MAXCNT,    \* nodes in the pool
    Timeout,        \* n->timeout, in ticks
    MaxRetransmit,  \* DTLS_DEFAULT_MAX_RETRANSMIT
    MaxSends,       \* bound: messages sent
    MaxEarly        \* bound: messages that arrive early

ASSUME PoolAssumption == NETQ_MAXCNT \in Nat \ {0}
ASSUME TimeAssumption == Timeout \in Nat \ {0} /\ MaxRetransmit \in Nat
ASSUME BoundAssumption == MaxSends \in Nat /\ MaxEarly \in Nat

VARIABLES
    sendqueue,      \* ctx->sendqueue
    reorder_queue,  \* per peer: handshake_params->reorder_queue, as message numbers
    avail,          \* free nodes of netq_storage
    timer,          \* ticks until ctx->support.retransmit_timer fires; -1: not set
    sent,           \* messages sent so far
    arrived,        \* early messages so far
    replayed        \* history: stored messages that were replayed

netqvars == <<sendqueue, reorder_queue, avail, timer, sent, arrived, replayed>>

NetqInit ==
    /\ sendqueue = <<>>
    /\ reorder_queue = [p \in Peers |-> <<>>]
    /\ avail = NETQ_MAXCNT
    /\ timer = -1
    /\ sent = 0 /\ arrived = 0 /\ replayed = 0

\* The place of the first node whose time is later than n's.
Place(q, n) ==
    CHOOSE i \in 1..Len(q)+1 :
        /\ \A j \in 1..i-1 : q[j].t <= n.t
        /\ i <= Len(q) => q[i].t > n.t

netq_insert_node(q, n) == InsertAt(q, Place(q, n), n)

\* Nodes in a queue.
Stored == UNION {{p} \X DOMAIN reorder_queue[p] : p \in Peers}
Held == Len(sendqueue) + Cardinality(Stored)

\* dtls_send_multi() of a handshake message or a ChangeCipherSpec: a copy for
\* retransmission if there is a node for it; the one timer starts anew.
Send(p) ==
    /\ sent < MaxSends
    /\ sent' = sent + 1
    /\ IF avail > 0
       THEN /\ avail' = avail - 1
            /\ sendqueue' = netq_insert_node(sendqueue,
                   [msg |-> sent + 1, peer |-> p, t |-> Timeout, retransmit_cnt |-> 0])
            /\ timer' = Timeout
       ELSE UNCHANGED <<sendqueue, avail, timer>>
    /\ UNCHANGED <<reorder_queue, arrived, replayed>>

\* n->timeout << n->retransmit_cnt
Delay[k \in 0..MaxRetransmit] == IF k = 0 THEN Timeout ELSE 2 * Delay[k - 1]

\* Bug: the counter stays, the message is sent again for ever.
BugRetransmitted(q, n) ==
    netq_insert_node(q, [n EXCEPT !.t = Delay[n.retransmit_cnt]])

\* dtls_retransmit() while retransmissions are left: back into the queue with
\* twice the time.
Retransmitted(q, n) ==
    netq_insert_node(q, [n EXCEPT !.retransmit_cnt = @ + 1,
                                  !.t = Delay[n.retransmit_cnt + 1]])

Due == sendqueue # <<>> /\ Head(sendqueue).t = 0

\* The queue after dtls_check_retransmit() has treated one node.
Checked ==
    IF ~Due THEN sendqueue
    ELSE IF Head(sendqueue).retransmit_cnt < MaxRetransmit
    THEN Retransmitted(Tail(sendqueue), Head(sendqueue))
    ELSE Tail(sendqueue)

\* Bug: the timer is set for the last node of the queue.
BugRearmed(q) == IF q = <<>> THEN -1 ELSE IF Last(q).t = 0 THEN 1 ELSE Last(q).t

\* The timer after a callback: for the head of the queue, in the next tick if
\* it is due already.
Rearmed(q) == IF q = <<>> THEN -1 ELSE IF Head(q).t = 0 THEN 1 ELSE Head(q).t

\* dtls_retransmit_callback(): at most one node, then the timer is set again.
Fire ==
    /\ timer = 0
    /\ sendqueue' = Checked
    /\ avail' = IF Due /\ Head(sendqueue).retransmit_cnt >= MaxRetransmit
                THEN avail + 1 ELSE avail
    /\ timer' = Rearmed(Checked)
    /\ UNCHANGED <<reorder_queue, sent, arrived, replayed>>

\* The send queue without the nodes of p: node by node from its head.
Kept(p) ==
    LET kept[i \in 0..Len(sendqueue)] ==
            IF i = 0 THEN <<>>
            ELSE IF sendqueue[i].peer = p THEN kept[i - 1]
            ELSE Append(kept[i - 1], sendqueue[i])
    IN  kept[Len(sendqueue)]

\* Bug: only the first node of the peer is freed.
Bugdtls_stop_retransmission(p) ==
    [q |-> Kept(p), freed |-> IF Len(Kept(p)) < Len(sendqueue) THEN 1 ELSE 0]

\* dtls_stop_retransmission(): every node of the peer is removed and freed.
dtls_stop_retransmission(p) ==
    [q |-> Kept(p), freed |-> Len(sendqueue) - Len(Kept(p))]

\* The answer to a flight, or the end of the peer.
Stop(p) ==
    /\ sendqueue' = dtls_stop_retransmission(p).q
    /\ avail' = avail + dtls_stop_retransmission(p).freed
    /\ UNCHANGED <<reorder_queue, timer, sent, arrived, replayed>>

\* handle_handshake() with a message that is ahead: stored once, if there is a
\* node.
Early(p) ==
    /\ arrived < MaxEarly
    /\ arrived' = arrived + 1
    /\ \E seq \in 1..MaxEarly :
         IF Contains(reorder_queue[p], seq) \/ avail = 0
         THEN UNCHANGED <<reorder_queue, avail>>
         ELSE /\ reorder_queue' = [reorder_queue EXCEPT ![p] = Append(@, seq)]
              /\ avail' = avail - 1
    /\ UNCHANGED <<sendqueue, timer, sent, replayed>>

\* handle_handshake() when the turn of a stored message comes: netq_remove()
\* takes the node out of the queue; it is not freed.
Replay(p) ==
    /\ \E i \in 1..Len(reorder_queue[p]) :
         reorder_queue' = [reorder_queue EXCEPT ![p] = RemoveAt(@, i)]
    /\ replayed' = replayed + 1
    /\ UNCHANGED <<sendqueue, avail, timer, sent, arrived>>

\* dtls_handshake_free(): netq_delete_all() of the reorder queue.
HandshakeFree(p) ==
    /\ avail' = avail + Len(reorder_queue[p])
    /\ reorder_queue' = [reorder_queue EXCEPT ![p] = <<>>]
    /\ UNCHANGED <<sendqueue, timer, sent, arrived, replayed>>

\* Time passes; a timer that has run out is served first.
Sooner(k) == IF k > 0 THEN k - 1 ELSE k
Tick ==
    /\ timer # 0
    /\ timer' = Sooner(timer)
    /\ sendqueue' = [i \in DOMAIN sendqueue |-> [sendqueue[i] EXCEPT !.t = Sooner(@)]]
    /\ UNCHANGED <<reorder_queue, avail, sent, arrived, replayed>>

NetqNext ==
    \/ Fire \/ Tick
    \/ \E p \in Peers : Send(p) \/ Stop(p) \/ Early(p) \/ Replay(p) \/ HandshakeFree(p)

NetqSpec == NetqInit /\ [][NetqNext]_netqvars

-----------------------------------------------------------------------------
(* Properties *)

\* Every node of the pool is free, in one queue, or was lost when the message in
\* it was replayed: no sequence of sends, answers, early messages and ends of
\* handshakes frees a node twice or loses one in another way.
PoolConserved == avail + Held + replayed = NETQ_MAXCNT

\* While messages wait for an answer the one timer is set, and for none of them
\* too late: however sends, callbacks and answers set it, it fires at most one
\* timeout after the message is due.
NotLate ==
    \A i \in 1..Len(sendqueue) : timer # -1 /\ timer <= sendqueue[i].t + Timeout

Queued(m) == \E i \in 1..Len(sendqueue) : sendqueue[i].msg = m

\* Every message is answered or given up: none is repeated for ever, none stays
\* in the queue.
GivenUp == \A m \in 1..MaxSends : Queued(m) ~> ~Queued(m)
=============================================================================
