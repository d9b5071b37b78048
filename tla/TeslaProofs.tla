---------------------------- MODULE TeslaProofs ----------------------------
(***************************************************************************)
(* What TESLA gives the two sides, for every length of the chain, any      *)
(* number of packets, renegotiations and reconnections: the condition on   *)
(* the sender, what a check that succeeds has authenticated on any         *)
(* network, and what the receiver checks on a network that keeps order.    *)
(***************************************************************************)
EXTENDS Tesla, SequenceTheorems, TLAPS

Pair == Nat \X Int

\* The types the argument needs.
Types ==
    /\ K \in Nat /\ chains \in Nat
    /\ K <= chains
    /\ int_index \in [Endpoint -> Nat]
    /\ DOMAIN tsync = Endpoint /\ tsync["C"] \in Nat
    /\ tsync["C"] <= chains
    /\ mackey \in Pair
    /\ disclosed \subseteq Pair

\* Nothing of a chain is disclosed before the chain is made.
NoFutureKey == mackey[1] <= chains /\ \A d \in disclosed : d[1] <= chains

\* Of the chain of the last packet, only keys below the packet's are known.
BelowMacKey ==
    mackey[1] # 0 => \A d \in disclosed : d[1] = mackey[1] => d[2] < mackey[2]

\* Of the client's present chain, only keys below that of the packet before
\* the next one are known, and the commitment is the one of that chain.
BelowIndex ==
    K # 0 => /\ tsync["C"] = K
             /\ \A d \in disclosed : d[1] = K => d[2] < int_index["C"] - 1

IInv == Types /\ NoFutureKey /\ BelowMacKey /\ BelowIndex

\* What the invariant is about; int_index only where the client counts.
core == <<K, chains, tsync["C"], mackey, disclosed, int_index["C"]>>

LEMMA InitEstablishes == TeslaInit => IInv
    BY DEF TeslaInit, IInv, Types, NoFutureKey, BelowMacKey, BelowIndex, Pair, Endpoint

\* A step that leaves these variables alone keeps the invariant.
LEMMA CoreKeeps ==
    ASSUME IInv, UNCHANGED core,
           int_index' \in [Endpoint -> Nat], DOMAIN tsync' = Endpoint
    PROVE  IInv'
    BY DEF core, IInv, Types, NoFutureKey, BelowMacKey, BelowIndex

LEMMA ConnectKeeps == IInv /\ dtls_connect => IInv'
<1> SUFFICES ASSUME IInv, dtls_connect PROVE IInv'
    OBVIOUS
<1>1. /\ K' = 0 /\ chains' = chains /\ tsync' = tsync /\ mackey' = mackey
      /\ disclosed' = disclosed
      /\ int_index' = [int_index EXCEPT !["C"] = 0]
    BY DEF dtls_connect, dtls_new_peer, history
<1>2. int_index' \in [Endpoint -> Nat]
    BY <1>1 DEF IInv, Types, Endpoint
<1>3. Types'
    BY <1>1, <1>2 DEF IInv, Types
<1>4. NoFutureKey' /\ BelowMacKey' /\ BelowIndex'
    BY <1>1 DEF IInv, NoFutureKey, BelowMacKey, BelowIndex
<1> QED
    BY <1>3, <1>4 DEF IInv

LEMMA KeyExchangeKeeps == IInv /\ SendKeyExchange => IInv'
<1> SUFFICES ASSUME IInv, SendKeyExchange PROVE IInv'
    OBVIOUS
<1>1. /\ K' = chains + 1 /\ chains' = chains + 1
      /\ tsync' = [tsync EXCEPT !["C"] = chains + 1]
      /\ mackey' = mackey /\ disclosed' = disclosed /\ int_index' = int_index
    BY DEF SendKeyExchange
<1>2. mackey[1] \in Nat /\ \A d \in disclosed : d[1] \in Nat
    BY DEF IInv, Types, Pair
<1>3. tsync'["C"] = chains + 1 /\ DOMAIN tsync' = Endpoint
    BY <1>1 DEF IInv, Types, Endpoint
<1>4. Types'
    BY <1>1, <1>3 DEF IInv, Types
<1>5. NoFutureKey'
    BY <1>1, <1>2 DEF IInv, Types, NoFutureKey
<1>6. BelowMacKey'
    BY <1>1 DEF IInv, BelowMacKey
<1>7. BelowIndex'
    BY <1>1, <1>2, <1>3 DEF IInv, Types, NoFutureKey, BelowIndex
<1> QED
    BY <1>4, <1>5, <1>6, <1>7 DEF IInv

\* What dtls_write() may find as the keys of a packet.
LEMMA PacketKeys ==
    ASSUME IInv, NEW mk \in ReadKey(int_index["C"]), NEW dk \in Disclosed(int_index["C"])
    PROVE  /\ mk \in Pair /\ mk[1] \in {0, K}
           /\ mk[1] # 0 => mk[2] = int_index["C"]
           /\ dk \in Pair /\ dk[1] <= chains
           /\ K # 0 /\ dk[1] = K => dk[2] < int_index["C"]
<1> DEFINE t == int_index["C"]
<1>1. t \in Nat /\ K \in Nat /\ tsync["C"] \in Nat /\ K <= chains /\ tsync["C"] <= chains
      /\ chains \in Nat
    BY DEF IInv, Types, Endpoint
<1>2. mk \in Pair /\ mk[1] \in {0, K} /\ (mk[1] # 0 => mk[2] = t)
  <2>1. CASE t < ChainLen
    BY <2>1, <1>1 DEF ReadKey, Pair
  <2>2. CASE ~(t < ChainLen)
    <3>1. mk \in {0} \X {0, 1}
        BY <2>2 DEF ReadKey
    <3> QED
        BY <3>1 DEF Pair
  <2> QED
    BY <2>1, <2>2
<1>3. dk \in Pair /\ dk[1] <= chains /\ (K # 0 /\ dk[1] = K => dk[2] < t)
  <2>1. CASE t = 0
    <3>1. dk = <<tsync["C"], -1>>
        BY <2>1 DEF Disclosed
    <3> QED
        BY <3>1, <2>1, <1>1 DEF Pair
  <2>2. CASE t # 0 /\ t - 1 < ChainLen
    <3>1. dk = <<K, t - 1>>
        BY <2>2 DEF Disclosed, ReadKey
    <3> QED
        BY <3>1, <1>1 DEF Pair
  <2>3. CASE t # 0 /\ ~(t - 1 < ChainLen)
    <3>1. dk \in {0} \X {0, 1}
        BY <2>3 DEF Disclosed, ReadKey
    <3> QED
        BY <3>1, <1>1 DEF Pair
  <2> QED
    BY <2>1, <2>2, <2>3
<1> QED
    BY <1>2, <1>3

LEMMA WriteKeeps == IInv /\ dtls_write => IInv'
<1> SUFFICES ASSUME IInv, dtls_write PROVE IInv'
    OBVIOUS
<1> DEFINE t == int_index["C"]
<1>0. PICK mk \in ReadKey(t), dk \in Disclosed(t) :
          mackey' = mk /\ disclosed' = disclosed \cup {dk}
    BY DEF dtls_write
<1>1. /\ K' = K /\ chains' = chains /\ tsync' = tsync
      /\ int_index' = [int_index EXCEPT !["C"] = t + 1]
    BY DEF dtls_write
<1>2. /\ mk \in Pair /\ mk[1] \in {0, K} /\ (mk[1] # 0 => mk[2] = t)
      /\ dk \in Pair /\ dk[1] <= chains /\ (K # 0 /\ dk[1] = K => dk[2] < t)
    BY PacketKeys
<1>3. t \in Nat /\ int_index' \in [Endpoint -> Nat] /\ int_index'["C"] = t + 1
    BY <1>1 DEF IInv, Types, Endpoint
<1>4. \A d \in disclosed : d[1] \in Nat /\ d[2] \in Int
    BY DEF IInv, Types, Pair
<1>5. Types'
    BY <1>0, <1>1, <1>2, <1>3 DEF IInv, Types
<1>6. NoFutureKey'
    BY <1>0, <1>1, <1>2 DEF IInv, Types, NoFutureKey
<1>7. \A d \in disclosed' : K # 0 /\ d[1] = K => d[2] < t
  <2> SUFFICES ASSUME NEW d \in disclosed', K # 0, d[1] = K PROVE d[2] < t
    OBVIOUS
  <2>1. CASE d \in disclosed
    BY <2>1, <1>3, <1>4 DEF IInv, BelowIndex
  <2>2. CASE d = dk
    BY <2>2, <1>2
  <2> QED
    BY <2>1, <2>2, <1>0
<1>8. BelowMacKey'
    BY <1>0, <1>2, <1>7 DEF BelowMacKey
<1>9. BelowIndex'
  <2>1. int_index'["C"] - 1 = t
    BY <1>3
  <2> HIDE DEF t
  <2> QED
    BY <2>1, <1>1, <1>7 DEF IInv, BelowIndex
<1> QED
    BY <1>5, <1>6, <1>8, <1>9 DEF IInv

LEMMA OtherStepsKeep ==
    ASSUME IInv,
           \/ dtls_renegotiate \/ ClientRestart \/ AcceptHello \/ AcceptKeyExchange
           \/ AcceptFinished
           \/ \E e \in Endpoint : Receive(e) \/ DropStale(e) \/ Fault(e)
           \/ UNCHANGED teslavars
    PROVE  IInv'
<1>0. int_index \in [Endpoint -> Nat] /\ DOMAIN tsync = Endpoint
    BY DEF IInv, Types
<1> USE <1>0
<1>1. CASE dtls_renegotiate \/ ClientRestart \/ AcceptFinished
    BY <1>1, CoreKeeps DEF dtls_renegotiate, ClientRestart, AcceptFinished, history, core
<1>2. CASE AcceptHello
  <2>1. UNCHANGED int_index \/ int_index' = [int_index EXCEPT !["S"] = 0]
    BY <1>2 DEF AcceptHello, dtls_new_peer
  <2>2. int_index' \in [Endpoint -> Nat] /\ int_index'["C"] = int_index["C"]
    BY <2>1 DEF Endpoint
  <2> QED
    BY <1>2, <2>2, CoreKeeps DEF AcceptHello, history, core
<1>3. CASE AcceptKeyExchange
  <2>1. tsync' = [tsync EXCEPT !["S"] = Head(net["S"]).chain]
    BY <1>3 DEF AcceptKeyExchange
  <2>2. DOMAIN tsync' = Endpoint /\ tsync'["C"] = tsync["C"]
    BY <2>1 DEF Endpoint
  <2> QED
    BY <1>3, <2>2, CoreKeeps DEF AcceptKeyExchange, history, core
<1>4. ASSUME NEW e \in Endpoint, Receive(e) PROVE IInv'
  <2>1. UNCHANGED int_index \/ int_index' = [int_index EXCEPT !["S"] = @ + 1]
    BY <1>4 DEF Receive
  <2>2. int_index' \in [Endpoint -> Nat] /\ int_index'["C"] = int_index["C"]
    BY <2>1 DEF Endpoint
  <2> QED
    BY <1>4, <2>2, CoreKeeps DEF Receive, core
<1>5. ASSUME NEW e \in Endpoint, DropStale(e) \/ Fault(e) PROVE IInv'
    BY <1>5, CoreKeeps DEF DropStale, Fault, history, core
<1>6. CASE UNCHANGED teslavars
    BY <1>6, CoreKeeps DEF teslavars, core
<1> QED
    BY <1>1, <1>2, <1>3, <1>4, <1>5, <1>6

LEMMA StepKeeps == IInv /\ [TeslaNext]_teslavars => IInv'
    BY ConnectKeeps, KeyExchangeKeeps, WriteKeeps, OtherStepsKeep DEF TeslaNext

LEMMA InvariantSuffices == IInv => MacKeySecret
<1> SUFFICES ASSUME IInv, mackey[1] # 0, mackey \in Derivable PROVE FALSE
    BY DEF MacKeySecret
<1>1. PICK d \in disclosed : d[1] = mackey[1] /\ mackey[2] <= d[2]
    BY DEF Derivable
<1>2. d[2] < mackey[2] /\ d[2] \in Int /\ mackey[2] \in Int
    BY <1>1 DEF IInv, Types, BelowMacKey, Pair
<1> QED
    BY <1>1, <1>2

\* When dtls_write() sends a packet, nobody who has seen everything sent so far
\* can compute the key of its MAC: for every chain length, any number of
\* writes, renegotiations and reconnections, on a network that loses,
\* duplicates and reorders.  (Past the end of the chain there is no such key.)
THEOREM MacKeyUndisclosed == TeslaSpec => []MacKeySecret
    BY InitEstablishes, StepKeeps, InvariantSuffices, PTL DEF TeslaSpec


-----------------------------------------------------------------------------
(* What a check that succeeds has authenticated                            *)

\* A message under way is of the client's connection or of an earlier one, and
\* what follows the key exchange there comes after a chain was made.  Within a
\* chain, the number of a packet and its index differ by the same amount
\* f[chain]; the keys of a packet are those of its own index.
\* c is ctx: the chains made, the client's connection and its chain.
PacketOk(f, c, m) ==
    /\ m.ses \in Nat /\ m.ses <= c[2]
    /\ m.kind \in {"KX", "FIN"} /\ m.ses = c[2] => c[3] # 0
    /\ m.kind = "APP" =>
           /\ m.n \in Int /\ m.index \in Nat /\ m.mac \in Pair /\ m.key \in Pair
           /\ m.mac[1] # 0 => /\ m.mac[1] \in 1..c[1] /\ m.mac[2] = m.index
                              /\ m.n - m.index = f[m.mac[1]]
           /\ m.key[1] # 0 => /\ m.key[1] \in 1..c[1] /\ m.key[2] = m.index - 1
                              /\ m.n - m.index = f[m.key[1]]

ctx == <<chains, ses["C"], K>>

Queue(f, c, q) == \E T : q \in Seq(T) /\ \A m \in T : PacketOk(f, c, m)

Kept(f, c, m) == m # NoPacket => m.kind = "APP" /\ PacketOk(f, c, m)

\* All packets that are under way or stored, and the next one.
Packets(f) ==
    /\ K # 0 => f[K] = wrote + 1 - int_index["C"]
    /\ \A e \in Endpoint : Queue(f, ctx, net[e]) /\ Kept(f, ctx, tesla_ps[e])

PacketInv ==
    /\ wrote \in Nat /\ ses \in [Endpoint -> Nat]
    /\ DOMAIN net = Endpoint /\ DOMAIN tesla_ps = Endpoint /\ DOMAIN state = Endpoint
    /\ state["C"] = "connected" => K # 0
    /\ \E f : f \in [Nat -> Int] /\ Packets(f)
    /\ AcceptedIsPrevious

LEMMA QueueFrom ==
    ASSUME NEW f, NEW c, NEW q, NEW T, q \in Seq(T), \A m \in T : PacketOk(f, c, m)
    PROVE  Queue(f, c, q)
  BY DEF Queue

LEMMA QueueEmpty == ASSUME NEW f, NEW c PROVE Queue(f, c, <<>>)
<1> DEFINE q == <<>>
           T == {}
<1>1. q \in Seq(T) /\ \A m \in T : PacketOk(f, c, m)
  BY EmptySeq
<1> HIDE DEF q, T
<1>2. Queue(f, c, q)
  BY <1>1, QueueFrom
<1> QED BY <1>2 DEF q

LEMMA QueueAppend ==
    ASSUME NEW f, NEW c, NEW q, NEW m, Queue(f, c, q), PacketOk(f, c, m)
    PROVE  Queue(f, c, Append(q, m))
<1>1. PICK T : q \in Seq(T) /\ \A x \in T : PacketOk(f, c, x)
  BY DEF Queue
<1> DEFINE V == T \cup {m}
<1>2. T \subseteq V /\ m \in V /\ \A x \in V : PacketOk(f, c, x)
  BY <1>1
<1> HIDE DEF V
<1>3. Append(q, m) \in Seq(V)
  BY <1>1, <1>2, SeqMonotonic, AppendProperties
<1> QED BY <1>2, <1>3, QueueFrom

LEMMA QueueTail ==
    ASSUME NEW f, NEW c, NEW q, Queue(f, c, q), q # <<>>
    PROVE  PacketOk(f, c, Head(q)) /\ Queue(f, c, Tail(q))
<1>1. PICK T : q \in Seq(T) /\ \A x \in T : PacketOk(f, c, x)
  BY DEF Queue
<1>2. Head(q) \in T /\ Tail(q) \in Seq(T)
  BY <1>1, HeadTailProperties
<1> QED BY <1>1, <1>2, QueueFrom

LEMMA QueueRemove ==
    ASSUME NEW f, NEW c, NEW q, Queue(f, c, q), NEW i \in 1..Len(q)
    PROVE  PacketOk(f, c, q[i]) /\ Queue(f, c, RemoveAt(q, i))
<1>1. PICK T : q \in Seq(T) /\ \A x \in T : PacketOk(f, c, x)
  BY DEF Queue
<1>2. Len(q) \in Nat /\ \A j \in 1..Len(q) : q[j] \in T
  BY <1>1, LenProperties, ElementOfSeq
<1>3. SubSeq(q, 1, i - 1) \in Seq(T)
  <2>1. 1 \in Int /\ i - 1 \in Int /\ \A j \in 1..i-1 : q[j] \in T
    BY <1>2
  <2> QED BY <2>1, SubSeqProperties
<1>4. SubSeq(q, i + 1, Len(q)) \in Seq(T)
  <2>1. i + 1 \in Int /\ Len(q) \in Int /\ \A j \in i+1..Len(q) : q[j] \in T
    BY <1>2
  <2> QED BY <2>1, SubSeqProperties
<1>5. RemoveAt(q, i) \in Seq(T)
  BY <1>3, <1>4, ConcatProperties DEF RemoveAt
<1> QED BY <1>1, <1>2, <1>5, QueueFrom

\* Messages of the handshake.
LEMMA OtherKind ==
    ASSUME NEW f, NEW c, NEW m, m.kind # "APP", m.ses \in Nat, m.ses <= c[2],
           m.kind \in {"KX", "FIN"} => c[3] # 0
    PROVE  PacketOk(f, c, m)
  BY DEF PacketOk

\* Send and Answer.
LEMMA Sent ==
    ASSUME NEW f, NEW c, DOMAIN net = Endpoint, \A x \in Endpoint : Queue(f, c, net[x]),
           NEW e \in Endpoint, NEW m, PacketOk(f, c, m), Send(e, m)
    PROVE  DOMAIN net' = Endpoint /\ \A x \in Endpoint : Queue(f, c, net'[x])
<1>1. /\ DOMAIN net' = Endpoint /\ net'[e] = Append(net[e], m)
      /\ \A x \in Endpoint \ {e} : net'[x] = net[x]
  BY DEF Send
<1>2. Queue(f, c, Append(net[e], m))
  BY QueueAppend
<1> QED BY <1>1, <1>2

LEMMA Answered ==
    ASSUME NEW f, NEW c, DOMAIN net = Endpoint, \A x \in Endpoint : Queue(f, c, net[x]),
           NEW e \in Endpoint, net[e] # <<>>, NEW m, PacketOk(f, c, m), Answer(e, m)
    PROVE  DOMAIN net' = Endpoint /\ \A x \in Endpoint : Queue(f, c, net'[x])
<1>1. Other(e) \in Endpoint /\ Other(e) # e /\ \A x \in Endpoint : x = e \/ x = Other(e)
  BY DEF Endpoint, Other
<1>2. /\ DOMAIN net' = Endpoint /\ net'[e] = Tail(net[e])
      /\ net'[Other(e)] = Append(net[Other(e)], m)
  BY <1>1 DEF Answer
<1>3. Queue(f, c, Tail(net[e])) /\ Queue(f, c, Append(net[Other(e)], m))
  BY <1>1, QueueTail, QueueAppend
<1> QED BY <1>1, <1>2, <1>3

LEMMA Taken ==
    ASSUME NEW f, NEW c, DOMAIN net = Endpoint, \A x \in Endpoint : Queue(f, c, net[x]),
           NEW e \in Endpoint, net[e] # <<>>, net' = [net EXCEPT ![e] = Tail(@)]
    PROVE  DOMAIN net' = Endpoint /\ \A x \in Endpoint : Queue(f, c, net'[x])
<1>1. /\ DOMAIN net' = Endpoint /\ net'[e] = Tail(net[e])
      /\ \A x \in Endpoint \ {e} : net'[x] = net[x]
  OBVIOUS
<1>2. Queue(f, c, Tail(net[e]))
  BY QueueTail
<1> QED BY <1>1, <1>2

\* A check that succeeds.
LEMMA CheckIsPrevious ==
    ASSUME NEW f, NEW c, NEW s, NEW m, Kept(f, c, s), m.kind = "APP", PacketOk(f, c, m),
           MacMatches(s, m), s.mac[1] # 0
    PROVE  s.n = m.n - 1
<1>1. s # NoPacket /\ s.mac = m.key
  BY DEF MacMatches
<1>2. /\ s.n \in Int /\ s.index \in Nat /\ s.mac[2] = s.index /\ s.mac[1] \in 1..c[1]
      /\ s.n - s.index = f[s.mac[1]]
  BY <1>1 DEF Kept, PacketOk
<1>3. /\ m.n \in Int /\ m.index \in Nat /\ m.key[2] = m.index - 1
      /\ m.n - m.index = f[m.key[1]]
  BY <1>1 DEF PacketOk
<1>4. s.index = m.index - 1
  BY <1>1, <1>2, <1>3
<1>5. m.n - m.index = s.n - s.index
  BY <1>1, <1>2, <1>3
<1> QED BY <1>2, <1>3, <1>4, <1>5


-----------------------------------------------------------------------------
(* The steps *)

LEMMA PacketInvFrom ==
    ASSUME wrote' \in Nat, ses' \in [Endpoint -> Nat], DOMAIN net' = Endpoint,
           DOMAIN tesla_ps' = Endpoint, DOMAIN state' = Endpoint,
           state'["C"] = "connected" => K' # 0,
           AcceptedIsPrevious', NEW f \in [Nat -> Int],
           K' # 0 => f[K'] = wrote' + 1 - int_index'["C"],
           \A e \in Endpoint : Queue(f, ctx', net'[e]),
           \A e \in Endpoint : Kept(f, ctx', tesla_ps'[e])
    PROVE  PacketInv'
<1>1. Packets(f)'
  BY DEF Packets
<1> QED BY <1>1 DEF PacketInv

LEMMA PacketInitially == TeslaInit => PacketInv
<1> SUFFICES ASSUME TeslaInit PROVE PacketInv
  OBVIOUS
<1> DEFINE f == [n \in Nat |-> 0]
<1>1. f \in [Nat -> Int]
  OBVIOUS
<1> HIDE DEF f
<1>2. Packets(f)
  <2>1. \A e \in Endpoint : Queue(f, ctx, net[e])
    BY QueueEmpty DEF TeslaInit
  <2>2. \A e \in Endpoint : Kept(f, ctx, tesla_ps[e])
    BY DEF TeslaInit, Kept
  <2> QED BY <2>1, <2>2 DEF Packets, TeslaInit
<1>3. AcceptedIsPrevious
  BY DEF TeslaInit, NoCheck, AcceptedIsPrevious
<1>4. state["C"] # "connected"
  BY DEF TeslaInit, Endpoint
<1> QED BY <1>1, <1>2, <1>3, <1>4 DEF PacketInv, TeslaInit

\* What most steps leave alone: the numbers and the last check.
counts == <<wrote, chains, K, ses["C"], int_index["C"], last>>

\* A step that leaves the counts and the stores alone, or clears a store.
LEMMA QuietKeeps ==
    ASSUME PacketInv, UNCHANGED counts, DOMAIN tesla_ps' = Endpoint,
           ses' \in [Endpoint -> Nat], DOMAIN state' = Endpoint,
           state'["C"] = "connected" => K # 0,
           \A e \in Endpoint : tesla_ps'[e] \in {tesla_ps[e], NoPacket},
           \A f : (\A e \in Endpoint : Queue(f, ctx, net[e]))
               => DOMAIN net' = Endpoint /\ \A e \in Endpoint : Queue(f, ctx, net'[e])
    PROVE  PacketInv'
<1>1. PICK f \in [Nat -> Int] : Packets(f)
  BY DEF PacketInv
<1>2. \A e \in Endpoint : Queue(f, ctx, net[e]) /\ Kept(f, ctx, tesla_ps[e])
  BY <1>1 DEF Packets
<1>3. /\ wrote' = wrote /\ ctx' = ctx /\ K' = K /\ int_index'["C"] = int_index["C"]
      /\ last' = last
  BY DEF counts, ctx
<1>4. DOMAIN net' = Endpoint /\ \A e \in Endpoint : Queue(f, ctx', net'[e])
  BY <1>2, <1>3
<1>5. \A e \in Endpoint : Kept(f, ctx', tesla_ps'[e])
  BY <1>2, <1>3 DEF Kept
<1>6. K' # 0 => f[K'] = wrote' + 1 - int_index'["C"]
  BY <1>1, <1>3 DEF Packets
<1>7. AcceptedIsPrevious' /\ wrote' \in Nat
  BY <1>3 DEF AcceptedIsPrevious, PacketInv
<1> QED BY <1>1, <1>3, <1>4, <1>5, <1>6, <1>7, PacketInvFrom

\* What the first message of a queue says.
LEMMA FirstOk ==
    ASSUME PacketInv, NEW e \in Endpoint, net[e] # <<>>
    PROVE  \E f : PacketOk(f, ctx, Head(net[e]))
  BY QueueTail DEF PacketInv, Packets

LEMMA HelloKeeps ==
    ASSUME IInv, PacketInv, AcceptHello \/ dtls_renegotiate PROVE PacketInv'
<1>1. /\ int_index \in [Endpoint -> Nat] /\ ses \in [Endpoint -> Nat]
      /\ DOMAIN net = Endpoint /\ DOMAIN tesla_ps = Endpoint /\ DOMAIN state = Endpoint
      /\ state["C"] = "connected" => K # 0
  BY DEF IInv, Types, PacketInv
<1>2. CASE dtls_renegotiate
  <2> DEFINE m == [kind |-> "HELLO", fresh |-> FALSE, ses |-> ses["C"]]
  <2>1. m.kind = "HELLO" /\ m.ses = ses["C"] /\ Send("S", m) /\ "S" \in Endpoint
    BY <1>2 DEF dtls_renegotiate, Endpoint
  <2>2. m.ses \in Nat /\ m.ses <= ctx[2]
    BY <1>1, <2>1 DEF ctx, Endpoint
  <2> HIDE DEF m
  <2>3. /\ UNCHANGED counts /\ UNCHANGED tesla_ps /\ ses' = ses
        /\ state["C"] = "connected" /\ state' = [state EXCEPT !["C"] = "handshake"]
    BY <1>2 DEF dtls_renegotiate, history, counts
  <2>4. \A f : PacketOk(f, ctx, m)
    BY <2>1, <2>2, OtherKind
  <2> QED BY <1>1, <2>1, <2>3, <2>4, Sent, QuietKeeps
<1>3. CASE AcceptHello
  <2> DEFINE m == [kind |-> "SH", ses |-> Head(net["S"]).ses]
  <2>1. m.kind = "SH" /\ m.ses = Head(net["S"]).ses /\ Answer("S", m) /\ "S" \in Endpoint
        /\ net["S"] # <<>>
    BY <1>3 DEF AcceptHello, Arrives, Endpoint
  <2>2. m.ses \in Nat /\ m.ses <= ctx[2]
    BY <2>1, FirstOk DEF PacketOk
  <2> HIDE DEF m
  <2>3. \/ UNCHANGED <<ses, int_index, tesla_ps>>
        \/ /\ int_index' = [int_index EXCEPT !["S"] = 0]
           /\ ses' = [ses EXCEPT !["S"] = m.ses]
           /\ tesla_ps' = [tesla_ps EXCEPT !["S"] = NoPacket]
    BY <1>3, <2>1 DEF AcceptHello, dtls_new_peer
  <2>4. int_index'["C"] = int_index["C"] /\ ses'["C"] = ses["C"]
        /\ ses' \in [Endpoint -> Nat]
    BY <1>1, <2>2, <2>3 DEF Endpoint
  <2>5. DOMAIN tesla_ps' = Endpoint /\ \A e \in Endpoint : tesla_ps'[e] \in {tesla_ps[e], NoPacket}
    BY <1>1, <2>3
  <2>6. UNCHANGED counts /\ state' = [state EXCEPT !["S"] = "handshake"]
    BY <1>3, <2>4 DEF AcceptHello, history, counts
  <2>7. \A f : PacketOk(f, ctx, m)
    BY <2>1, <2>2, OtherKind
  <2>8. DOMAIN state' = Endpoint /\ (state'["C"] = "connected" => K # 0)
    BY <1>1, <2>6
  <2> QED BY <1>1, <2>1, <2>4, <2>5, <2>6, <2>7, <2>8, Answered, QuietKeeps
<1> QED BY <1>2, <1>3

LEMMA HandshakeKeeps ==
    ASSUME IInv, PacketInv,
           \/ ClientRestart \/ AcceptKeyExchange \/ AcceptFinished \/ UNCHANGED teslavars
           \/ \E e \in Endpoint : DropStale(e)
    PROVE  PacketInv'
<1>1. /\ DOMAIN net = Endpoint /\ DOMAIN tesla_ps = Endpoint /\ DOMAIN state = Endpoint
      /\ ses \in [Endpoint -> Nat] /\ (state["C"] = "connected" => K # 0)
  BY DEF PacketInv
<1>2. UNCHANGED counts /\ UNCHANGED tesla_ps /\ UNCHANGED ses
  BY DEF ClientRestart, AcceptKeyExchange, AcceptFinished, DropStale, history, teslavars, counts
<1>3. CASE ClientRestart \/ UNCHANGED teslavars
  <2>1. net' = net /\ (state' = state \/ state' = [state EXCEPT !["C"] = "none"])
    BY <1>3 DEF ClientRestart, teslavars
  <2>2. DOMAIN state' = Endpoint /\ (state'["C"] = "connected" => K # 0)
    BY <1>1, <2>1 DEF Endpoint
  <2> QED BY <1>1, <1>2, <2>1, <2>2, QuietKeeps
<1>4. CASE AcceptKeyExchange
  <2> DEFINE m == [kind |-> "FIN", ses |-> ses["S"]]
             h == Head(net["S"])
  <2>1. /\ m.kind = "FIN" /\ m.ses = h.ses /\ h.kind = "KX" /\ Answer("S", m)
        /\ "S" \in Endpoint /\ net["S"] # <<>>
        /\ state' = [state EXCEPT !["S"] = "connected"]
    BY <1>4 DEF AcceptKeyExchange, Arrives, Endpoint
  <2>2. \E f : PacketOk(f, ctx, h)
    BY <2>1, FirstOk
  <2> HIDE DEF m, h
  <2>3. \A f : PacketOk(f, ctx, m)
    BY <2>1, <2>2 DEF PacketOk
  <2>4. DOMAIN state' = Endpoint /\ (state'["C"] = "connected" => K # 0)
    BY <1>1, <2>1
  <2> QED BY <1>1, <1>2, <2>1, <2>3, <2>4, Answered, QuietKeeps
<1>5. ASSUME AcceptFinished \/ \E e \in Endpoint : DropStale(e) PROVE PacketInv'
  <2>1. PICK e \in Endpoint : net[e] # <<>> /\ net' = [net EXCEPT ![e] = Tail(@)]
    BY <1>5 DEF AcceptFinished, DropStale, Arrives, Endpoint
  <2>2. DOMAIN state' = Endpoint /\ (state'["C"] = "connected" => K # 0)
    <3>1. CASE AcceptFinished
      <4>1. /\ "C" \in Endpoint /\ net["C"] # <<>> /\ Head(net["C"]).kind = "FIN"
            /\ Head(net["C"]).ses = ses["C"]
            /\ state' = [state EXCEPT !["C"] = "connected"]
        BY <3>1 DEF AcceptFinished, Arrives, Endpoint
      <4>2. K # 0
        BY <4>1, FirstOk DEF PacketOk, ctx
      <4> QED BY <1>1, <4>1, <4>2
    <3>2. CASE \E x \in Endpoint : DropStale(x)
      BY <1>1, <3>2 DEF DropStale
    <3> QED BY <1>5, <3>1, <3>2
  <2> QED BY <1>1, <1>2, <2>1, <2>2, Taken, QuietKeeps
<1> QED BY <1>3, <1>4, <1>5


\* A new chain or a new connection does not touch the packets of the others.
LEMMA OkWithNewChain ==
    ASSUME NEW f \in [Nat -> Int], NEW c, c[1] \in Nat, NEW d \in Int, NEW m,
           PacketOk(f, c, m)
    PROVE  PacketOk([f EXCEPT ![c[1] + 1] = d], <<c[1] + 1, c[2], c[1] + 1>>, m)
<1> DEFINE g == [f EXCEPT ![c[1] + 1] = d]
           b == <<c[1] + 1, c[2], c[1] + 1>>
<1>1. \A x \in 1..c[1] : x \in 1..b[1] /\ g[x] = f[x]
  OBVIOUS
<1>2. b[2] = c[2] /\ b[3] # 0
  OBVIOUS
<1> HIDE DEF g, b
<1>3. PacketOk(g, b, m)
  BY <1>1, <1>2 DEF PacketOk
<1> QED BY <1>3 DEF g, b

LEMMA OkWithNewConnection ==
    ASSUME NEW f, NEW c, c[2] \in Nat, NEW m, PacketOk(f, c, m)
    PROVE  PacketOk(f, <<c[1], c[2] + 1, 0>>, m)
<1> DEFINE b == <<c[1], c[2] + 1, 0>>
<1>1. b[1] = c[1] /\ b[2] = c[2] + 1
  OBVIOUS
<1> HIDE DEF b
<1>2. m.ses \in Nat /\ m.ses <= b[2] /\ m.ses # b[2]
  BY <1>1 DEF PacketOk
<1>3. PacketOk(f, b, m)
  BY <1>1, <1>2 DEF PacketOk
<1> QED BY <1>3 DEF b

\* The queues and stores under a context that every packet survives.
LEMMA AllSurvive ==
    ASSUME NEW f, NEW c, NEW g, NEW b,
           \A m : PacketOk(f, c, m) => PacketOk(g, b, m),
           \A e \in Endpoint : Queue(f, c, net[e]) /\ Kept(f, c, tesla_ps[e])
    PROVE  \A e \in Endpoint : Queue(g, b, net[e]) /\ Kept(g, b, tesla_ps[e])
<1> SUFFICES ASSUME NEW e \in Endpoint PROVE Queue(g, b, net[e]) /\ Kept(g, b, tesla_ps[e])
  OBVIOUS
<1>1. PICK T : net[e] \in Seq(T) /\ \A x \in T : PacketOk(f, c, x)
  BY DEF Queue
<1>2. Queue(g, b, net[e])
  BY <1>1, QueueFrom
<1>3. Kept(g, b, tesla_ps[e])
  BY DEF Kept
<1> QED BY <1>2, <1>3

LEMMA PacketConnect == ASSUME IInv, PacketInv, dtls_connect PROVE PacketInv'
<1>1. PICK f \in [Nat -> Int] : Packets(f)
  BY DEF PacketInv
<1>2. /\ DOMAIN net = Endpoint /\ DOMAIN tesla_ps = Endpoint /\ DOMAIN state = Endpoint
      /\ ses \in [Endpoint -> Nat] /\ ses["C"] \in Nat
  BY DEF PacketInv, Endpoint
<1> DEFINE m == [kind |-> "HELLO", fresh |-> TRUE, ses |-> ses["C"] + 1]
           b == <<chains, ses["C"] + 1, 0>>
<1>3. m.kind = "HELLO" /\ m.ses = ses["C"] + 1 /\ Send("S", m) /\ "S" \in Endpoint
  BY DEF dtls_connect, Endpoint
<1>4. /\ K' = 0 /\ chains' = chains /\ wrote' = wrote /\ last' = last
      /\ tesla_ps' = [tesla_ps EXCEPT !["C"] = NoPacket]
      /\ ses' = [ses EXCEPT !["C"] = ses["C"] + 1]
      /\ state' = [state EXCEPT !["C"] = "handshake"]
  BY DEF dtls_connect, dtls_new_peer, history
<1>5. ctx' = b /\ ses' \in [Endpoint -> Nat]
  BY <1>2, <1>4 DEF ctx, Endpoint
<1>6. DOMAIN state' = Endpoint /\ state'["C"] # "connected"
  BY <1>2, <1>4 DEF Endpoint
<1>7. \A x : PacketOk(f, ctx, x) => PacketOk(f, b, x)
  BY <1>2, OkWithNewConnection DEF ctx
<1>8. \A e \in Endpoint : Queue(f, b, net[e]) /\ Kept(f, b, tesla_ps[e])
  BY <1>1, <1>7, AllSurvive DEF Packets
<1>9. PacketOk(f, b, m)
  <2>1. b[2] = ses["C"] + 1
    OBVIOUS
  <2> HIDE DEF m, b
  <2> QED BY <1>2, <1>3, <2>1, OtherKind
<1> HIDE DEF m, b
<1>10. DOMAIN net' = Endpoint /\ \A e \in Endpoint : Queue(f, b, net'[e])
  BY <1>2, <1>3, <1>8, <1>9, Sent
<1>11. DOMAIN tesla_ps' = Endpoint /\ \A e \in Endpoint : Kept(f, b, tesla_ps'[e])
  BY <1>2, <1>4, <1>8 DEF Kept
<1>12. AcceptedIsPrevious' /\ wrote' \in Nat
  BY <1>4 DEF AcceptedIsPrevious, PacketInv
<1> QED BY <1>1, <1>4, <1>5, <1>6, <1>10, <1>11, <1>12, PacketInvFrom

LEMMA PacketKeyExchange == ASSUME IInv, PacketInv, SendKeyExchange PROVE PacketInv'
<1>1. PICK f \in [Nat -> Int] : Packets(f)
  BY DEF PacketInv
<1>2. /\ DOMAIN net = Endpoint /\ DOMAIN tesla_ps = Endpoint /\ DOMAIN state = Endpoint
      /\ ses \in [Endpoint -> Nat] /\ ses["C"] \in Nat
  BY DEF PacketInv, Endpoint
<1>3. chains \in Nat /\ wrote \in Nat /\ int_index["C"] \in Nat
  BY DEF IInv, Types, PacketInv, Endpoint
<1> DEFINE d == wrote + 1 - int_index["C"]
           g == [f EXCEPT ![chains + 1] = d]
           b == <<chains + 1, ses["C"], chains + 1>>
           m == [kind |-> "KX", chain |-> chains + 1, ses |-> ses["C"]]
<1>4. d \in Int
  BY <1>3
<1>5. g \in [Nat -> Int] /\ g[chains + 1] = d
  BY <1>3, <1>4
<1>6. \A x : PacketOk(f, ctx, x) => PacketOk(g, b, x)
  <2>1. ctx[1] = chains /\ ctx[2] = ses["C"]
    BY DEF ctx
  <2>2. \A x : PacketOk(f, ctx, x) => PacketOk([f EXCEPT ![ctx[1] + 1] = d],
                                               <<ctx[1] + 1, ctx[2], ctx[1] + 1>>, x)
    BY <1>3, <1>4, <2>1, OkWithNewChain
  <2> QED BY <2>1, <2>2
<1>7. m.kind = "KX" /\ m.ses = ses["C"] /\ Answer("C", m) /\ "C" \in Endpoint
      /\ net["C"] # <<>>
  BY DEF SendKeyExchange, Arrives, Endpoint
<1>8. /\ K' = chains + 1 /\ chains' = chains + 1 /\ wrote' = wrote /\ last' = last
      /\ tesla_ps' = tesla_ps /\ int_index' = int_index /\ ses' = ses /\ state' = state
  BY DEF SendKeyExchange
<1>9. K' # 0 /\ (K' # 0 => g[K'] = wrote' + 1 - int_index'["C"])
  BY <1>3, <1>5, <1>8
<1>10. ctx' = b /\ b[2] = ses["C"] /\ b[3] # 0
  BY <1>3, <1>8 DEF ctx
<1> HIDE DEF d, g, m, b
<1>11. \A e \in Endpoint : Queue(g, b, net[e]) /\ Kept(g, b, tesla_ps[e])
  BY <1>1, <1>6, AllSurvive DEF Packets
<1>12. PacketOk(g, b, m)
  BY <1>2, <1>7, <1>10, OtherKind
<1>13. DOMAIN net' = Endpoint /\ \A e \in Endpoint : Queue(g, b, net'[e])
  BY <1>2, <1>7, <1>11, <1>12, Answered
<1>14. DOMAIN tesla_ps' = Endpoint /\ \A e \in Endpoint : Kept(g, b, tesla_ps'[e])
  BY <1>2, <1>8, <1>11
<1>15. AcceptedIsPrevious' /\ wrote' \in Nat
  BY <1>8 DEF AcceptedIsPrevious, PacketInv
<1> QED BY <1>2, <1>5, <1>8, <1>9, <1>10, <1>13, <1>14, <1>15, PacketInvFrom

\* The keys of a packet that dtls_write() sends are those of its index.
LEMMA WrittenKeys ==
    ASSUME IInv, K # 0,
           NEW mk \in ReadKey(int_index["C"]), NEW dk \in Disclosed(int_index["C"])
    PROVE  /\ mk[1] # 0 => mk[1] = K /\ mk[2] = int_index["C"]
           /\ dk[1] # 0 => dk[1] = K /\ dk[2] = int_index["C"] - 1
<1> DEFINE t == int_index["C"]
<1>1. t \in Nat /\ K \in Nat /\ tsync["C"] = K
  BY DEF IInv, Types, BelowIndex, Endpoint
<1>2. mk[1] # 0 => mk[1] = K /\ mk[2] = t
  <2>1. CASE t < ChainLen
    BY <2>1, <1>1 DEF ReadKey
  <2>2. CASE ~(t < ChainLen)
    BY <2>2, PacketKeys DEF ReadKey
  <2> QED BY <2>1, <2>2
<1>3. dk[1] # 0 => dk[1] = K /\ dk[2] = t - 1
  <2>1. CASE t = 0
    <3>1. dk = <<tsync["C"], -1>>
      BY <2>1 DEF Disclosed
    <3> QED BY <3>1, <2>1, <1>1
  <2>2. CASE t # 0 /\ t - 1 < ChainLen
    <3>1. dk = <<K, t - 1>>
      BY <2>2 DEF Disclosed, ReadKey
    <3> QED BY <3>1, <1>1
  <2>3. CASE t # 0 /\ ~(t - 1 < ChainLen)
    <3>1. dk \in {0} \X {0, 1}
      BY <2>3 DEF Disclosed, ReadKey
    <3> QED BY <3>1
  <2> QED BY <2>1, <2>2, <2>3
<1> QED BY <1>2, <1>3

LEMMA PacketWrite == ASSUME IInv, PacketInv, dtls_write PROVE PacketInv'
<1>1. PICK f \in [Nat -> Int] : Packets(f)
  BY DEF PacketInv
<1>2. /\ DOMAIN net = Endpoint /\ DOMAIN tesla_ps = Endpoint
      /\ \A e \in Endpoint : Queue(f, ctx, net[e]) /\ Kept(f, ctx, tesla_ps[e])
  BY <1>1 DEF Packets, PacketInv
<1> DEFINE t == int_index["C"]
<1>3. K # 0 /\ K \in 1..chains /\ f[K] = wrote + 1 - t
  <2>1. state["C"] = "connected"
    BY DEF dtls_write
  <2>2. K # 0
    BY <2>1 DEF PacketInv
  <2> QED BY <1>1, <2>2 DEF Packets, IInv, Types
<1>4. /\ wrote \in Nat /\ t \in Nat /\ int_index \in [Endpoint -> Nat] /\ "S" \in Endpoint
      /\ ses["C"] \in Nat
  BY DEF IInv, Types, PacketInv, Endpoint
<1>5. PICK len \in Lens, mk \in ReadKey(t), dk \in Disclosed(t) :
          Send("S", [kind |-> "APP", ses |-> ses["C"], n |-> wrote + 1,
                     index |-> t, len |-> len, key |-> dk, mac |-> mk])
  BY DEF dtls_write
<1> DEFINE m == [kind |-> "APP", ses |-> ses["C"], n |-> wrote + 1,
                 index |-> t, len |-> len, key |-> dk, mac |-> mk]
<1>6. /\ m.kind = "APP" /\ m.ses = ses["C"] /\ m.n = wrote + 1 /\ m.index = t
      /\ m.key = dk /\ m.mac = mk /\ Send("S", m)
  BY <1>5
<1>7. /\ K' = K /\ chains' = chains /\ wrote' = wrote + 1 /\ last' = last
      /\ tesla_ps' = tesla_ps /\ int_index' = [int_index EXCEPT !["C"] = t + 1]
      /\ ses' = ses /\ state' = state
  BY DEF dtls_write
<1>8. int_index'["C"] = t + 1 /\ ctx' = ctx
  BY <1>4, <1>7 DEF Endpoint, ctx
<1>9. /\ mk[1] # 0 => mk[1] = K /\ mk[2] = t
      /\ dk[1] # 0 => dk[1] = K /\ dk[2] = t - 1
      /\ mk \in Pair /\ dk \in Pair
  BY <1>3, WrittenKeys, PacketKeys
<1>10. ctx[1] = chains /\ ctx[2] = ses["C"]
  BY DEF ctx
<1> HIDE DEF t, m
<1>11. m.n - m.index = f[K]
  BY <1>3, <1>4, <1>6
<1>12. m.mac[1] # 0 => m.mac[1] \in 1..ctx[1] /\ m.mac[2] = m.index
                       /\ m.n - m.index = f[m.mac[1]]
  BY <1>3, <1>6, <1>9, <1>10, <1>11
<1>13. m.key[1] # 0 => m.key[1] \in 1..ctx[1] /\ m.key[2] = m.index - 1
                       /\ m.n - m.index = f[m.key[1]]
  BY <1>3, <1>6, <1>9, <1>10, <1>11
<1>14. PacketOk(f, ctx, m)
  BY <1>4, <1>6, <1>9, <1>10, <1>12, <1>13 DEF PacketOk
<1>15. DOMAIN net' = Endpoint /\ \A e \in Endpoint : Queue(f, ctx', net'[e])
  BY <1>2, <1>4, <1>6, <1>8, <1>14, Sent
<1>16. DOMAIN tesla_ps' = Endpoint /\ \A e \in Endpoint : Kept(f, ctx', tesla_ps'[e])
  BY <1>2, <1>7, <1>8
<1>17. AcceptedIsPrevious' /\ wrote' \in Nat
  BY <1>4, <1>7 DEF AcceptedIsPrevious, PacketInv
<1>18. K' # 0 => f[K'] = wrote' + 1 - int_index'["C"]
  BY <1>3, <1>4, <1>7, <1>8
<1>19. ses' \in [Endpoint -> Nat] /\ DOMAIN state' = Endpoint /\ K' # 0
  BY <1>3, <1>7 DEF PacketInv
<1> QED BY <1>15, <1>16, <1>17, <1>18, <1>19, PacketInvFrom

LEMMA PacketReceive ==
    ASSUME IInv, PacketInv, NEW e \in Endpoint, Receive(e) PROVE PacketInv'
<1>1. PICK f \in [Nat -> Int] : Packets(f)
  BY DEF PacketInv
<1>2. DOMAIN net = Endpoint /\ DOMAIN tesla_ps = Endpoint
      /\ \A x \in Endpoint : Queue(f, ctx, net[x]) /\ Kept(f, ctx, tesla_ps[x])
  BY <1>1 DEF Packets, PacketInv
<1> DEFINE m == Head(net[e])
           s == tesla_ps[e]
           t == int_index[e]
<1>3. net[e] # <<>> /\ m.kind = "APP"
  BY DEF Receive, Arrives
<1>4. PacketOk(f, ctx, m)
  BY <1>2, <1>3, QueueTail
<1>5. Kept(f, ctx, s)
  BY <1>2
<1>6. /\ last' = [to |-> e, pkt |-> m, stored |-> s, t |-> t,
                  ok |-> t = 0 \/ MacMatches(s, m)]
      /\ tesla_ps' = [tesla_ps EXCEPT ![e] = m]
      /\ K' = K /\ chains' = chains /\ wrote' = wrote /\ ses' = ses /\ state' = state
  BY DEF Receive
<1>7. /\ UNCHANGED int_index \/ int_index' = [int_index EXCEPT !["S"] = @ + 1]
      /\ Answer(e, m) \/ net' = [net EXCEPT ![e] = Tail(@)]
  BY DEF Receive
<1>8. int_index'["C"] = int_index["C"] /\ ctx' = ctx
  BY <1>6, <1>7 DEF IInv, Types, Endpoint, ctx
<1>9. t \in Nat
  BY DEF IInv, Types
<1> HIDE DEF m, s, t
<1>10. AcceptedIsPrevious'
  <2>1. last'.t = t /\ last'.stored = s /\ last'.pkt = m
        /\ (last'.ok <=> t = 0 \/ MacMatches(s, m))
    BY <1>6
  <2>2. ASSUME t > 0, MacMatches(s, m), s.mac[1] # 0 PROVE s.n = m.n - 1
    BY <1>3, <1>4, <1>5, <2>2, CheckIsPrevious
  <2>3. last'.t > 0 /\ last'.ok => s.mac[1] = 0 \/ s.n = m.n - 1
    BY <1>9, <2>1, <2>2
  <2> QED BY <2>1, <2>3 DEF AcceptedIsPrevious
<1>11. DOMAIN net' = Endpoint /\ \A x \in Endpoint : Queue(f, ctx', net'[x])
  BY <1>2, <1>3, <1>4, <1>7, <1>8, Answered, Taken
<1>12. Kept(f, ctx, m)
  BY <1>3, <1>4 DEF Kept
<1>13. DOMAIN tesla_ps' = Endpoint /\ \A x \in Endpoint : Kept(f, ctx', tesla_ps'[x])
  BY <1>2, <1>6, <1>8, <1>12
<1>14. K' # 0 => f[K'] = wrote' + 1 - int_index'["C"]
  BY <1>1, <1>6, <1>8 DEF Packets
<1>15. /\ wrote' \in Nat /\ ses' \in [Endpoint -> Nat] /\ DOMAIN state' = Endpoint
       /\ state'["C"] = "connected" => K' # 0
  BY <1>6 DEF PacketInv
<1> QED BY <1>10, <1>11, <1>13, <1>14, <1>15, PacketInvFrom

\* The network moves packets about and makes none.
LEMMA PacketFault ==
    ASSUME IInv, PacketInv, NEW e \in Endpoint, Fault(e) PROVE PacketInv'
<1>1. /\ DOMAIN net = Endpoint /\ DOMAIN tesla_ps = Endpoint /\ DOMAIN state = Endpoint
      /\ ses \in [Endpoint -> Nat] /\ (state["C"] = "connected" => K # 0)
  BY DEF PacketInv
<1>2. PICK i \in 1..Len(net[e]) :
          \/ net' = [net EXCEPT ![e] = RemoveAt(@, i)]
          \/ net' = [net EXCEPT ![e] = Append(@, net[e][i])]
          \/ net' = [net EXCEPT ![e] = Append(RemoveAt(@, i), net[e][i])]
  BY DEF Fault
<1>3. UNCHANGED counts /\ UNCHANGED <<tesla_ps, ses, state>>
  BY DEF Fault, counts
<1>4. ASSUME NEW f, \A x \in Endpoint : Queue(f, ctx, net[x])
      PROVE  DOMAIN net' = Endpoint /\ \A x \in Endpoint : Queue(f, ctx, net'[x])
  <2>1. PacketOk(f, ctx, net[e][i]) /\ Queue(f, ctx, RemoveAt(net[e], i))
    BY <1>4, QueueRemove
  <2>2. Queue(f, ctx, Append(net[e], net[e][i]))
    BY <1>4, <2>1, QueueAppend
  <2>3. Queue(f, ctx, Append(RemoveAt(net[e], i), net[e][i]))
    BY <2>1, QueueAppend
  <2>4. PICK q : net' = [net EXCEPT ![e] = q] /\ Queue(f, ctx, q)
    BY <1>2, <2>1, <2>2, <2>3
  <2> QED BY <1>1, <1>4, <2>4
<1> QED BY <1>1, <1>3, <1>4, QuietKeeps

LEMMA PacketStep == IInv /\ PacketInv /\ [TeslaNext]_teslavars => PacketInv'
    BY PacketConnect, PacketKeyExchange, PacketWrite, PacketReceive, PacketFault,
       HelloKeeps, HandshakeKeeps DEF TeslaNext


\* Whatever the network loses, duplicates or reorders, a stored packet whose
\* check in dtls_handle_message() succeeds is the one its sender wrote just
\* before the packet that disclosed the key: for every chain length, any number
\* of packets, key exchanges and reconnections; unless the MAC of the stored
\* packet was made with what lies behind the chain.
THEOREM AcceptedAuthentic == TeslaSpec => []AcceptedIsPrevious
<1>1. IInv /\ PacketInv => AcceptedIsPrevious
  BY DEF PacketInv
<1>2. TeslaInit => IInv /\ PacketInv
  BY InitEstablishes, PacketInitially
<1>3. IInv /\ PacketInv /\ [TeslaNext]_teslavars => IInv' /\ PacketInv'
  BY StepKeeps, PacketStep
<1> QED BY <1>1, <1>2, <1>3, PTL DEF TeslaSpec

-----------------------------------------------------------------------------
(* The order of the packets while the network keeps it                     *)

\* Message m takes the server from packet a of connection y to b of z.
Takes(m, a, y, b, z) ==
    /\ m.kind = "APP" => m.n = b /\ b = a + 1
    /\ m.kind # "APP" => b = a
    /\ m.ses = z
    /\ (m.kind = "HELLO" /\ m.fresh) \/ z = y

InOrder(g, h, q) == \A i \in 1..Len(q) : Takes(q[i], g[i - 1], h[i - 1], g[i], h[i])

\* So do the messages of the queue q, one after the other.
Ordered(q, a, y, b, z) ==
    \E g, h \in [Nat -> Int] :
        /\ InOrder(g, h, q)
        /\ g[0] = a /\ h[0] = y /\ g[Len(q)] = b /\ h[Len(q)] = z

\* What is under way leads from what the server took to what the client sent.
Fifo(a) ==
    /\ Ordered(net["S"], a, ses["S"], wrote, ses["C"])
    /\ tesla_ps["S"] # NoPacket => tesla_ps["S"].n = a

FifoInv ==
    /\ faults \in Nat
    /\ int_index["S"] > 0 => tesla_ps["S"] # NoPacket
    /\ faults = 0 => \E a \in Int : Fifo(a)
    /\ StoreInStep

LEMMA OrderedAppend ==
    ASSUME NEW T, NEW q \in Seq(T), NEW a, NEW y, NEW b, NEW z, Ordered(q, a, y, b, z),
           NEW m, NEW d \in Int, NEW x \in Int, Takes(m, b, z, d, x)
    PROVE  Ordered(Append(q, m), a, y, d, x)
<1>0. PICK g \in [Nat -> Int], h \in [Nat -> Int] :
           /\ InOrder(g, h, q)
           /\ g[0] = a /\ h[0] = y /\ g[Len(q)] = b /\ h[Len(q)] = z
  BY DEF Ordered
<1> DEFINE r == Append(q, m)
           k == Len(q) + 1
           g2 == [g EXCEPT ![k] = d]
           h2 == [h EXCEPT ![k] = x]
<1>1. k \in Nat /\ Len(q) \in Nat /\ Len(q) = k - 1 /\ k # 0
  BY LenProperties
<1>2. g2 \in [Nat -> Int] /\ h2 \in [Nat -> Int]
  BY <1>1
<1>3. g2[k] = d /\ h2[k] = x /\ \A i \in Nat : i # k => g2[i] = g[i] /\ h2[i] = h[i]
  BY <1>1
<1>4. Len(r) = k /\ r[k] = m /\ \A i \in 1..Len(q) : r[i] = q[i]
  <2>1. q \in Seq(T \cup {m}) /\ m \in T \cup {m}
    BY SeqMonotonic
  <2> QED BY <2>1, AppendProperties
<1> HIDE DEF r, k, g2, h2
<1>5. ASSUME NEW i \in 1..k PROVE Takes(r[i], g2[i - 1], h2[i - 1], g2[i], h2[i])
  <2>1. CASE i = k
    <3>1. g2[k - 1] = g[Len(q)] /\ h2[k - 1] = h[Len(q)]
      BY <1>1, <1>3
    <3> QED BY <2>1, <1>0, <1>3, <1>4, <3>1
  <2>2. CASE i # k
    <3>1. i \in 1..Len(q) /\ i - 1 \in Nat /\ i \in Nat /\ i - 1 # k
      BY <2>2, <1>1
    <3>2. g2[i] = g[i] /\ h2[i] = h[i] /\ g2[i - 1] = g[i - 1] /\ h2[i - 1] = h[i - 1]
      BY <3>1, <2>2, <1>3
    <3>3. Takes(q[i], g[i - 1], h[i - 1], g[i], h[i]) /\ r[i] = q[i]
      BY <3>1, <1>0, <1>4 DEF InOrder
    <3> QED BY <3>2, <3>3
  <2> QED BY <2>1, <2>2
<1>6. InOrder(g2, h2, r)
  BY <1>4, <1>5 DEF InOrder
<1>7. g2[0] = g[0] /\ h2[0] = h[0]
  BY <1>1, <1>3
<1>8. Ordered(r, a, y, d, x)
  BY <1>0, <1>2, <1>3, <1>4, <1>6, <1>7 DEF Ordered
<1> QED BY <1>8 DEF r

LEMMA OrderedTail ==
    ASSUME NEW T, NEW q \in Seq(T), NEW a, NEW y, NEW b, NEW z, Ordered(q, a, y, b, z),
           q # <<>>
    PROVE  \E d, x \in Int : Takes(Head(q), a, y, d, x) /\ Ordered(Tail(q), d, x, b, z)
<1>0. PICK g \in [Nat -> Int], h \in [Nat -> Int] :
           /\ InOrder(g, h, q)
           /\ g[0] = a /\ h[0] = y /\ g[Len(q)] = b /\ h[Len(q)] = z
  BY DEF Ordered
<1> DEFINE r == Tail(q)
           g2 == [i \in Nat |-> g[i + 1]]
           h2 == [i \in Nat |-> h[i + 1]]
<1>1. Len(q) \in Nat /\ Len(q) # 0 /\ Head(q) = q[1] /\ Len(r) = Len(q) - 1
      /\ \A i \in 1..Len(r) : r[i] = q[i + 1]
  BY HeadTailProperties, EmptySeq, LenProperties
<1>2. g2 \in [Nat -> Int] /\ h2 \in [Nat -> Int]
      /\ \A i \in Nat : g2[i] = g[i + 1] /\ h2[i] = h[i + 1]
  OBVIOUS
<1> HIDE DEF r, g2, h2
<1>3. Takes(Head(q), a, y, g[1], h[1])
  <2>1. Takes(q[1], g[1 - 1], h[1 - 1], g[1], h[1])
    BY <1>0, <1>1 DEF InOrder
  <2>2. 1 - 1 = 0
    OBVIOUS
  <2> QED BY <2>1, <2>2, <1>0, <1>1
<1>4. ASSUME NEW i \in 1..Len(r) PROVE Takes(r[i], g2[i - 1], h2[i - 1], g2[i], h2[i])
  <2>1. i \in Nat /\ i - 1 \in Nat /\ i + 1 \in 1..Len(q) /\ (i - 1) + 1 = i /\ (i + 1) - 1 = i
    BY <1>1
  <2>2. g2[i] = g[i + 1] /\ h2[i] = h[i + 1] /\ g2[i - 1] = g[i] /\ h2[i - 1] = h[i]
    BY <2>1, <1>2
  <2>3. Takes(q[i + 1], g[(i + 1) - 1], h[(i + 1) - 1], g[i + 1], h[i + 1])
    BY <2>1, <1>0 DEF InOrder
  <2> QED BY <2>1, <2>2, <2>3, <1>1
<1>5. InOrder(g2, h2, r)
  BY <1>4 DEF InOrder
<1>6. g2[Len(r)] = g[Len(q)] /\ h2[Len(r)] = h[Len(q)] /\ g2[0] = g[1] /\ h2[0] = h[1]
  <2>1. Len(r) \in Nat /\ Len(r) + 1 = Len(q) /\ 0 \in Nat /\ 0 + 1 = 1
    BY <1>1
  <2> QED BY <2>1, <1>2
<1>7. Ordered(r, g[1], h[1], b, z)
  BY <1>0, <1>2, <1>5, <1>6 DEF Ordered
<1>8. g[1] \in Int /\ h[1] \in Int
  OBVIOUS
<1> QED BY <1>3, <1>7, <1>8 DEF r

LEMMA FifoFrom ==
    ASSUME faults' \in Nat, int_index'["S"] > 0 => tesla_ps'["S"] # NoPacket,
           StoreInStep', faults' = 0 => \E a \in Int : Fifo(a)'
    PROVE  FifoInv'
  BY DEF FifoInv

LEMMA FifoInitially == TeslaInit => FifoInv
<1> SUFFICES ASSUME TeslaInit PROVE FifoInv
  OBVIOUS
<1> DEFINE g == [n \in Nat |-> 0]
<1>1. g \in [Nat -> Int] /\ g[0] = 0
  OBVIOUS
<1> HIDE DEF g
<1>2. net["S"] = <<>> /\ Len(net["S"]) = 0
  BY DEF TeslaInit, Endpoint
<1>3. wrote = 0 /\ ses["S"] = 0 /\ ses["C"] = 0 /\ tesla_ps["S"] = NoPacket
      /\ int_index["S"] = 0 /\ faults = 0
  BY DEF TeslaInit, Endpoint
<1>4. InOrder(g, g, net["S"])
  BY <1>2 DEF InOrder
<1>5. Ordered(net["S"], 0, 0, 0, 0)
  BY <1>1, <1>2, <1>4 DEF Ordered
<1>6. Fifo(0)
  BY <1>3, <1>5 DEF Fifo
<1>7. StoreInStep
  BY DEF TeslaInit, NoCheck, StoreInStep
<1> QED BY <1>3, <1>6, <1>7 DEF FifoInv

LEMMA ServerQueue ==
    ASSUME PacketInv PROVE \E T : net["S"] \in Seq(T)
<1>1. "S" \in Endpoint
  BY DEF Endpoint
<1> QED BY <1>1 DEF PacketInv, Packets, Queue

\* What is the server's.
server == <<ses["S"], tesla_ps["S"], int_index["S"]>>

\* A step in which the client sends a message.
LEMMA ClientSends ==
    ASSUME PacketInv, FifoInv, NEW m, net'["S"] = Append(net["S"], m),
           faults' = faults, UNCHANGED server, last' = last, wrote' \in Int, ses'["C"] \in Int,
           Takes(m, wrote, ses["C"], wrote', ses'["C"])
    PROVE  FifoInv'
<1>1. ses'["S"] = ses["S"] /\ tesla_ps'["S"] = tesla_ps["S"] /\ int_index'["S"] = int_index["S"]
  BY DEF server
<1>2. StoreInStep' /\ faults' \in Nat
      /\ (int_index'["S"] > 0 => tesla_ps'["S"] # NoPacket)
  BY <1>1 DEF FifoInv, StoreInStep
<1>3. ASSUME faults' = 0 PROVE \E a \in Int : Fifo(a)'
  <2>1. PICK a \in Int : Fifo(a)
    BY <1>3 DEF FifoInv
  <2>2. PICK T : net["S"] \in Seq(T)
    BY ServerQueue
  <2>3. Ordered(Append(net["S"], m), a, ses["S"], wrote', ses'["C"])
    BY <2>1, <2>2, OrderedAppend DEF Fifo
  <2>4. Fifo(a)'
    BY <1>1, <2>1, <2>3 DEF Fifo
  <2> QED BY <2>4
<1> QED BY <1>2, <1>3, FifoFrom

\* In order, the message the server is to take is of its connection or opens
\* the next one, and a packet is the one after the stored packet.
LEMMA FirstInOrder ==
    ASSUME PacketInv, FifoInv, faults = 0, net["S"] # <<>>
    PROVE  LET m == Head(net["S"])
           IN  /\ m.ses = ses["S"] \/ (m.kind = "HELLO" /\ m.fresh)
               /\ m.kind = "APP" /\ tesla_ps["S"] # NoPacket => m.n = tesla_ps["S"].n + 1
<1>1. PICK a \in Int : Fifo(a)
  BY DEF FifoInv
<1>2. PICK T : net["S"] \in Seq(T)
  BY ServerQueue
<1>3. PICK d \in Int, x \in Int : Takes(Head(net["S"]), a, ses["S"], d, x)
  BY <1>1, <1>2, OrderedTail DEF Fifo
<1>4. tesla_ps["S"] # NoPacket => tesla_ps["S"].n = a
  BY <1>1 DEF Fifo
<1> QED BY <1>3, <1>4 DEF Takes

\* A step in which the server takes a message.
LEMMA ServerTakes ==
    ASSUME PacketInv, FifoInv, net["S"] # <<>>, net'["S"] = Tail(net["S"]),
           faults' = faults, wrote' = wrote, ses'["C"] = ses["C"],
           faults = 0 => ses'["S"] = Head(net["S"]).ses,
           Head(net["S"]).kind = "APP" => tesla_ps'["S"] = Head(net["S"]),
           Head(net["S"]).kind # "APP" => tesla_ps'["S"] \in {tesla_ps["S"], NoPacket},
           int_index'["S"] > 0 => tesla_ps'["S"] # NoPacket,
           StoreInStep'
    PROVE  FifoInv'
<1>1. faults' \in Nat
  BY DEF FifoInv
<1>2. ASSUME faults' = 0 PROVE \E a \in Int : Fifo(a)'
  <2>1. PICK a \in Int : Fifo(a)
    BY <1>2 DEF FifoInv
  <2>2. PICK T : net["S"] \in Seq(T)
    BY ServerQueue
  <2>3. PICK d \in Int, x \in Int :
            /\ Takes(Head(net["S"]), a, ses["S"], d, x)
            /\ Ordered(Tail(net["S"]), d, x, wrote, ses["C"])
    BY <2>1, <2>2, OrderedTail DEF Fifo
  <2>4. x = ses'["S"]
    BY <1>2, <2>3 DEF Takes
  <2>5. tesla_ps'["S"] # NoPacket => tesla_ps'["S"].n = d
    BY <2>1, <2>3 DEF Fifo, Takes
  <2>6. Fifo(d)'
    BY <2>3, <2>4, <2>5 DEF Fifo
  <2> QED BY <2>6
<1> QED BY <1>1, <1>2, FifoFrom

\* A step that does not touch the packets for the server.
LEMMA AsideKeeps ==
    ASSUME FifoInv, net'["S"] = net["S"], faults' = faults, wrote' = wrote,
           ses'["C"] = ses["C"], UNCHANGED server, StoreInStep'
    PROVE  FifoInv'
<1>1. ses'["S"] = ses["S"] /\ tesla_ps'["S"] = tesla_ps["S"] /\ int_index'["S"] = int_index["S"]
  BY DEF server
<1>2. ASSUME NEW a \in Int, Fifo(a) PROVE Fifo(a)'
  BY <1>1, <1>2 DEF Fifo
<1> QED BY <1>1, <1>2, FifoFrom DEF FifoInv

\* After a fault nothing is said of the order.
LEMMA FaultKeeps ==
    ASSUME FifoInv, faults' \in Nat, faults' # 0, UNCHANGED server
    PROVE  FifoInv'
<1>1. tesla_ps'["S"] = tesla_ps["S"] /\ int_index'["S"] = int_index["S"]
  BY DEF server
<1>2. StoreInStep'
  BY DEF StoreInStep
<1> QED BY <1>1, <1>2, FifoFrom DEF FifoInv


\* The steps in which the client sends to the server.
LEMMA FifoSends ==
    ASSUME IInv, PacketInv, FifoInv, dtls_connect \/ dtls_renegotiate \/ SendKeyExchange \/ dtls_write
    PROVE  FifoInv'
<1>1. /\ ses \in [Endpoint -> Nat] /\ ses["C"] \in Nat /\ wrote \in Nat
      /\ DOMAIN net = Endpoint /\ DOMAIN tesla_ps = Endpoint
      /\ int_index \in [Endpoint -> Nat]
      /\ "S" \in Endpoint /\ "C" \in Endpoint /\ Other("C") = "S"
  BY DEF PacketInv, IInv, Types, Endpoint, Other
<1>2. CASE dtls_connect
  <2> DEFINE m == [kind |-> "HELLO", fresh |-> TRUE, ses |-> ses["C"] + 1]
  <2>1. Send("S", m) /\ m.kind = "HELLO" /\ m.fresh /\ m.ses = ses["C"] + 1
    BY <1>2 DEF dtls_connect
  <2> HIDE DEF m
  <2>2. /\ faults' = faults /\ last' = last /\ wrote' = wrote
        /\ ses' = [ses EXCEPT !["C"] = ses["C"] + 1]
        /\ int_index' = [int_index EXCEPT !["C"] = 0]
        /\ tesla_ps' = [tesla_ps EXCEPT !["C"] = NoPacket]
    BY <1>2 DEF dtls_connect, dtls_new_peer, history
  <2>3. UNCHANGED server /\ ses'["C"] = ses["C"] + 1
    BY <1>1, <2>2 DEF server
  <2>4. net'["S"] = Append(net["S"], m)
    BY <1>1, <2>1 DEF Send
  <2>5. Takes(m, wrote, ses["C"], wrote', ses'["C"]) /\ ses'["C"] \in Int /\ wrote' \in Int
    BY <1>1, <2>1, <2>2, <2>3 DEF Takes
  <2> QED BY <2>2, <2>3, <2>4, <2>5, ClientSends
<1>3. CASE dtls_renegotiate
  <2> DEFINE m == [kind |-> "HELLO", fresh |-> FALSE, ses |-> ses["C"]]
  <2>1. Send("S", m) /\ m.kind = "HELLO" /\ m.ses = ses["C"]
    BY <1>3 DEF dtls_renegotiate
  <2> HIDE DEF m
  <2>2. /\ faults' = faults /\ last' = last /\ wrote' = wrote /\ ses' = ses
        /\ int_index' = int_index /\ tesla_ps' = tesla_ps
    BY <1>3 DEF dtls_renegotiate, history
  <2>3. UNCHANGED server
    BY <2>2 DEF server
  <2>4. net'["S"] = Append(net["S"], m)
    BY <1>1, <2>1 DEF Send
  <2>5. Takes(m, wrote, ses["C"], wrote', ses'["C"]) /\ ses'["C"] \in Int /\ wrote' \in Int
    BY <1>1, <2>1, <2>2 DEF Takes
  <2> QED BY <2>2, <2>3, <2>4, <2>5, ClientSends
<1>4. CASE SendKeyExchange
  <2> DEFINE m == [kind |-> "KX", chain |-> chains + 1, ses |-> ses["C"]]
  <2>1. Answer("C", m) /\ m.kind = "KX" /\ m.ses = ses["C"]
    BY <1>4 DEF SendKeyExchange
  <2> HIDE DEF m
  <2>2. /\ faults' = faults /\ last' = last /\ wrote' = wrote /\ ses' = ses
        /\ int_index' = int_index /\ tesla_ps' = tesla_ps
    BY <1>4 DEF SendKeyExchange
  <2>3. UNCHANGED server
    BY <2>2 DEF server
  <2>4. net'["S"] = Append(net["S"], m)
    BY <1>1, <2>1 DEF Answer
  <2>5. Takes(m, wrote, ses["C"], wrote', ses'["C"]) /\ ses'["C"] \in Int /\ wrote' \in Int
    BY <1>1, <2>1, <2>2 DEF Takes
  <2> QED BY <2>2, <2>3, <2>4, <2>5, ClientSends
<1>5. CASE dtls_write
  <2>1. PICK m : Send("S", m) /\ m.kind = "APP" /\ m.ses = ses["C"] /\ m.n = wrote + 1
    BY <1>5 DEF dtls_write
  <2>2. /\ faults' = faults /\ last' = last /\ wrote' = wrote + 1 /\ ses' = ses
        /\ int_index' = [int_index EXCEPT !["C"] = @ + 1] /\ tesla_ps' = tesla_ps
    BY <1>5 DEF dtls_write
  <2>3. UNCHANGED server
    BY <1>1, <2>2 DEF server
  <2>4. net'["S"] = Append(net["S"], m)
    BY <1>1, <2>1 DEF Send
  <2>5. Takes(m, wrote, ses["C"], wrote', ses'["C"]) /\ ses'["C"] \in Int /\ wrote' \in Int
    BY <1>1, <2>1, <2>2 DEF Takes
  <2> QED BY <2>2, <2>3, <2>4, <2>5, ClientSends
<1> QED BY <1>2, <1>3, <1>4, <1>5

\* The steps in which the server takes a message of the handshake.
LEMMA FifoHandshake ==
    ASSUME IInv, PacketInv, FifoInv, AcceptHello \/ AcceptKeyExchange
    PROVE  FifoInv'
<1>1. /\ ses \in [Endpoint -> Nat] /\ DOMAIN net = Endpoint /\ DOMAIN tesla_ps = Endpoint
      /\ int_index \in [Endpoint -> Nat]
      /\ "S" \in Endpoint /\ "C" \in Endpoint /\ Other("S") = "C"
  BY DEF PacketInv, IInv, Types, Endpoint, Other
<1> DEFINE m == Head(net["S"])
<1>2. net["S"] # <<>> /\ m.kind # "APP"
  BY DEF AcceptHello, AcceptKeyExchange, Arrives
<1>3. \E a : Answer("S", a)
  BY DEF AcceptHello, AcceptKeyExchange
<1>4. net'["S"] = Tail(net["S"])
  BY <1>1, <1>3 DEF Answer
<1>5. faults' = faults /\ wrote' = wrote /\ last' = last
  BY DEF AcceptHello, AcceptKeyExchange, history
<1>6. \/ UNCHANGED <<ses, int_index, tesla_ps>>
      \/ /\ int_index' = [int_index EXCEPT !["S"] = 0]
         /\ ses' = [ses EXCEPT !["S"] = m.ses]
         /\ tesla_ps' = [tesla_ps EXCEPT !["S"] = NoPacket]
  BY DEF AcceptHello, AcceptKeyExchange, dtls_new_peer
<1>7. StoreInStep'
  BY <1>5 DEF FifoInv, StoreInStep
<1>8. CASE UNCHANGED <<ses, int_index, tesla_ps>>
  <2>1. faults = 0 => ses'["S"] = m.ses
    <3>1. CASE m.ses = ses["S"]
      BY <1>8, <3>1
    <3>2. CASE faults = 0 /\ m.ses # ses["S"]
      <4>1. m.kind = "HELLO" /\ m.fresh
        BY <1>2, <3>2, FirstInOrder
      <4>2. AcceptHello
        BY <4>1 DEF AcceptKeyExchange, Arrives
      <4>3. ses' = [ses EXCEPT !["S"] = m.ses]
        BY <4>1, <4>2 DEF AcceptHello, dtls_new_peer
      <4> QED BY <1>1, <4>3
    <3> QED BY <3>1, <3>2
  <2>2. int_index'["S"] > 0 => tesla_ps'["S"] # NoPacket
    BY <1>8 DEF FifoInv
  <2> QED BY <1>2, <1>4, <1>5, <1>7, <1>8, <2>1, <2>2, ServerTakes
<1>9. CASE /\ int_index' = [int_index EXCEPT !["S"] = 0]
           /\ ses' = [ses EXCEPT !["S"] = m.ses]
           /\ tesla_ps' = [tesla_ps EXCEPT !["S"] = NoPacket]
  <2>1. ses'["S"] = m.ses /\ ses'["C"] = ses["C"] /\ tesla_ps'["S"] = NoPacket
        /\ int_index'["S"] = 0
    BY <1>1, <1>9
  <2> QED BY <1>2, <1>4, <1>5, <1>7, <2>1, ServerTakes
<1> QED BY <1>6, <1>8, <1>9

\* dtls_handle_message() of the server with a packet.
LEMMA FifoReceive == ASSUME IInv, PacketInv, FifoInv, Receive("S") PROVE FifoInv'
<1>1. /\ DOMAIN net = Endpoint /\ DOMAIN tesla_ps = Endpoint
      /\ int_index \in [Endpoint -> Nat]
      /\ "S" \in Endpoint /\ "C" \in Endpoint /\ Other("S") = "C"
  BY DEF PacketInv, IInv, Types, Endpoint, Other
<1> DEFINE m == Head(net["S"])
           s == tesla_ps["S"]
           t == int_index["S"]
<1>2. net["S"] # <<>> /\ m.kind = "APP" /\ m.ses = ses["S"]
  BY DEF Receive, Arrives
<1>3. /\ last' = [to |-> "S", pkt |-> m, stored |-> s, t |-> t,
                  ok |-> t = 0 \/ MacMatches(s, m)]
      /\ tesla_ps' = [tesla_ps EXCEPT !["S"] = m]
      /\ wrote' = wrote /\ ses' = ses /\ faults' = faults
  BY DEF Receive
<1>4. net'["S"] = Tail(net["S"])
  <2>1. Answer("S", m) \/ net' = [net EXCEPT !["S"] = Tail(@)]
    BY DEF Receive
  <2> QED BY <1>1, <2>1 DEF Answer
<1>5. PICK f \in [Nat -> Int] : Packets(f)
  BY DEF PacketInv
<1>6. Kept(f, ctx, s) /\ PacketOk(f, ctx, m)
  BY <1>1, <1>2, <1>5, QueueTail DEF Packets
<1>7. t \in Nat /\ (t > 0 => s # NoPacket) /\ m # NoPacket
  BY <1>1, <1>2 DEF FifoInv, NoPacket
<1>8. faults = 0 /\ s # NoPacket => m.n = s.n + 1
  BY <1>2, FirstInOrder
<1>9. tesla_ps'["S"] = m
  BY <1>1, <1>3
<1>10. StoreInStep'
  <2> HIDE DEF m, s, t
  <2>1. last'.to = "S" /\ last'.t = t /\ last'.stored = s /\ last'.pkt = m
        /\ (last'.ok <=> t = 0 \/ MacMatches(s, m))
    BY <1>3
  <2> SUFFICES ASSUME faults = 0, t > 0
               PROVE  /\ s # NoPacket /\ s.n = m.n - 1
                      /\ s.mac[1] # 0 /\ s.mac[1] = m.key[1] =>
                             m.key = s.mac /\ (s.len = m.len => MacMatches(s, m))
    BY <1>3, <1>7, <2>1 DEF StoreInStep
  <2>2. s # NoPacket
    BY <1>7
  <2>3. /\ s.n \in Int /\ s.index \in Nat /\ s.mac \in Pair
        /\ s.mac[1] # 0 => s.mac[2] = s.index /\ s.n - s.index = f[s.mac[1]]
    BY <1>6, <2>2 DEF Kept, PacketOk
  <2>4. /\ m.n \in Int /\ m.index \in Nat /\ m.key \in Pair
        /\ m.key[1] # 0 => m.key[2] = m.index - 1 /\ m.n - m.index = f[m.key[1]]
    BY <1>2, <1>6 DEF PacketOk
  <2>5. s.n = m.n - 1
    BY <1>8, <2>2, <2>3, <2>4
  <2>6. ASSUME s.mac[1] # 0, s.mac[1] = m.key[1] PROVE s.mac = m.key
    <3>1. s.index = m.index - 1
      BY <2>3, <2>4, <2>5, <2>6
    <3>2. s.mac[2] = m.key[2]
      BY <2>3, <2>4, <2>6, <3>1
    <3> QED BY <2>3, <2>4, <2>6, <3>2 DEF Pair
  <2> QED BY <2>2, <2>5, <2>6 DEF MacMatches
<1> QED BY <1>2, <1>3, <1>4, <1>7, <1>9, <1>10, ServerTakes

\* The steps that take nothing from the server's queue in order.
LEMMA FifoAside ==
    ASSUME IInv, PacketInv, FifoInv,
           \/ ClientRestart \/ AcceptFinished \/ DropStale("C") \/ Receive("C")
           \/ UNCHANGED teslavars
    PROVE  FifoInv'
<1>1. /\ DOMAIN net = Endpoint /\ DOMAIN tesla_ps = Endpoint
      /\ "S" \in Endpoint /\ "C" \in Endpoint
  BY DEF PacketInv, Endpoint
<1>2. CASE \/ ClientRestart \/ AcceptFinished \/ DropStale("C") \/ UNCHANGED teslavars
  <2>1. net' = net \/ net' = [net EXCEPT !["C"] = Tail(@)]
    BY <1>2 DEF ClientRestart, AcceptFinished, DropStale, teslavars
  <2>2. /\ faults' = faults /\ wrote' = wrote /\ last' = last /\ ses' = ses
        /\ UNCHANGED server
    BY <1>2 DEF ClientRestart, AcceptFinished, DropStale, teslavars, history, server
  <2>3. StoreInStep'
    BY <2>2 DEF FifoInv, StoreInStep
  <2> QED BY <1>1, <2>1, <2>2, <2>3, AsideKeeps
<1>3. CASE Receive("C")
  <2>1. /\ net' = [net EXCEPT !["C"] = Tail(@)] /\ int_index' = int_index
        /\ tesla_ps' = [tesla_ps EXCEPT !["C"] = Head(net["C"])]
        /\ faults' = faults /\ wrote' = wrote /\ ses' = ses /\ last'.to = "C"
    BY <1>3 DEF Receive
  <2>2. UNCHANGED server
    BY <1>1, <2>1 DEF server
  <2>3. StoreInStep'
    BY <2>1 DEF StoreInStep
  <2> QED BY <1>1, <2>1, <2>2, <2>3, AsideKeeps
<1> QED BY <1>2, <1>3

LEMMA FifoFaults ==
    ASSUME IInv, PacketInv, FifoInv,
           DropStale("S") \/ \E e \in Endpoint : Fault(e)
    PROVE  FifoInv'
<1>1. CASE \E e \in Endpoint : Fault(e)
  <2>1. faults' = faults + 1 /\ UNCHANGED server
    BY <1>1 DEF Fault, server
  <2>2. faults' \in Nat /\ faults' # 0
    BY <2>1 DEF FifoInv
  <2> QED BY <2>1, <2>2, FaultKeeps
<1>2. CASE DropStale("S")
  <2>1. /\ net["S"] # <<>> /\ Head(net["S"]).kind # "HELLO" /\ Head(net["S"]).ses # ses["S"]
        /\ faults' = faults /\ UNCHANGED server
    BY <1>2 DEF DropStale, history, server
  <2>2. faults # 0
    BY <2>1, FirstInOrder
  <2>3. faults' \in Nat /\ faults' # 0
    BY <2>1, <2>2 DEF FifoInv
  <2> QED BY <2>1, <2>3, FaultKeeps
<1> QED BY <1>1, <1>2

LEMMA FifoStep == IInv /\ PacketInv /\ FifoInv /\ [TeslaNext]_teslavars => FifoInv'
<1>1. \A e \in Endpoint : e = "C" \/ e = "S"
  BY DEF Endpoint
<1> QED BY <1>1, FifoSends, FifoHandshake, FifoReceive, FifoAside, FifoFaults DEF TeslaNext

\* On a network that keeps order, the packet that the server checks is the one
\* written just before the packet that discloses the key, and if that key is of
\* the stored packet's chain it is the key of the stored packet's MAC, and the
\* check passes for packets of one length: for every chain length, any number of
\* packets, renegotiations and reconnections.
THEOREM StoreStaysInStep == TeslaSpec => []StoreInStep
<1>1. IInv /\ PacketInv /\ FifoInv => StoreInStep
  BY DEF FifoInv
<1>2. TeslaInit => IInv /\ PacketInv /\ FifoInv
  BY InitEstablishes, PacketInitially, FifoInitially
<1>3. IInv /\ PacketInv /\ FifoInv /\ [TeslaNext]_teslavars => IInv' /\ PacketInv' /\ FifoInv'
  BY StepKeeps, PacketStep, FifoStep
<1> QED BY <1>1, <1>2, <1>3, PTL DEF TeslaSpec
=============================================================================
