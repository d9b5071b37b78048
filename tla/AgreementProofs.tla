-------------------------- MODULE AgreementProofs --------------------------
(***************************************************************************)
(* The DTLS engine of module Handshake implements SessionAgreement, and    *)
(* what its peers, queues and datagrams have in common with the sessions   *)
(* that were offered, accepted and confirmed; then the numbers of the      *)
(* messages, the reorder buffer and the order of the transcripts.          *)
(***************************************************************************)
EXTENDS HandshakeProofs

\* What a handshake message says is so.  O are the sessions offered, A those
\* accepted: a Finished is the proof of one.
Sound(m, O, A) ==
    /\ m.typ \in {"HREQ", "HVR", "SH", "SKX", "SHD"} => m.dst = "C"
    /\ m.typ \in {"CH", "CKX"} => m.dst = "S"
    /\ m.frag # 0 => m.typ = "CKX"
    /\ m.typ = "FIN" /\ m.dst = "S" =>
          [key |-> <<m.a, m.b>>, hash |-> m.hash \o <<Entry("FIN", m.seq, 0, 0)>>] \in O
    /\ m.typ = "FIN" /\ m.dst = "C" => [key |-> <<m.a, m.b>>, hash |-> m.hash] \in A

\* Application data is sealed under the key of a session its sender completed.
Established(m, A, F) ==
    m.typ = "APP" => m.key \in Keys(IF m.dst = "S" THEN F ELSE A)

\* A handshake message or ChangeCipherSpec, which may be sent again.
Repeatable(m, O, A) == Sound(m, O, A) /\ m.typ # "APP"

\* A client: its random is fresh until it offers a session, and a session that
\* it can still confirm is not confirmed; from the offer on it sends under the
\* key of the session.
ClientInv(p, u, O, F) ==
    /\ p.state \notin {"WAIT_CLIENTHELLO", "WAIT_CLIENTKEYEXCHANGE"}
    /\ p.hs.cr <= u.ch
    /\ p.state \in {"CLIENTHELLO", "WAIT_SERVERHELLODONE"} =>
          \A t \in O : t.key[1] # p.hs.cr
    /\ p.state \in {"CLIENTHELLO", "WAIT_SERVERHELLODONE",
                    "WAIT_CHANGECIPHERSPEC", "WAIT_FINISHED"} =>
          \A t \in F : t.key[1] # p.hs.cr
    /\ p.state \in {"WAIT_CHANGECIPHERSPEC", "WAIT_FINISHED"} => p.sec0.key = Master(p)
    /\ p.state = "CONNECTED" => p.sec0.key \in Keys(F)

\* A server: its random is fresh until it accepts a session; while it waits for
\* a Finished its next parameters are those of the session.
ServerInv(p, u, A) ==
    /\ p.state \notin {"CLIENTHELLO", "WAIT_SERVERHELLODONE"}
    /\ p.hs.sr <= u.sh
    /\ p.state \in {"WAIT_CLIENTKEYEXCHANGE", "WAIT_CHANGECIPHERSPEC", "WAIT_FINISHED"} =>
          \A t \in A : t.key[2] # p.hs.sr
    /\ p.state = "WAIT_FINISHED" =>
          p.sec1.key = Master(p) /\ p.sec1.ep = p.sec0.ep + 1
    /\ p.state = "CONNECTED" => p.sec0.key \in Keys(A)

PeerInv(e, p, u, O, A, F) ==
    /\ p.sec0.ep >= 0
    /\ ~p.live => p.state = "INIT" /\ ~p.hs.on /\ p.hs.early = {}
    /\ \A x \in p.hs.early : x.dst = e /\ Sound(x, O, A)
    /\ e = "C" => ClientInv(p, u, O, F)
    /\ e = "S" => ServerInv(p, u, A)

QueueInv(p, q, O, A) ==
    /\ \A i \in 1..Len(q) : Repeatable(q[i].m, O, A)
    /\ q # <<>> => p.live

NetInv(ms, O, A, F) == \A m \in ms : Sound(m, O, A) /\ Established(m, A, F)

\* The randoms of a session have been drawn.
Counted(u, O, A, F) ==
    /\ \A t \in O \cup F : t.key[1] <= u.ch
    /\ \A t \in A : t.key[2] <= u.sh

\* The inductive invariant of the engine.
EngineInv ==
    /\ \A e \in Endpoint : PeerInv(e, pr[e], used, offered, accepted, confirmed)
    /\ \A e \in Endpoint : QueueInv(pr[e], sq[e], offered, accepted)
    /\ NetInv(net, offered, accepted, confirmed)
    /\ Counted(used, offered, accepted, confirmed)

\* What is left of HandlerTypes and EngineInv when the datagram is taken out
\* and the peer p has decrypted it.
Handling(e, p, m, st, rest) ==
    /\ HandlerTypes /\ EngineInv
    /\ e \in Endpoint /\ p \in PeerRecord /\ m \in MsgRecord
    /\ p.live = pr[e].live
    /\ PeerInv(e, p, used, offered, accepted, confirmed)
    /\ m.dst = e /\ Sound(m, offered, accepted)
    /\ rest \in SUBSET MsgRecord /\ NetInv(rest, offered, accepted, confirmed)
    /\ st \in {p.state, "WAIT_CLIENTHELLO"}
    /\ ~p.live => st = "WAIT_CLIENTHELLO"

\* A step of SessionAgreement, or none.
Agreed == Abstract!Next \/ UNCHANGED hist

\* The histories only grow; the server accepts, the client offers and confirms.
Grown(e) ==
    /\ offered \subseteq offered' /\ accepted \subseteq accepted'
    /\ confirmed \subseteq confirmed'
    /\ e = "S" => offered' = offered /\ confirmed' = confirmed /\ used'.ch = used.ch
    /\ e = "C" => accepted' = accepted /\ used'.sh = used.sh

-----------------------------------------------------------------------------
(* Growing histories *)

LEMMA SoundGrows ==
    ASSUME NEW m, NEW O, NEW A, NEW O2, NEW A2, O \subseteq O2, A \subseteq A2,
           Sound(m, O, A)
    PROVE  Sound(m, O2, A2)
BY DEF Sound

LEMMA KeysGrow ==
    ASSUME NEW S, NEW T, S \subseteq T PROVE Keys(S) \subseteq Keys(T)
BY DEF Keys

LEMMA NetGrows ==
    ASSUME NEW ms, NEW O, NEW A, NEW F, NEW O2, NEW A2, NEW F2,
           O \subseteq O2, A \subseteq A2, F \subseteq F2, NetInv(ms, O, A, F)
    PROVE  NetInv(ms, O2, A2, F2)
<1>1. Keys(A) \subseteq Keys(A2) /\ Keys(F) \subseteq Keys(F2)
  BY KeysGrow
<1> QED BY <1>1, SoundGrows DEF NetInv, Established

LEMMA QueueGrows ==
    ASSUME NEW p, NEW q, NEW O, NEW A, NEW O2, NEW A2,
           O \subseteq O2, A \subseteq A2, QueueInv(p, q, O, A)
    PROVE  QueueInv(p, q, O2, A2)
BY SoundGrows DEF QueueInv, Repeatable

\* The peer of the other endpoint does not notice.
LEMMA OtherPeer ==
    ASSUME NEW e \in Endpoint, NEW f \in Endpoint, f # e, Grown(e),
           NEW p, PeerInv(f, p, used, offered, accepted, confirmed)
    PROVE  PeerInv(f, p, used', offered', accepted', confirmed')
<1>1. \A x \in p.hs.early : x.dst = f /\ Sound(x, offered', accepted')
  BY SoundGrows DEF PeerInv, Grown
<1>2. CASE e = "S"
  <2>1. f = "C" /\ ClientInv(p, used', offered', confirmed')
    BY <1>2 DEF Endpoint, Grown, PeerInv, ClientInv
  <2> QED BY <1>1, <2>1 DEF PeerInv
<1>3. CASE e = "C"
  <2>1. f = "S" /\ ServerInv(p, used', accepted')
    BY <1>3 DEF Endpoint, Grown, PeerInv, ServerInv
  <2> QED BY <1>1, <2>1 DEF PeerInv
<1> QED BY <1>2, <1>3 DEF Endpoint

LEMMA StepInv ==
    ASSUME HandlerTypes, EngineInv, NEW e \in Endpoint, Grown(e),
           NEW p, NEW q, NEW ms, Put(e, p), SetQueue(e, q), net' = ms,
           PeerInv(e, p, used', offered', accepted', confirmed'),
           QueueInv(p, q, offered', accepted'),
           NetInv(ms, offered', accepted', confirmed'),
           Counted(used', offered', accepted', confirmed')
    PROVE  EngineInv'
<1>1. ASSUME NEW f \in Endpoint
      PROVE  PeerInv(f, pr'[f], used', offered', accepted', confirmed')
  <2>1. CASE f = e
    BY <2>1 DEF Put, HandlerTypes
  <2>2. CASE f # e
    <3>1. pr'[f] = pr[f]
      BY <2>2 DEF Put, HandlerTypes
    <3> QED BY <2>2, <3>1, OtherPeer DEF EngineInv
  <2> QED BY <2>1, <2>2
<1>2. ASSUME NEW f \in Endpoint
      PROVE  QueueInv(pr'[f], sq'[f], offered', accepted')
  <2>1. CASE f = e
    BY <2>1 DEF Put, SetQueue, HandlerTypes
  <2>2. CASE f # e
    <3>1. pr'[f] = pr[f] /\ sq'[f] = sq[f]
      BY <2>2 DEF Put, SetQueue, HandlerTypes
    <3> QED BY <3>1, QueueGrows DEF EngineInv, Grown
  <2> QED BY <2>1, <2>2
<1> QED BY <1>1, <1>2 DEF EngineInv

-----------------------------------------------------------------------------
(* What the operators on a peer leave alone *)

\* What PeerInv looks at, but for the state.
SameCore(q, p) ==
    /\ q.live = p.live /\ q.sec0 = p.sec0 /\ q.sec1 = p.sec1
    /\ q.hs.on = p.hs.on /\ q.hs.cr = p.hs.cr /\ q.hs.sr = p.hs.sr

LEMMA HsOps ==
    ASSUME NEW p \in PeerRecord, NEW h \in HsRecord,
           h.on = p.hs.on, h.cr = p.hs.cr, h.sr = p.hs.sr
    PROVE  LET q == [p EXCEPT !.hs = h]
           IN  SameCore(q, p) /\ q.state = p.state /\ q.hs = h
BY DEF PeerRecord, SameCore

LEMMA CoreOps ==
    ASSUME NEW p \in PeerRecord
    PROVE  /\ \A es \in Seq(EntryType) : LET q == Rehashed(p, es) IN
                 /\ SameCore(q, p) /\ q.state = p.state /\ q.hs.early = p.hs.early
                 /\ q.hs.s = p.hs.s /\ q.hs.r = p.hs.r /\ q.hs.hash = es
           /\ \A es \in Seq(EntryType) : LET q == Hashed(p, es) IN
                 /\ SameCore(q, p) /\ q.state = p.state /\ q.hs.early = p.hs.early
                 /\ q.hs.s = p.hs.s /\ q.hs.r = p.hs.r /\ q.hs.hash = p.hs.hash \o es
           /\ \A dr, ds \in Nat : LET q == Advance(p, dr, ds) IN
                 /\ SameCore(q, p) /\ q.state = p.state /\ q.hs.early = p.hs.early
                 /\ q.hs.s = p.hs.s + ds /\ q.hs.r = p.hs.r + dr /\ q.hs.hash = p.hs.hash
           /\ \A b \in BufType : LET q == WithBuf(p, b) IN
                 /\ SameCore(q, p) /\ q.state = p.state /\ q.hs.early = p.hs.early
                 /\ q.hs.s = p.hs.s /\ q.hs.r = p.hs.r /\ q.hs.hash = p.hs.hash
           /\ \A ms \in SUBSET MsgRecord : LET q == WithEarly(p, ms) IN
                 /\ SameCore(q, p) /\ q.state = p.state /\ q.hs.early = ms
                 /\ q.hs.s = p.hs.s /\ q.hs.r = p.hs.r /\ q.hs.hash = p.hs.hash
           /\ \A st \in State : LET q == Enter(p, st) IN
                 /\ SameCore(q, p) /\ q.state = st /\ q.hs = p.hs
<1>1. p.hs \in HsRecord
  BY PeerFields
<1>2. ASSUME NEW es \in Seq(EntryType)
      PROVE  LET q == Rehashed(p, es) IN
                 /\ SameCore(q, p) /\ q.state = p.state /\ q.hs.early = p.hs.early
                 /\ q.hs.s = p.hs.s /\ q.hs.r = p.hs.r /\ q.hs.hash = es
  <2> DEFINE h == [p.hs EXCEPT !.hash = es]
  <2>1. h \in HsRecord /\ h.on = p.hs.on /\ h.cr = p.hs.cr /\ h.sr = p.hs.sr
        /\ h.early = p.hs.early /\ h.s = p.hs.s /\ h.r = p.hs.r /\ h.hash = es
    BY <1>1 DEF HsRecord
  <2> HIDE DEF h
  <2> QED BY <2>1, HsOps DEF Rehashed, h
<1>3. ASSUME NEW es \in Seq(EntryType)
      PROVE  LET q == Hashed(p, es) IN
                 /\ SameCore(q, p) /\ q.state = p.state /\ q.hs.early = p.hs.early
                 /\ q.hs.s = p.hs.s /\ q.hs.r = p.hs.r /\ q.hs.hash = p.hs.hash \o es
  <2>1. p.hs.hash \o es \in Seq(EntryType)
    BY PeerFields, ConcatProperties
  <2> QED BY <2>1, <1>2 DEF Hashed
<1>4. ASSUME NEW dr \in Nat, NEW ds \in Nat
      PROVE  LET q == Advance(p, dr, ds) IN
                 /\ SameCore(q, p) /\ q.state = p.state /\ q.hs.early = p.hs.early
                 /\ q.hs.s = p.hs.s + ds /\ q.hs.r = p.hs.r + dr /\ q.hs.hash = p.hs.hash
  <2> DEFINE h == [p.hs EXCEPT !.r = p.hs.r + dr, !.s = p.hs.s + ds]
  <2>1. p.hs.r + dr \in Nat /\ p.hs.s + ds \in Nat
    BY PeerFields
  <2>2. h \in HsRecord /\ h.on = p.hs.on /\ h.cr = p.hs.cr /\ h.sr = p.hs.sr
        /\ h.early = p.hs.early /\ h.s = p.hs.s + ds /\ h.r = p.hs.r + dr
        /\ h.hash = p.hs.hash
    BY <1>1, <2>1 DEF HsRecord
  <2> HIDE DEF h
  <2> QED BY <2>2, HsOps DEF Advance, h
<1>5. ASSUME NEW b \in BufType
      PROVE  LET q == WithBuf(p, b) IN
                 /\ SameCore(q, p) /\ q.state = p.state /\ q.hs.early = p.hs.early
                 /\ q.hs.s = p.hs.s /\ q.hs.r = p.hs.r /\ q.hs.hash = p.hs.hash
  <2> DEFINE h == [p.hs EXCEPT !.buf = b]
  <2>1. h \in HsRecord /\ h.on = p.hs.on /\ h.cr = p.hs.cr /\ h.sr = p.hs.sr
        /\ h.early = p.hs.early /\ h.s = p.hs.s /\ h.r = p.hs.r /\ h.hash = p.hs.hash
    BY <1>1 DEF HsRecord, BufType
  <2> HIDE DEF h
  <2> QED BY <2>1, HsOps DEF WithBuf, h
<1>6. ASSUME NEW ms \in SUBSET MsgRecord
      PROVE  LET q == WithEarly(p, ms) IN
                 /\ SameCore(q, p) /\ q.state = p.state /\ q.hs.early = ms
                 /\ q.hs.s = p.hs.s /\ q.hs.r = p.hs.r /\ q.hs.hash = p.hs.hash
  <2> DEFINE h == [p.hs EXCEPT !.early = ms]
  <2>1. h \in HsRecord /\ h.on = p.hs.on /\ h.cr = p.hs.cr /\ h.sr = p.hs.sr
        /\ h.early = ms /\ h.s = p.hs.s /\ h.r = p.hs.r /\ h.hash = p.hs.hash
    BY <1>1 DEF HsRecord
  <2> HIDE DEF h
  <2> QED BY <2>1, HsOps DEF WithEarly, h
<1>7. ASSUME NEW st \in State
      PROVE  LET q == Enter(p, st) IN
                 SameCore(q, p) /\ q.state = st /\ q.hs = p.hs
  BY DEF Enter, PeerRecord, SameCore
<1> QED BY <1>2, <1>3, <1>4, <1>5, <1>6, <1>7

\* A peer that keeps its core and state, and stores no new message, stays right.
LEMMA CoreInv ==
    ASSUME NEW e, NEW p, NEW q, NEW u, NEW O, NEW A, NEW F,
           SameCore(q, p), q.state = p.state, q.hs.early \subseteq p.hs.early,
           PeerInv(e, p, u, O, A, F)
    PROVE  PeerInv(e, q, u, O, A, F)
BY DEF SameCore, PeerInv, ClientInv, ServerInv, Master

\* So does one that closes.
LEMMA ClosingInv ==
    ASSUME NEW e, NEW p, NEW q, NEW u, NEW O, NEW A, NEW F,
           SameCore(q, p), p.live, q.state = "CLOSING", q.hs.early \subseteq p.hs.early,
           PeerInv(e, p, u, O, A, F)
    PROVE  PeerInv(e, q, u, O, A, F)
BY DEF SameCore, PeerInv, ClientInv, ServerInv, Master

\* A peer without other parameters, or whose other parameters are older, can do
\* without them.
LEMMA FreeOtherInv ==
    ASSUME NEW e, NEW p \in PeerRecord, NEW m, NEW u, NEW O, NEW A, NEW F,
           PeerInv(e, p, u, O, A, F)
    PROVE  /\ PeerInv(e, AfterOpen(p, m), u, O, A, F)
           /\ AfterOpen(p, m).live = p.live /\ AfterOpen(p, m).state = p.state
           /\ AfterOpen(p, m).hs = p.hs /\ AfterOpen(p, m).sec0 = p.sec0
<1> DEFINE q == [p EXCEPT !.sec1 = NoSec]
<1>1. /\ q.live = p.live /\ q.state = p.state /\ q.hs = p.hs /\ q.sec0 = p.sec0
  BY DEF PeerRecord
<1>2. ASSUME ~(p.sec0.ep < p.sec1.ep) PROVE PeerInv(e, q, u, O, A, F)
  <2>1. p.state = "WAIT_FINISHED" => e # "S"
    BY <1>2, PeerFields DEF PeerInv, ServerInv, SecType
  <2> HIDE DEF q
  <2> QED BY <1>1, <2>1 DEF PeerInv, ClientInv, ServerInv, Master
<1> HIDE DEF q
<1> QED BY <1>1, <1>2 DEF AfterOpen, FreeOther, q

\* A new peer object has nothing to be wrong about.
LEMMA NewInv ==
    ASSUME NEW e \in Endpoint, NEW u \in UsedType, NEW O, NEW A, NEW F
    PROVE  PeerInv(e, NoPeer, u, O, A, F) /\ PeerInv(e, NewPeer, u, O, A, F)
BY DEF NoPeer, NewPeer, PeerInv, ClientInv, ServerInv, NoHs, Sec, UsedType

-----------------------------------------------------------------------------
(* Messages and queues *)

LEMMA RepeatableInv ==
    ASSUME NEW x, NEW O, NEW A, NEW F, Repeatable(x, O, A)
    PROVE  Sound(x, O, A) /\ Established(x, A, F)
BY DEF Repeatable, Established

LEMMA RecInv ==
    ASSUME NEW e \in Endpoint, NEW sec, NEW typ, NEW seq, NEW frag, NEW a, NEW b,
           NEW hash, NEW O, NEW A, NEW F,
           \/ typ \in {"ALERT", "CCS"} /\ frag = 0
           \/ e = "C" /\ typ = "CKX"
           \/ e = "C" /\ typ = "CH" /\ frag = 0
           \/ e = "S" /\ typ \in {"HREQ", "HVR", "SH", "SKX", "SHD"} /\ frag = 0
    PROVE  LET x == Rec(Other(e), sec, typ, seq, frag, a, b, hash)
           IN  Repeatable(x, O, A)
BY DEF Rec, Other, Endpoint, Sound, Repeatable

LEMMA AlertInv ==
    ASSUME NEW e \in Endpoint, NEW p, NEW d, NEW O, NEW A, NEW F
    PROVE  Repeatable(Alert(e, p, d), O, A)
BY RecInv DEF Alert

LEMMA NetUnion ==
    ASSUME NEW S, NEW T, NEW O, NEW A, NEW F, NetInv(S, O, A, F), NetInv(T, O, A, F)
    PROVE  NetInv(S \cup T, O, A, F)
BY DEF NetInv

LEMMA FlightInv ==
    ASSUME NEW ms \in Seq(MsgRecord), NEW O, NEW A, NEW F,
           \A i \in 1..Len(ms) : Repeatable(ms[i], O, A)
    PROVE  /\ NetInv(Elems(ms), O, A, F)
           /\ \A p : p.live => QueueInv(p, Queue(ms), O, A)
<1>1. DOMAIN ms = 1..Len(ms) /\ Len(ms) \in Nat
  BY LenProperties
<1>2. NetInv(Elems(ms), O, A, F)
  BY <1>1, RepeatableInv DEF Elems, NetInv
<1>3. DOMAIN Queue(ms) = 1..Len(ms) /\ Queue(ms) \in Seq([m : MsgRecord, cnt : Nat])
  BY <1>1, QueueTypes DEF Queue, QueueType
<1>4. Len(Queue(ms)) = Len(ms)
  <2>1. DOMAIN Queue(ms) = 1..Len(Queue(ms)) /\ Len(Queue(ms)) \in Nat
    BY <1>3, LenProperties
  <2> QED BY <1>1, <1>3, <2>1
<1>5. \A i \in 1..Len(ms) : Queue(ms)[i].m = ms[i]
  BY <1>1 DEF Queue, Node
<1> QED BY <1>2, <1>4, <1>5 DEF QueueInv

LEMMA OneFlight ==
    ASSUME NEW x \in MsgRecord, NEW O, NEW A, NEW F,
           Repeatable(x, O, A)
    PROVE  /\ NetInv({x}, O, A, F)
           /\ \A p : p.live => QueueInv(p, Queue(<<x>>), O, A)
<1> DEFINE ms == <<x>>
<1>1. ms \in Seq(MsgRecord) /\ Len(ms) = 1 /\ ms[1] = x
  BY ShortSeqs
<1> HIDE DEF ms
<1>2. \A i \in 1..Len(ms) : Repeatable(ms[i], O, A)
  BY <1>1
<1>3. \A p : p.live => QueueInv(p, Queue(ms), O, A)
  BY <1>1, <1>2, FlightInv
<1> QED BY <1>3, RepeatableInv DEF NetInv, ms

LEMMA NoQueue == ASSUME NEW p, NEW O, NEW A PROVE QueueInv(p, <<>>, O, A)
BY DEF QueueInv

LEMMA ConcatQueue ==
    ASSUME NEW p, NEW q1 \in QueueType, NEW q2 \in QueueType, NEW O, NEW A,
           QueueInv(p, q1, O, A), QueueInv(p, q2, O, A)
    PROVE  QueueInv(p, q1 \o q2, O, A)
<1>1. /\ Len(q1) \in Nat /\ Len(q2) \in Nat /\ Len(q1 \o q2) = Len(q1) + Len(q2)
      /\ \A i \in 1..Len(q1) + Len(q2) :
            (q1 \o q2)[i] = IF i <= Len(q1) THEN q1[i] ELSE q2[i - Len(q1)]
  BY ConcatProperties, LenProperties DEF QueueType
<1>2. ASSUME NEW i \in 1..Len(q1 \o q2) PROVE Repeatable((q1 \o q2)[i].m, O, A)
  <2>1. CASE i <= Len(q1)
    BY <1>1, <2>1 DEF QueueInv
  <2>2. CASE ~(i <= Len(q1))
    <3>1. i - Len(q1) \in 1..Len(q2)
      BY <1>1, <2>2
    <3> QED BY <1>1, <2>2, <3>1 DEF QueueInv
  <2> QED BY <2>1, <2>2
<1>3. q1 \o q2 # <<>> => p.live
  BY DEF QueueInv, QueueType
<1> QED BY <1>2, <1>3 DEF QueueInv

-----------------------------------------------------------------------------
(* Every handler preserves the invariant and is a step of SessionAgreement *)

\* A handler that completes and offers nothing and draws no random.
LEMMA QuietStep ==
    ASSUME HandlerTypes, EngineInv, NEW e \in Endpoint, NEW q, NEW nq, NEW ms,
           Put(e, q), SetQueue(e, nq), net' = ms, UNCHANGED <<used, hist>>,
           PeerInv(e, q, used, offered, accepted, confirmed),
           QueueInv(q, nq, offered, accepted),
           NetInv(ms, offered, accepted, confirmed)
    PROVE  EngineInv' /\ Agreed
<1>1. UNCHANGED <<used, offered, accepted, confirmed>>
  BY DEF hist
<1>2. Grown(e) /\ Agreed
  BY <1>1 DEF Grown, Agreed, hist
<1>3. Counted(used', offered', accepted', confirmed')
  BY <1>1 DEF EngineInv
<1> QED BY <1>1, <1>2, <1>3, StepInv

LEMMA IgnoreAgrees ==
    ASSUME HandlerTypes, EngineInv, NEW e \in Endpoint, NEW p \in PeerRecord,
           p.live = pr[e].live,
           PeerInv(e, p, used, offered, accepted, confirmed),
           NEW rest \in SUBSET MsgRecord, NetInv(rest, offered, accepted, confirmed),
           Ignore(e, p, rest) \/ Skip(e, p, rest)
    PROVE  EngineInv' /\ Agreed
<1>1. QueueInv(p, sq[e], offered, accepted) /\ QueueInv(p, <<>>, offered, accepted)
  BY NoQueue DEF EngineInv, QueueInv
<1>2. CASE Ignore(e, p, rest)
  <2>1. SetQueue(e, sq[e])
    BY <1>2 DEF Ignore, SetQueue, HandlerTypes
  <2> QED BY <1>1, <1>2, <2>1, QuietStep DEF Ignore, hist
<1>3. CASE Skip(e, p, rest)
  BY <1>1, <1>3, QuietStep DEF Skip
<1> QED BY <1>2, <1>3

LEMMA FailAgrees ==
    ASSUME HandlerTypes, EngineInv, NEW e \in Endpoint, NEW p \in PeerRecord, p.live,
           PeerInv(e, p, used, offered, accepted, confirmed),
           NEW q, QueueInv(p, q, offered, accepted),
           NEW rest, NetInv(rest, offered, accepted, confirmed), Fail(e, p, q, rest)
    PROVE  EngineInv' /\ Agreed
<1> DEFINE p1 == Enter(p, "CLOSING")
<1>1. SameCore(p1, p) /\ p1.state = "CLOSING" /\ p1.hs.early = p.hs.early
  BY CoreOps DEF State
<1> HIDE DEF p1
<1>2. PeerInv(e, p1, used, offered, accepted, confirmed)
  BY <1>1, ClosingInv
<1>3. QueueInv(p1, q, offered, accepted)
  BY <1>1 DEF QueueInv, SameCore
<1>4. NetInv(rest \cup {Alert(e, p, Fatal)}, offered, accepted, confirmed)
  BY AlertInv, RepeatableInv, NetUnion DEF NetInv
<1>5. /\ Put(e, p1) /\ SetQueue(e, q) /\ net' = rest \cup {Alert(e, p, Fatal)}
      /\ UNCHANGED <<used, hist>>
  BY DEF Fail, p1
<1> QED BY <1>2, <1>3, <1>4, <1>5, QuietStep

LEMMA DestroyAgrees ==
    ASSUME HandlerTypes, EngineInv, NEW e \in Endpoint, NEW rest, NEW out,
           NetInv(rest, offered, accepted, confirmed),
           NetInv(out, offered, accepted, confirmed), Destroy(e, rest, out)
    PROVE  EngineInv' /\ Agreed
<1>1. used \in UsedType
  BY DEF HandlerTypes
<1> QED BY <1>1, NewInv, NoQueue, NetUnion, QuietStep DEF Destroy, Discard

LEMMA HelloVerifyRequestAgrees ==
    ASSUME NEW e, NEW p, NEW m, NEW st, NEW rest, Handling(e, p, m, st, rest),
           m.typ = "HVR", HelloVerifyRequest(e, p, m, st, rest)
    PROVE  EngineInv' /\ Agreed
<1> DEFINE ch == Rec(Other(e), p.sec0, "CH", p.hs.s, 0, p.hs.cr, m.a, <<>>)
           es == <<Entry("CH", p.hs.s, p.hs.cr, m.a)>>
           p1 == Rehashed(p, es)
           p2 == Advance(p1, 1, 1)
<1>0. e = "C" /\ st = p.state /\ p.live /\ p \in PeerRecord /\ m \in MsgRecord
  BY DEF Handling, Sound, HelloVerifyRequest
<1>1. es \in Seq(EntryType)
  BY <1>0, PeerFields, MsgFields, EntryTypes, EntrySeqs DEF HsType
<1>2. p1 \in PeerRecord
  BY <1>0, <1>1, PeerOps
<1>3. SameCore(p1, p) /\ p1.state = p.state /\ p1.hs.early = p.hs.early
  BY <1>0, <1>1, CoreOps
<1> HIDE DEF p1
<1>4. SameCore(p2, p1) /\ p2.state = p1.state /\ p2.hs.early = p1.hs.early
  BY <1>2, CoreOps
<1> HIDE DEF p2
<1>5. PeerInv(e, p2, used, offered, accepted, confirmed)
  BY <1>3, <1>4, CoreInv DEF Handling, SameCore
<1>6. ch \in MsgRecord /\ "C" \in Endpoint
  BY <1>0, PeerFields, MsgFields, OtherType, EmptyTypes, RecType DEF MsgType, HsType, Handling
<1>7. Repeatable(ch, offered, accepted)
  BY <1>0, <1>6, RecInv
<1> HIDE DEF ch
<1>8. QueueInv(p2, Queue(<<ch>>), offered, accepted)
  BY <1>0, <1>3, <1>4, <1>6, <1>7, OneFlight DEF SameCore
<1>9. NetInv(rest \cup {ch}, offered, accepted, confirmed)
  BY <1>6, <1>7, OneFlight, NetUnion DEF Handling
<1>10. /\ Put(e, p2) /\ net' = rest \cup {ch} /\ SetQueue(e, Queue(<<ch>>))
       /\ UNCHANGED <<used, hist>>
  BY DEF HelloVerifyRequest, ch, p1, p2
<1> QED BY <1>5, <1>8, <1>9, <1>10, QuietStep DEF Handling


LEMMA SecFields ==
    ASSUME NEW p \in PeerRecord
    PROVE  /\ \A k : LET q == NextSec(p, k) IN
                 /\ q.live = p.live /\ q.state = p.state /\ q.hs = p.hs
                 /\ q.sec0 = p.sec0 /\ q.sec1 = Sec(p.sec0.ep + 1, k)
           /\ LET q == Switch(p) IN
                 /\ q.live = p.live /\ q.state = p.state /\ q.hs = p.hs
                 /\ q.sec0 = p.sec1 /\ q.sec1 = p.sec0
BY DEF NextSec, Switch, PeerRecord

LEMMA ServerHelloAgrees ==
    ASSUME NEW e, NEW p, NEW m, NEW st, NEW rest, Handling(e, p, m, st, rest),
           m.typ = "SH", ServerHello(e, p, m, st, rest)
    PROVE  EngineInv' /\ Agreed
<1> DEFINE h  == [p.hs EXCEPT !.sr = m.a]
           es == <<Entry("SH", m.seq, m.a, 0)>>
           p1 == [p EXCEPT !.hs = h]
           p2 == Hashed(p1, es)
           p3 == Enter(p2, "WAIT_SERVERHELLODONE")
           p4 == Advance(p3, 1, 0)
<1>0. /\ e = "C" /\ st = p.state /\ p.state = "CLIENTHELLO" /\ p.live
      /\ p \in PeerRecord /\ m \in MsgRecord
  BY DEF Handling, Sound, ServerHello
<1>1. es \in Seq(EntryType)
  BY <1>0, PeerFields, MsgFields, EntryTypes, EntrySeqs DEF HsType
<1>2. h \in HsRecord /\ h.on = p.hs.on /\ h.cr = p.hs.cr /\ h.early = p.hs.early
  BY <1>0, PeerFields, MsgFields DEF HsRecord
<1> HIDE DEF h, es
<1>3. /\ p1 \in PeerRecord /\ p1.live = p.live /\ p1.sec0 = p.sec0 /\ p1.hs = h
  BY <1>0, <1>2 DEF PeerRecord
<1> HIDE DEF p1
<1>4. p2 \in PeerRecord /\ SameCore(p2, p1) /\ p2.hs.early = p1.hs.early
  BY <1>1, <1>3, PeerOps, CoreOps
<1> HIDE DEF p2
<1>5. "WAIT_SERVERHELLODONE" \in State
  BY DEF State, Waiting
<1>6. p3 \in PeerRecord /\ SameCore(p3, p2) /\ p3.state = "WAIT_SERVERHELLODONE"
      /\ p3.hs = p2.hs
  BY <1>4, <1>5, SetHs, CoreOps, PeerFields
<1> HIDE DEF p3
<1>7. SameCore(p4, p3) /\ p4.state = p3.state /\ p4.hs.early = p3.hs.early
  BY <1>6, CoreOps
<1> HIDE DEF p4
<1>8. /\ p4.live = p.live /\ p4.sec0 = p.sec0 /\ p4.hs.on = p.hs.on /\ p4.hs.cr = p.hs.cr
      /\ p4.hs.early = p.hs.early /\ p4.state = "WAIT_SERVERHELLODONE"
  BY <1>2, <1>3, <1>4, <1>6, <1>7 DEF SameCore
<1>9. PeerInv(e, p4, used, offered, accepted, confirmed)
  BY <1>0, <1>8 DEF Handling, PeerInv, ClientInv
<1>10. Put(e, p4) /\ net' = rest /\ SetQueue(e, <<>>) /\ UNCHANGED <<used, hist>>
  BY DEF ServerHello, h, es, p1, p2, p3, p4
<1> QED BY <1>9, <1>10, NoQueue, QuietStep DEF Handling

LEMMA ServerKeyExchangeAgrees ==
    ASSUME NEW e, NEW p, NEW m, NEW st, NEW rest, Handling(e, p, m, st, rest),
           m.typ = "SKX", ServerKeyExchange(e, p, m, st, rest)
    PROVE  EngineInv' /\ Agreed
<1> DEFINE es == <<Entry("SKX", m.seq, 0, 0)>>
           p1 == Hashed(p, es)
           p2 == Advance(p1, 1, 0)
<1>0. p \in PeerRecord /\ m \in MsgRecord
  BY DEF Handling
<1>1. es \in Seq(EntryType)
  BY <1>0, MsgFields, EntryTypes, EntrySeqs DEF HsType
<1> HIDE DEF es
<1>2. /\ p1 \in PeerRecord /\ SameCore(p1, p) /\ p1.state = p.state
      /\ p1.hs.early = p.hs.early
  BY <1>0, <1>1, PeerOps, CoreOps
<1> HIDE DEF p1
<1>3. SameCore(p2, p1) /\ p2.state = p1.state /\ p2.hs.early = p1.hs.early
  BY <1>2, CoreOps
<1> HIDE DEF p2
<1>4. PeerInv(e, p2, used, offered, accepted, confirmed)
  BY <1>2, <1>3, CoreInv DEF Handling, SameCore
<1>5. Put(e, p2) /\ net' = rest /\ SetQueue(e, <<>>) /\ UNCHANGED <<used, hist>>
  BY DEF ServerKeyExchange, es, p1, p2
<1> QED BY <1>4, <1>5, NoQueue, QuietStep DEF Handling

LEMMA ClientKeyExchangeAgrees ==
    ASSUME NEW e, NEW p, NEW m, NEW st, NEW rest, Handling(e, p, m, st, rest),
           m.typ = "CKX", ClientKeyExchange(e, p, m, st, rest)
    PROVE  EngineInv' /\ Agreed
<1> DEFINE es == <<Entry("CKX", m.seq, m.a, 0)>>
           p1 == Hashed(p, es)
           p2 == Enter(p1, "WAIT_CHANGECIPHERSPEC")
           p3 == Advance(p2, 1, 0)
<1>0. /\ e = "S" /\ p \in PeerRecord /\ m \in MsgRecord
      /\ st = p.state /\ p.state = "WAIT_CLIENTKEYEXCHANGE" /\ p.live
  BY DEF Handling, Sound, ClientKeyExchange
<1>1. es \in Seq(EntryType)
  BY <1>0, MsgFields, EntryTypes, EntrySeqs DEF HsType
<1> HIDE DEF es
<1>2. /\ p1 \in PeerRecord /\ SameCore(p1, p) /\ p1.hs.early = p.hs.early
  BY <1>0, <1>1, PeerOps, CoreOps
<1> HIDE DEF p1
<1>3. "WAIT_CHANGECIPHERSPEC" \in State
  BY DEF State, Waiting
<1>4. /\ p2 \in PeerRecord /\ SameCore(p2, p1) /\ p2.state = "WAIT_CHANGECIPHERSPEC"
      /\ p2.hs = p1.hs
  BY <1>2, <1>3, SetHs, CoreOps, PeerFields
<1> HIDE DEF p2
<1>5. SameCore(p3, p2) /\ p3.state = p2.state /\ p3.hs.early = p2.hs.early
  BY <1>4, CoreOps
<1> HIDE DEF p3
<1>6. SameCore(p3, p) /\ p3.state = "WAIT_CHANGECIPHERSPEC" /\ p3.hs.early = p.hs.early
  BY <1>2, <1>4, <1>5 DEF SameCore
<1>7. PeerInv(e, p3, used, offered, accepted, confirmed)
  BY <1>0, <1>6 DEF Handling, PeerInv, ServerInv, SameCore
<1>8. Put(e, p3) /\ net' = rest /\ SetQueue(e, <<>>) /\ UNCHANGED <<used, hist>>
  BY DEF ClientKeyExchange, es, p1, p2, p3
<1> QED BY <1>7, <1>8, NoQueue, QuietStep DEF Handling


LEMMA KeyExchangeFlightInv ==
    ASSUME NEW p \in PeerRecord
    PROVE  /\ KeyExchangeFlight("C", p) \in Seq(MsgRecord)
           /\ Len(KeyExchangeFlight("C", p)) = NFrag
           /\ \A i \in 1..NFrag : \A O, A :
                 /\ Repeatable(KeyExchangeFlight("C", p)[i], O, A)
<1> DEFINE ckx == KeyExchangeFlight("C", p)
           c(i) == Rec(Other("C"), p.sec0, "CKX", p.hs.s, i, p.hs.cr, 0, <<>>)
<1>1. "C" \in Endpoint
  BY DEF Endpoint
<1>2. ASSUME NEW i \in 1..NFrag
      PROVE  c(i) \in MsgRecord
  <2>1. i \in 0..NFrag
    BY FragAssumption
  <2>2. "CKX" \in MsgType /\ p.sec0 \in SecType
    BY PeerFields DEF MsgType, HsType
  <2> QED BY <2>1, <2>2, <1>1, PeerFields, OtherType, EmptyTypes, RecType
<1>3. ASSUME NEW i \in 1..NFrag, NEW O, NEW A
      PROVE  Repeatable(c(i), O, A)
  BY <1>1, RecInv
<1>4. ckx = [i \in 1..NFrag |-> c(i)]
  BY DEF KeyExchangeFlight
<1> HIDE DEF c, ckx
<1>5. ckx \in [1..NFrag -> MsgRecord]
  BY <1>2, <1>4
<1>6. ckx \in Seq(MsgRecord)
  BY <1>5, FunctionIsSeq, FragAssumption
<1>7. Len(ckx) = NFrag
  <2>1. DOMAIN ckx = 1..Len(ckx) /\ Len(ckx) \in Nat
    BY <1>6, LenProperties
  <2> QED BY <1>5, <2>1, FragAssumption
<1> QED BY <1>3, <1>4, <1>6, <1>7 DEF ckx

\* The client's Finished offers the session its parameters were switched to.
LEMMA ServerHelloDoneAgrees ==
    ASSUME NEW e, NEW p, NEW m, NEW st, NEW rest, Handling(e, p, m, st, rest),
           m.typ = "SHD", ServerHelloDone(e, p, m, st, rest)
    PROVE  EngineInv' /\ Agreed
<1> DEFINE ckx == KeyExchangeFlight(e, p)
           es  == <<Entry("SHD", m.seq, 0, 0), Entry("CKX", p.hs.s, p.hs.cr, 0)>>
           p1  == Hashed(p, es)
           p2  == Switch(NextSec(p1, Master(p)))
           ccs == Rec(Other(e), p.sec0, "CCS", 0, 0, 0, 0, <<>>)
           fin == Rec(Other(e), p2.sec0, "FIN", p.hs.s + 1, 0, p.hs.cr, p.hs.sr, p1.hs.hash)
           fe  == Entry("FIN", p.hs.s + 1, 0, 0)
           p3  == Hashed(p2, <<fe>>)
           p4  == Enter(p3, "WAIT_CHANGECIPHERSPEC")
           p5  == Advance(p4, 1, 2)
           out == ckx \o <<ccs, fin>>
           ses == [key |-> Master(p), hash |-> p3.hs.hash]
           q1  == NextSec(p1, NoKey)
           q2  == Advance(q1, 0, 1)
<1>0. /\ e = "C" /\ e \in Endpoint /\ p \in PeerRecord /\ m \in MsgRecord
      /\ st = p.state /\ p.state = "WAIT_SERVERHELLODONE" /\ p.live
      /\ HandlerTypes /\ EngineInv
      /\ PeerInv(e, p, used, offered, accepted, confirmed)
      /\ NetInv(rest, offered, accepted, confirmed)
  BY DEF Handling, Sound, ServerHelloDone
<1>1. p.hs.s \in Nat /\ p.hs.s + 1 \in Nat /\ p.hs.cr \in Nat /\ p.hs.sr \in Nat
      /\ m.seq \in Nat /\ p.sec0.ep >= 0 /\ p.sec0.ep \in Int
  BY <1>0, PeerFields, MsgFields DEF PeerInv, SecType
<1>2. es \in Seq(EntryType) /\ <<fe>> \in Seq(EntryType)
  BY <1>1, EntryTypes, EntrySeqs DEF HsType
<1> HIDE DEF es
<1>3. /\ p1 \in PeerRecord /\ SameCore(p1, p) /\ p1.state = p.state
      /\ p1.hs.early = p.hs.early
  BY <1>0, <1>2, PeerOps, CoreOps, ZenonT(40)
<1> HIDE DEF p1
<1>4. /\ p2 \in PeerRecord /\ p2.live = p.live /\ p2.hs = p1.hs
      /\ p2.sec0 = Sec(p.sec0.ep + 1, Master(p))
  <2>1. NextSec(p1, Master(p)) \in PeerRecord
    BY <1>0, <1>3, SecOps, PeerFields
  <2> QED BY <2>1, <1>3, SecOps, SecFields DEF SameCore
<1> HIDE DEF p2
<1>5. /\ p3 \in PeerRecord /\ SameCore(p3, p2) /\ p3.hs.early = p2.hs.early
      /\ p3.hs.hash = p2.hs.hash \o <<fe>>
  BY <1>2, <1>4, PeerOps, CoreOps
<1> HIDE DEF p3
<1>6. "WAIT_CHANGECIPHERSPEC" \in State
  BY DEF State, Waiting
<1>7. /\ p4 \in PeerRecord /\ SameCore(p4, p3) /\ p4.state = "WAIT_CHANGECIPHERSPEC"
      /\ p4.hs = p3.hs
  BY <1>5, <1>6, SetHs, CoreOps, PeerFields
<1> HIDE DEF p4
<1>8. SameCore(p5, p4) /\ p5.state = p4.state /\ p5.hs.early = p4.hs.early
  BY <1>7, CoreOps
<1> HIDE DEF p5
<1>9. /\ p5.live /\ p5.state = "WAIT_CHANGECIPHERSPEC" /\ p5.hs.cr = p.hs.cr
      /\ p5.hs.early = p.hs.early /\ p5.sec0 = Sec(p.sec0.ep + 1, Master(p))
      /\ Master(p5) = Master(p)
  BY <1>0, <1>3, <1>4, <1>5, <1>7, <1>8 DEF SameCore, Master
<1>10. ckx \in Seq(MsgRecord) /\ Len(ckx) = NFrag
       /\ \A i \in 1..NFrag : \A O, A : Repeatable(ckx[i], O, A)
  BY <1>0, KeyExchangeFlightInv
<1> HIDE DEF ckx
<1>11. CASE /\ Put(e, p5) /\ net' = rest \cup Elems(out)
            /\ SetQueue(e, Queue(out)) /\ offered' = offered \cup {ses}
            /\ UNCHANGED <<used, accepted, confirmed>>
  <2>1. ses \in offered' /\ offered \subseteq offered' /\ ses.key = Master(p)
    BY <1>11
  <2>2. Grown(e)
    BY <1>0, <1>11 DEF Grown
  <2>3. \A t \in offered : t.key[1] # p.hs.cr
    BY <1>0 DEF PeerInv, ClientInv
  <2>4. Abstract!Offer(ses)
    <3>1. \A t \in offered : t.key # ses.key
      BY <2>1, <2>3 DEF Master
    <3> QED BY <1>11, <3>1 DEF Abstract!Offer, Abstract!FreshKey
  <2>5. Agreed
    BY <2>1, <2>4 DEF Agreed, Abstract!Next
  <2>6. Counted(used', offered', accepted', confirmed')
    <3>1. p.hs.cr <= used.ch
      BY <1>0 DEF PeerInv, ClientInv
    <3> QED BY <1>0, <1>11, <2>1, <3>1 DEF EngineInv, Counted, Master
  <2>7. PeerInv(e, p5, used', offered', accepted', confirmed')
    <3>1. \A x \in p.hs.early : x.dst = e /\ Sound(x, offered', accepted')
      BY <1>0, <1>11, <2>1, SoundGrows DEF PeerInv
    <3>2. p5.sec0.ep = p.sec0.ep + 1 /\ p5.sec0.key = Master(p)
      BY <1>9 DEF Sec
    <3>3. p5.sec0.ep >= 0
      BY <1>1, <3>2
    <3>4. ClientInv(p5, used', offered', confirmed')
      <4>1. p.hs.cr <= used.ch /\ \A t \in confirmed : t.key[1] # p.hs.cr
        BY <1>0 DEF PeerInv, ClientInv
      <4> QED BY <1>9, <1>11, <3>2, <4>1 DEF ClientInv
    <3> QED BY <1>0, <1>9, <3>1, <3>3, <3>4 DEF PeerInv
  <2>8. ccs \in MsgRecord /\ Repeatable(ccs, offered', accepted')
    BY <1>0, PeerFields, OtherType, EmptyTypes, RecType, RecInv DEF MsgType
  <2>9. fin \in MsgRecord /\ Repeatable(fin, offered', accepted')
    <3>1. p2.sec0 \in SecType /\ p1.hs.hash \in Seq(EntryType) /\ "FIN" \in MsgType
      BY <1>3, <1>4, PeerFields DEF MsgType, HsType
    <3>2. fin \in MsgRecord
      BY <1>0, <1>1, <3>1, OtherType, EmptyTypes, RecType
    <3>3. /\ fin.typ = "FIN" /\ fin.frag = 0 /\ fin.dst = "S" /\ fin.seq = p.hs.s + 1
          /\ fin.hash = p1.hs.hash /\ <<fin.a, fin.b>> = Master(p)
      BY <1>0 DEF Rec, Other, Master
    <3>4. ses = [key |-> <<fin.a, fin.b>>,
                 hash |-> fin.hash \o <<Entry("FIN", fin.seq, 0, 0)>>]
      BY <3>3, <1>4, <1>5
    <3> HIDE DEF fin
    <3>5. Sound(fin, offered', accepted')
      BY <2>1, <3>3, <3>4 DEF Sound
    <3> QED BY <3>2, <3>3, <3>5 DEF Repeatable
  <2> HIDE DEF ccs, fin
  <2>10. /\ out \in Seq(MsgRecord) /\ Len(out) = NFrag + 2
         /\ \A i \in 1..NFrag + 2 :
               out[i] = IF i <= NFrag THEN ckx[i] ELSE <<ccs, fin>>[i - NFrag]
    <3>1. <<ccs, fin>> \in Seq(MsgRecord) /\ Len(<<ccs, fin>>) = 2
      BY <2>8, <2>9, ShortSeqs
    <3> QED BY <1>10, <3>1, ConcatProperties
  <2> HIDE DEF out
  <2>11. ASSUME NEW i \in 1..Len(out)
         PROVE  Repeatable(out[i], offered', accepted')
    <3>1. CASE i <= NFrag
      <4>1. i \in 1..NFrag /\ out[i] = ckx[i]
        BY <2>10, <3>1, FragAssumption
      <4> QED BY <4>1, <1>10
    <3>2. CASE ~(i <= NFrag)
      <4>1. i - NFrag = 1 \/ i - NFrag = 2
        BY <2>10, <3>2, FragAssumption
      <4>2. out[i] = ccs \/ out[i] = fin
        BY <2>10, <3>2, <4>1
      <4> QED BY <4>2, <2>8, <2>9
    <3> QED BY <3>1, <3>2
  <2>12. /\ NetInv(Elems(out), offered', accepted', confirmed')
         /\ QueueInv(p5, Queue(out), offered', accepted')
    BY <1>9, <2>10, <2>11, FlightInv
  <2>13. NetInv(rest, offered', accepted', confirmed')
    BY <1>0, <2>2, NetGrows DEF Grown
  <2>14. NetInv(rest \cup Elems(out), offered', accepted', confirmed')
    BY <2>12, <2>13, NetUnion
  <2>15. EngineInv'
    BY <1>0, <1>11, <2>2, <2>6, <2>7, <2>12, <2>14, StepInv
  <2> QED BY <2>5, <2>15
<1>12. CASE Fail(e, q2, Queue(ckx), rest \cup Elems(ckx))
  <2>1. /\ q1 \in PeerRecord /\ q1.live = p1.live /\ q1.state = p1.state
        /\ q1.hs = p1.hs /\ q1.sec0 = p1.sec0
    BY <1>3, EmptyTypes, SecOps, SecFields
  <2> HIDE DEF q1
  <2>2. /\ q2 \in PeerRecord /\ SameCore(q2, q1) /\ q2.state = q1.state
        /\ q2.hs.early = q1.hs.early
    BY <2>1, PeerOps, CoreOps
  <2> HIDE DEF q2
  <2>3. /\ q2.live /\ q2.state = "WAIT_SERVERHELLODONE" /\ q2.sec0 = p.sec0
        /\ q2.hs.cr = p.hs.cr /\ q2.hs.early = p.hs.early
    BY <1>0, <1>3, <2>1, <2>2 DEF SameCore
  <2>4. PeerInv(e, q2, used, offered, accepted, confirmed)
    BY <1>0, <2>3 DEF PeerInv, ClientInv
  <2>5. /\ NetInv(Elems(ckx), offered, accepted, confirmed)
        /\ QueueInv(q2, Queue(ckx), offered, accepted)
    BY <1>10, <2>3, FlightInv
  <2>6. NetInv(rest \cup Elems(ckx), offered, accepted, confirmed)
    BY <1>0, <2>5, NetUnion
  <2> QED BY <1>0, <1>12, <2>2, <2>3, <2>4, <2>5, <2>6, FailAgrees
<1> QED BY <1>11, <1>12
        DEF ServerHelloDone, ckx, es, p1, p2, ccs, fin, fe, p3, p4, p5, out, ses, q1, q2


LEMMA SendHelloVerifyAgrees ==
    ASSUME NEW e, NEW p, NEW m, NEW st, NEW rest, Handling(e, p, m, st, rest),
           m.typ = "CH", SendHelloVerify(e, p, m, st, rest)
    PROVE  EngineInv' /\ Agreed
<1> DEFINE own == st = "CONNECTED"
           sec == IF own THEN p.sec0 ELSE Sec(0, NoKey)
           seq == IF own THEN p.hs.s ELSE 0
           hvr == Rec(Other(e), sec, "HVR", seq, 0, m.a, 0, <<>>)
           p1  == IF ~p.hs.on THEN p ELSE Advance(p, 1, IF own THEN 1 ELSE 0)
           q1  == IF p.live THEN <<>> ELSE sq[e]
<1>0. /\ e = "S" /\ e \in Endpoint /\ p \in PeerRecord /\ m \in MsgRecord
      /\ HandlerTypes /\ EngineInv /\ p.live = pr[e].live
      /\ PeerInv(e, p, used, offered, accepted, confirmed)
      /\ NetInv(rest, offered, accepted, confirmed)
  BY DEF Handling, Sound
<1>1. sec \in SecType /\ seq \in Nat
  BY <1>0, PeerFields, EmptyTypes DEF Sec, SecType
<1>2. hvr \in MsgRecord /\ Repeatable(hvr, offered, accepted)
  <2> HIDE DEF sec, seq
  <2> QED BY <1>0, <1>1, MsgFields, OtherType, EmptyTypes, RecType, RecInv DEF MsgType, HsType
<1>3. SameCore(p1, p) /\ p1.state = p.state /\ p1.hs.early = p.hs.early
  <2>1. CASE p.hs.on
    BY <1>0, <2>1, CoreOps
  <2>2. CASE ~p.hs.on
    BY <2>2 DEF SameCore
  <2> QED BY <2>1, <2>2
<1>4. /\ Put(e, p1) /\ net' = rest \cup {hvr} /\ SetQueue(e, q1)
      /\ UNCHANGED <<used, hist>>
  BY DEF SendHelloVerify
<1>5. QueueInv(p1, q1, offered, accepted)
  <2>1. q1 = <<>> \/ (q1 = sq[e] /\ pr[e].live = p1.live)
    BY <1>0, <1>3 DEF SameCore
  <2>2. QueueInv(pr[e], sq[e], offered, accepted)
    BY <1>0 DEF EngineInv
  <2> HIDE DEF p1, q1
  <2> QED BY <2>1, <2>2, NoQueue DEF QueueInv
<1> HIDE DEF hvr, p1, q1
<1>6. PeerInv(e, p1, used, offered, accepted, confirmed)
  BY <1>0, <1>3, CoreInv
<1>7. NetInv(rest \cup {hvr}, offered, accepted, confirmed)
  BY <1>0, <1>2, OneFlight, NetUnion
<1> QED BY <1>0, <1>4, <1>5, <1>6, <1>7, QuietStep

LEMMA ServerHelloFlightInv ==
    ASSUME NEW sec \in SecType, NEW s \in Nat, NEW sr \in Nat
    PROVE  /\ ServerHelloFlight("S", sec, s, sr) \in Seq(MsgRecord)
           /\ \A i \in 1..Len(ServerHelloFlight("S", sec, s, sr)) : \A O, A :
                 /\ Repeatable(ServerHelloFlight("S", sec, s, sr)[i], O, A)
<1> DEFINE f   == ServerHelloFlight("S", sec, s, sr)
           sh  == Rec(Other("S"), sec, "SH", s, 0, sr, 0, <<>>)
           skx == Rec(Other("S"), sec, "SKX", s + 1, 0, 0, 0, <<>>)
           d1  == Rec(Other("S"), sec, "SHD", s + 1 + Len(<<>>), 0, 0, 0, <<>>)
           d2  == Rec(Other("S"), sec, "SHD", s + 1 + Len(<<skx>>), 0, 0, 0, <<>>)
           R   == {x \in MsgRecord : x.typ \in {"SH", "SKX", "SHD"} /\ x.dst = "C"
                                     /\ x.frag = 0}
<1>0. "S" \in Endpoint /\ Other("S") = "C" /\ s + 1 \in Nat
  BY DEF Endpoint, Other
<1>1. sh \in R /\ skx \in R
  BY <1>0, OtherType, EmptyTypes, RecType DEF MsgType, HsType, Rec
<1> HIDE DEF skx
<1>2. s + 1 + Len(<<>>) \in Nat /\ s + 1 + Len(<<skx>>) \in Nat
  OBVIOUS
<1>3. d1 \in R /\ d2 \in R
  BY <1>0, <1>2, OtherType, EmptyTypes, RecType DEF MsgType, HsType, Rec
<1> HIDE DEF sh, d1, d2, R
<1>4. <<sh>> \in Seq(R) /\ <<skx>> \in Seq(R) /\ <<d1>> \in Seq(R) /\ <<d2>> \in Seq(R)
      /\ <<>> \in Seq(R)
  BY <1>1, <1>3, ShortSeqs
<1>5. /\ (<<sh>> \o <<skx>>) \in Seq(R) /\ (<<sh>> \o <<>>) \in Seq(R)
      /\ ((<<sh>> \o <<skx>>) \o <<d2>>) \in Seq(R)
      /\ ((<<sh>> \o <<>>) \o <<d1>>) \in Seq(R)
  BY <1>4, ConcatProperties
<1>6. f \in Seq(R)
  BY <1>5, PskAssumption DEF ServerHelloFlight, sh, skx, d1, d2
<1> HIDE DEF f
<1>7. R \subseteq MsgRecord
  BY DEF R
<1>8. f \in Seq(MsgRecord) /\ \A i \in 1..Len(f) : f[i] \in R
  BY <1>6, <1>7, SeqMonotonic, ElementOfSeq
<1>9. \A x \in R : \A O, A : Repeatable(x, O, A)
  BY DEF R, Sound, Repeatable
<1> QED BY <1>8, <1>9 DEF f

LEMMA AcceptHelloAgrees ==
    ASSUME NEW e, NEW p, NEW m, NEW st, NEW rest, Handling(e, p, m, st, rest),
           m.typ = "CH", st \in {"CONNECTED", "WAIT_CLIENTHELLO"},
           AcceptHello(e, p, m, st, rest)
    PROVE  EngineInv' /\ Agreed
<1> DEFINE again == p.live /\ st = "WAIT_CLIENTHELLO"
           p0    == IF p.live /\ ~again THEN p ELSE NewPeer
           h0    == IF p0.hs.on THEN p0.hs ELSE NewHs(m.seq, 1)
           sr    == used.sh + 1
           out   == ServerHelloFlight(e, p0.sec0, h0.s, sr)
           log   == [i \in DOMAIN out |-> Entry(out[i].typ, out[i].seq, out[i].a, 0)]
           hash  == <<Entry("CH", m.seq, m.a, m.b)>> \o log
           h1    == [h0 EXCEPT !.cr = m.a, !.sr = sr, !.r = @ + 1, !.s = @ + Len(out),
                               !.hash = hash]
           p1    == [p0 EXCEPT !.state = "WAIT_CLIENTKEYEXCHANGE", !.hs = h1]
<1>0. /\ e = "S" /\ e \in Endpoint /\ p \in PeerRecord /\ m \in MsgRecord
      /\ HandlerTypes /\ EngineInv /\ used \in UsedType
      /\ PeerInv(e, p, used, offered, accepted, confirmed)
      /\ NetInv(rest, offered, accepted, confirmed)
  BY DEF Handling, Sound, HandlerTypes
<1>1. /\ p0 \in PeerRecord /\ p0.live
      /\ PeerInv(e, p0, used, offered, accepted, confirmed)
  BY <1>0, NewTypes, NewInv DEF NewPeer, NoPeer
<1> HIDE DEF p0
<1>2. /\ h0 \in HsRecord
      /\ \A x \in h0.early : x.dst = e /\ Sound(x, offered, accepted)
  <2>1. NewHs(m.seq, 1).early = {}
    BY DEF NewHs, NoHs
  <2> QED BY <1>0, <1>1, <2>1, PeerFields, MsgFields, NewTypes DEF PeerInv
<1> HIDE DEF h0
<1>3. sr \in Nat /\ h0.s \in Nat /\ p0.sec0 \in SecType /\ used.sh \in Nat
  BY <1>0, <1>1, <1>2, PeerFields DEF UsedType, HsRecord
<1>4. /\ out \in Seq(MsgRecord)
      /\ \A i \in 1..Len(out) : \A O, A : Repeatable(out[i], O, A)
  BY <1>0, <1>3, ServerHelloFlightInv
<1> HIDE DEF out, hash
<1>5. /\ p1.live /\ p1.state = "WAIT_CLIENTKEYEXCHANGE" /\ p1.hs.sr = used.sh + 1
      /\ p1.sec0 = p0.sec0 /\ p1.hs.early = h0.early
  BY <1>1, <1>2 DEF PeerRecord, HsRecord
<1> HIDE DEF p1
<1>6. PICK q \in {<<>>, Queue(out)} : SetQueue(e, q)
  BY ZenonT(40) DEF AcceptHello, again, p0, h0, sr, out, SetQueue
<1>7. /\ Put(e, p1) /\ net' = rest \cup Elems(out)
      /\ used' = [used EXCEPT !.sh = used.sh + 1] /\ UNCHANGED hist
  BY DEF AcceptHello, again, p0, h0, sr, out, log, hash, h1, p1
<1>8. used'.ch = used.ch /\ used'.sh = used.sh + 1
  BY <1>0, <1>7 DEF UsedType
<1>9. /\ offered' = offered /\ accepted' = accepted /\ confirmed' = confirmed
      /\ Grown(e) /\ Agreed
  BY <1>0, <1>7, <1>8 DEF hist, Grown, Agreed
<1>10. (\A t \in accepted : t.key[2] <= used.sh /\ t.key[2] \in Nat)
  BY <1>0 DEF EngineInv, Counted, HandlerTypes, SessionRecord, Key
<1>11. Counted(used', offered', accepted', confirmed')
  BY <1>0, <1>3, <1>8, <1>9, <1>10 DEF EngineInv, Counted
<1>12. PeerInv(e, p1, used', offered', accepted', confirmed')
  <2>1. \A t \in accepted : t.key[2] # p1.hs.sr
    BY <1>3, <1>5, <1>10
  <2>2. ServerInv(p1, used', accepted')
    BY <1>3, <1>5, <1>8, <1>9, <2>1 DEF ServerInv
  <2> QED BY <1>0, <1>1, <1>2, <1>5, <1>9, <2>2 DEF PeerInv
<1>13. /\ NetInv(Elems(out), offered, accepted, confirmed)
       /\ QueueInv(p1, q, offered, accepted)
  BY <1>4, <1>5, <1>6, FlightInv, NoQueue
<1>14. NetInv(rest \cup Elems(out), offered, accepted, confirmed)
  BY <1>0, <1>13, NetUnion
<1> QED BY <1>0, <1>6, <1>7, <1>9, <1>11, <1>12, <1>13, <1>14, StepInv


\* The server's Finished handler accepts the session the client offered.
LEMMA ServerFinishedAgrees ==
    ASSUME NEW e, NEW p, NEW m, NEW st, NEW rest, Handling(e, p, m, st, rest),
           m.typ = "FIN", e = "S", Finished(e, p, m, st, rest)
    PROVE  EngineInv' /\ Agreed
<1> DEFINE fe  == Entry("FIN", m.seq, 0, 0)
           p1  == Hashed(p, <<fe>>)
           p2  == Switch(p1)
           ccs == Rec(Other(e), p.sec0, "CCS", 0, 0, 0, 0, <<>>)
           fin == Rec(Other(e), p2.sec0, "FIN", p.hs.s, 0, p.hs.cr, p.hs.sr, p1.hs.hash)
           ses == [key |-> Master(p), hash |-> p1.hs.hash]
           p3  == [p2 EXCEPT !.state = "CONNECTED", !.hs = NoHs]
<1>0. /\ e \in Endpoint /\ p \in PeerRecord /\ m \in MsgRecord
      /\ HandlerTypes /\ EngineInv /\ used \in UsedType
      /\ PeerInv(e, p, used, offered, accepted, confirmed)
      /\ NetInv(rest, offered, accepted, confirmed)
      /\ p.state = "WAIT_FINISHED" /\ p.live /\ ServerInv(p, used, accepted)
  BY DEF Handling, HandlerTypes, Finished, PeerInv
<1>1. <<fe>> \in Seq(EntryType)
  BY <1>0, MsgFields, EntryTypes, EntrySeqs DEF HsType
<1>2. p1 \in PeerRecord /\ SameCore(p1, p) /\ p1.hs.hash = p.hs.hash \o <<fe>>
  BY <1>0, <1>1, PeerOps, CoreOps
<1> HIDE DEF p1
<1>3. p2 \in PeerRecord /\ p2.live = p1.live /\ p2.sec0 = p1.sec1
  BY <1>2, SecOps, SecFields
<1> HIDE DEF p2
<1>4. /\ p3.live = p2.live /\ p3.sec0 = p2.sec0 /\ p3.state = "CONNECTED"
      /\ p3.hs = NoHs
  BY <1>3 DEF PeerRecord
<1> HIDE DEF p3
<1>5. ses \in offered
  <2>1. <<m.a, m.b>> = Master(p) /\ m.hash = p.hs.hash
    BY DEF Finished, FinishedMatches
  <2>2. [key |-> <<m.a, m.b>>, hash |-> m.hash \o <<fe>>] \in offered
    BY DEF Handling, Sound
  <2> QED BY <1>2, <2>1, <2>2
<1>6. \A t \in accepted : t.key[2] # p.hs.sr
  BY <1>0 DEF ServerInv
<1>7. /\ Put(e, p3) /\ net' = rest \cup {ccs, fin} /\ SetQueue(e, <<>>)
      /\ accepted' = accepted \cup {ses} /\ confirmed' = confirmed
      /\ used' = used /\ offered' = offered
  BY DEF Finished, fe, p1, p2, ccs, fin, ses, p3
<1>8. Abstract!Accept(ses)
  <2>1. \A t \in accepted : t.key # ses.key
    BY <1>6 DEF Master
  <2> QED BY <1>5, <1>7, <2>1 DEF Abstract!Accept, Abstract!FreshKey
<1>9. Grown(e) /\ Agreed
  BY <1>5, <1>7, <1>8 DEF Grown, Agreed, Abstract!Next
<1>10. Counted(used', offered', accepted', confirmed')
  BY <1>0, <1>7 DEF EngineInv, Counted, ServerInv, Master
<1>11. ses \in accepted'
  BY <1>7
<1>12. p3.sec0.key = Master(p) /\ p3.sec0.ep = p.sec0.ep + 1
  BY <1>0, <1>2, <1>3, <1>4 DEF SameCore, ServerInv
<1>13. PeerInv(e, p3, used', offered', accepted', confirmed')
  <2>1. p3.sec0.key \in Keys(accepted')
    BY <1>11, <1>12 DEF Keys
  <2>2. p3.hs.sr <= used.sh /\ p3.hs.early = {}
    BY <1>0, <1>4 DEF NoHs, UsedType
  <2>3. ServerInv(p3, used', accepted')
    BY <1>4, <1>7, <2>1, <2>2 DEF ServerInv
  <2>4. p3.sec0.ep >= 0
    BY <1>0, <1>12, PeerFields DEF PeerInv, SecType
  <2> QED BY <1>0, <1>2, <1>3, <1>4, <2>2, <2>3, <2>4 DEF PeerInv, SameCore
<1>14. Repeatable(ccs, offered', accepted')
  BY <1>0, RecInv
<1>15. Repeatable(fin, offered', accepted')
  <2>1. /\ fin.typ = "FIN" /\ fin.frag = 0 /\ fin.dst = "C"
        /\ fin.hash = p1.hs.hash /\ <<fin.a, fin.b>> = Master(p)
    BY DEF Rec, Other, Master
  <2>2. [key |-> <<fin.a, fin.b>>, hash |-> fin.hash] \in accepted'
    BY <1>11, <2>1
  <2> HIDE DEF fin
  <2> QED BY <2>1, <2>2 DEF Sound, Repeatable
<1> HIDE DEF ccs, fin
<1>16. NetInv(rest, offered', accepted', confirmed')
  BY <1>0, <1>9, NetGrows DEF Grown
<1>17. NetInv(rest \cup {ccs, fin}, offered', accepted', confirmed')
  BY <1>14, <1>15, <1>16, RepeatableInv DEF NetInv
<1> QED BY <1>0, <1>7, <1>9, <1>10, <1>13, <1>17, NoQueue, StepInv

\* The client's Finished handler confirms the session the server accepted.
LEMMA ClientFinishedAgrees ==
    ASSUME NEW e, NEW p, NEW m, NEW st, NEW rest, Handling(e, p, m, st, rest),
           m.typ = "FIN", e = "C", Finished(e, p, m, st, rest)
    PROVE  EngineInv' /\ Agreed
<1> DEFINE ses == [key |-> Master(p), hash |-> p.hs.hash]
           p3  == [p EXCEPT !.state = "CONNECTED", !.hs = NoHs]
<1>0. /\ e \in Endpoint /\ p \in PeerRecord /\ m \in MsgRecord
      /\ HandlerTypes /\ EngineInv /\ used \in UsedType
      /\ PeerInv(e, p, used, offered, accepted, confirmed)
      /\ NetInv(rest, offered, accepted, confirmed)
      /\ p.state = "WAIT_FINISHED" /\ p.live /\ ClientInv(p, used, offered, confirmed)
  BY DEF Handling, HandlerTypes, Finished, PeerInv
<1>1. /\ p3.live = p.live /\ p3.sec0 = p.sec0 /\ p3.state = "CONNECTED"
      /\ p3.hs = NoHs
  BY <1>0 DEF PeerRecord
<1> HIDE DEF p3
<1>2. ses \in accepted
  <2>1. <<m.a, m.b>> = Master(p) /\ m.hash = p.hs.hash
    BY DEF Finished, FinishedMatches
  <2>2. [key |-> <<m.a, m.b>>, hash |-> m.hash] \in accepted
    BY DEF Handling, Sound
  <2> QED BY <2>1, <2>2
<1>3. \A t \in confirmed : t.key[1] # p.hs.cr
  BY <1>0 DEF ClientInv
<1>4. /\ Put(e, p3) /\ net' = rest /\ SetQueue(e, <<>>)
      /\ accepted' = accepted /\ confirmed' = confirmed \cup {ses}
      /\ used' = used /\ offered' = offered
  BY DEF Finished, ses, p3
<1>5. Abstract!Confirm(ses)
  <2>1. ses \notin confirmed
    BY <1>3 DEF Master
  <2> QED BY <1>2, <1>4, <2>1 DEF Abstract!Confirm
<1>6. Grown(e) /\ Agreed
  BY <1>2, <1>4, <1>5 DEF Grown, Agreed, Abstract!Next
<1>7. Counted(used', offered', accepted', confirmed')
  BY <1>0, <1>4 DEF EngineInv, Counted, ClientInv, Master
<1>8. PeerInv(e, p3, used', offered', accepted', confirmed')
  <2>1. p3.sec0.key \in Keys(confirmed')
    <3>1. p3.sec0.key = ses.key
      BY <1>0, <1>1 DEF ClientInv
    <3>2. ses \in confirmed'
      BY <1>4
    <3> HIDE DEF ses
    <3> QED BY <3>1, <3>2 DEF Keys
  <2>2. p3.hs.cr <= used.ch /\ p3.hs.early = {}
    BY <1>0, <1>1 DEF NoHs, UsedType
  <2>3. ClientInv(p3, used', offered', confirmed')
    BY <1>1, <1>4, <2>1, <2>2 DEF ClientInv
  <2> QED BY <1>0, <1>1, <2>2, <2>3 DEF PeerInv
<1>9. NetInv(rest, offered', accepted', confirmed')
  BY <1>0, <1>6, NetGrows DEF Grown
<1> QED BY <1>0, <1>4, <1>6, <1>7, <1>8, <1>9, NoQueue, StepInv

\* A new handshake of the client draws a random no session has used.
LEMMA StartHelloAgrees ==
    ASSUME HandlerTypes, EngineInv, NEW e, e = "C", NEW p \in PeerRecord, p.live,
           PeerInv(e, p, used, offered, accepted, confirmed),
           NEW h \in HsRecord, \A x \in h.early : x.dst = e /\ Sound(x, offered, accepted),
           NEW q \in QueueType, QueueInv(p, q, offered, accepted),
           NEW rest, NetInv(rest, offered, accepted, confirmed),
           StartHello(e, p, h, q, rest)
    PROVE  EngineInv' /\ Agreed
<1> DEFINE cr == used.ch + 1
           ch == Rec(Other(e), p.sec0, "CH", h.s, 0, cr, 0, <<>>)
           h1 == [h EXCEPT !.cr = cr, !.s = h.s + 1]
           p1 == [p EXCEPT !.state = "CLIENTHELLO", !.hs = h1]
           q1 == q \o Queue(<<ch>>)
<1>0. e \in Endpoint /\ used \in UsedType
  BY DEF Endpoint, HandlerTypes
<1>1. cr \in Nat /\ h.s \in Nat /\ used.ch \in Nat
  BY <1>0 DEF UsedType, HsRecord
<1>2. /\ ch \in MsgRecord /\ Repeatable(ch, offered, accepted)
  BY <1>0, <1>1, PeerFields, OtherType, EmptyTypes, RecType, RecInv DEF MsgType, HsType
<1> HIDE DEF ch
<1>3. /\ p1.live /\ p1.state = "CLIENTHELLO" /\ p1.sec0 = p.sec0
      /\ p1.hs.early = h.early /\ p1.hs.cr = used.ch + 1
  BY DEF PeerRecord, HsRecord
<1> HIDE DEF p1
<1>4. /\ Put(e, p1) /\ SetQueue(e, q1) /\ net' = rest \cup {ch}
      /\ used' = [used EXCEPT !.ch = used.ch + 1] /\ UNCHANGED hist
  BY DEF StartHello, cr, ch, h1, p1, q1
<1>5. used'.ch = used.ch + 1 /\ used'.sh = used.sh
  BY <1>0, <1>4 DEF UsedType
<1>6. /\ offered' = offered /\ accepted' = accepted /\ confirmed' = confirmed
      /\ Grown(e) /\ Agreed
  BY <1>4, <1>5 DEF hist, Grown, Agreed
<1>7. \A t \in offered \cup confirmed : t.key[1] <= used.ch /\ t.key[1] \in Nat
  BY DEF EngineInv, Counted, HandlerTypes, SessionRecord, Key
<1>8. Counted(used', offered', accepted', confirmed')
  BY <1>1, <1>5, <1>6, <1>7 DEF EngineInv, Counted
<1>9. PeerInv(e, p1, used', offered', accepted', confirmed')
  <2>1. \A t \in offered \cup confirmed : t.key[1] # p1.hs.cr
    BY <1>1, <1>3, <1>7
  <2>2. ClientInv(p1, used', offered', confirmed')
    BY <1>1, <1>3, <1>5, <1>6, <2>1 DEF ClientInv
  <2> QED BY <1>3, <1>6, <2>2 DEF PeerInv
<1>10. QueueInv(p1, q1, offered, accepted)
  <2>1. QueueInv(p1, Queue(<<ch>>), offered, accepted) /\ QueueInv(p1, q, offered, accepted)
    BY <1>2, <1>3, OneFlight DEF QueueInv
  <2>2. Queue(<<ch>>) \in QueueType
    BY <1>2, ShortSeqs, QueueTypes
  <2> QED BY <2>1, <2>2, ConcatQueue
<1>11. NetInv(rest \cup {ch}, offered, accepted, confirmed)
  BY <1>2, OneFlight, NetUnion
<1> HIDE DEF q1
<1> QED BY <1>0, <1>4, <1>6, <1>8, <1>9, <1>10, <1>11, StepInv

LEMMA HelloRequestAgrees ==
    ASSUME NEW e, NEW p, NEW m, NEW st, NEW rest, Handling(e, p, m, st, rest),
           p.live, m.typ = "HREQ", HelloRequest(e, p, m, st, rest)
    PROVE  EngineInv' /\ Agreed
<1> DEFINE h  == IF p.hs.on THEN p.hs ELSE NewHs(0, 0)
           h1 == [h EXCEPT !.r = @ + 1]
<1>0. /\ e = "C" /\ e \in Endpoint /\ p \in PeerRecord
      /\ HandlerTypes /\ EngineInv
      /\ PeerInv(e, p, used, offered, accepted, confirmed)
      /\ NetInv(rest, offered, accepted, confirmed)
  BY DEF Handling, Sound
<1>1. h \in HsRecord /\ \A x \in h.early : x.dst = e /\ Sound(x, offered, accepted)
  <2>1. NewHs(0, 0).early = {}
    BY DEF NewHs, NoHs
  <2> QED BY <1>0, <2>1, PeerFields, NewTypes DEF PeerInv
<1> HIDE DEF h
<1>2. h1 \in HsRecord /\ h1.early = h.early
  BY <1>1, SMTT(30) DEF HsRecord
<1> HIDE DEF h1
<1>3. CASE StartHello(e, p, h1, <<>>, rest)
  BY <1>0, <1>1, <1>2, <1>3, EmptyTypes, NoQueue, StartHelloAgrees
<1>4. CASE /\ Put(e, p) /\ net' = rest /\ SetQueue(e, <<>>) /\ UNCHANGED <<used, hist>>
  BY <1>0, <1>4, NoQueue, QuietStep
<1> QED BY <1>3, <1>4 DEF HelloRequest, h, h1

LEMMA HandleMsgAgrees ==
    ASSUME NEW e, NEW p, NEW m, NEW st, NEW rest, Handling(e, p, m, st, rest),
           p.live \/ m.typ = "CH", HandleMsg(e, p, m, st, rest)
    PROVE  EngineInv' /\ Agreed
<1>1. CASE m.typ = "HVR" /\ HelloVerifyRequest(e, p, m, st, rest)
  BY <1>1, HelloVerifyRequestAgrees
<1>2. CASE m.typ = "SH" /\ ServerHello(e, p, m, st, rest)
  BY <1>2, ServerHelloAgrees
<1>3. CASE m.typ = "SKX" /\ ServerKeyExchange(e, p, m, st, rest)
  BY <1>3, ServerKeyExchangeAgrees
<1>4. CASE m.typ = "SHD" /\ ServerHelloDone(e, p, m, st, rest)
  BY <1>4, ServerHelloDoneAgrees
<1>5. CASE m.typ = "CH" /\ ClientHello(e, p, m, st, rest)
  <2>1. st \in {"CONNECTED", "WAIT_CLIENTHELLO"}
    BY <1>5 DEF ClientHello
  <2> QED BY <1>5, <2>1, SendHelloVerifyAgrees, AcceptHelloAgrees DEF ClientHello
<1>6. CASE m.typ = "CKX" /\ ClientKeyExchange(e, p, m, st, rest)
  BY <1>6, ClientKeyExchangeAgrees
<1>7. CASE m.typ = "FIN" /\ Finished(e, p, m, st, rest)
  BY <1>7, ServerFinishedAgrees, ClientFinishedAgrees DEF Handling, Endpoint
<1>8. CASE m.typ = "HREQ" /\ HelloRequest(e, p, m, st, rest)
  BY <1>8, HelloRequestAgrees
<1>9. CASE /\ Fail(e, p, <<>>, rest)
           /\ \/ st \notin ExpectedIn[m.typ]
              \/ m.typ = "FIN"
  <2>1. p.live
    BY <1>9 DEF Handling, ExpectedIn
  <2> QED BY <1>9, <2>1, NoQueue, FailAgrees DEF Handling
<1> QED BY <1>1, <1>2, <1>3, <1>4, <1>5, <1>6, <1>7, <1>8, <1>9 DEF HandleMsg, Unexpected


-----------------------------------------------------------------------------
(* The records of a handshake message, and every other record *)

LEMMA SameHandling ==
    ASSUME NEW e, NEW p, NEW q \in PeerRecord, NEW m, NEW st, NEW rest,
           Handling(e, p, m, st, rest), SameCore(q, p), q.state = p.state,
           q.hs.early \subseteq p.hs.early
    PROVE  Handling(e, q, m, st, rest)
<1>1. PeerInv(e, q, used, offered, accepted, confirmed)
  BY CoreInv DEF Handling
<1> QED BY <1>1 DEF Handling, SameCore

LEMMA EarlyInv ==
    ASSUME NEW e, NEW p \in PeerRecord, p.live, NEW ms \in SUBSET MsgRecord,
           NEW u, NEW O, NEW A, NEW F, PeerInv(e, p, u, O, A, F),
           \A x \in ms : x.dst = e /\ Sound(x, O, A)
    PROVE  PeerInv(e, WithEarly(p, ms), u, O, A, F)
<1> DEFINE q == WithEarly(p, ms)
<1>1. SameCore(q, p) /\ q.state = p.state /\ q.hs.early = ms
  BY CoreOps
<1> HIDE DEF q
<1>2. PeerInv(e, q, u, O, A, F)
  BY <1>1 DEF PeerInv, ClientInv, ServerInv, SameCore, Master
<1> QED BY <1>2 DEF q

LEMMA InSequenceAgrees ==
    ASSUME NEW e, NEW p, NEW m, NEW st, NEW rest, Handling(e, p, m, st, rest),
           InSequence(e, p, m, st, rest)
    PROVE  EngineInv' /\ Agreed
<1> DEFINE q  == WithBuf(p, NoBuf)
           ms == p.hs.early \cup {m}
           pe == IF \E x \in p.hs.early : x.seq = m.seq THEN p ELSE WithEarly(p, ms)
<1>0. /\ e \in Endpoint /\ p \in PeerRecord /\ m \in MsgRecord /\ rest \in SUBSET MsgRecord
      /\ HandlerTypes /\ EngineInv /\ p.live = pr[e].live
      /\ PeerInv(e, p, used, offered, accepted, confirmed)
      /\ NetInv(rest, offered, accepted, confirmed)
      /\ m.dst = e /\ Sound(m, offered, accepted)
      /\ p.hs.on => p.live
  BY DEF Handling, PeerInv
<1>1. Handling(e, q, m, st, rest) /\ q.live = p.live
  <2>1. /\ q \in PeerRecord /\ SameCore(q, p) /\ q.state = p.state
        /\ q.hs.early = p.hs.early
    BY <1>0, NewTypes, PeerOps, CoreOps
  <2> HIDE DEF q
  <2> QED BY <2>1, SameHandling DEF SameCore
<1>2. ASSUME p.hs.on
      PROVE  /\ pe \in PeerRecord /\ pe.live = p.live
             /\ PeerInv(e, pe, used, offered, accepted, confirmed)
  <2>1. ms \in SUBSET MsgRecord
    BY <1>0, PeerFields
  <2>2. \A x \in ms : x.dst = e /\ Sound(x, offered, accepted)
    BY <1>0 DEF PeerInv
  <2> HIDE DEF ms
  <2> QED BY <1>0, <1>2, <2>1, <2>2, EarlyInv, PeerOps, CoreOps DEF SameCore
<1>3. CASE (p.live \/ m.typ = "CH") /\ HandleMsg(e, p, m, st, rest)
  BY <1>3, HandleMsgAgrees
<1>4. CASE Ignore(e, p, rest) \/ Skip(e, p, rest)
  BY <1>0, <1>4, IgnoreAgrees
<1>5. CASE p.hs.on /\ Skip(e, pe, rest)
  BY <1>0, <1>2, <1>5, IgnoreAgrees
<1>6. CASE p.hs.on /\ HandleMsg(e, q, m, st, rest)
  BY <1>0, <1>1, <1>6, HandleMsgAgrees
<1> QED BY <1>3, <1>4, <1>5, <1>6 DEF InSequence

LEMMA FragmentAgrees ==
    ASSUME NEW e, NEW p, NEW m, NEW st, NEW rest, Handling(e, p, m, st, rest),
           m.frag # 0, Fragment(e, p, m, st, rest)
    PROVE  EngineInv' /\ Agreed
<1> DEFINE b  == Reassembled(p.hs.buf, m)
           p1 == WithBuf(p, b)
           p2 == WithBuf(p, NoBuf)
           w  == [m EXCEPT !.frag = 0, !.seq = b.seq, !.a = b.a]
           w0 == [w EXCEPT !.a = Garbled]
<1>0. /\ e = "S" /\ e \in Endpoint /\ m.typ = "CKX" /\ p \in PeerRecord
      /\ m \in MsgRecord /\ HandlerTypes /\ EngineInv /\ p.live = pr[e].live
      /\ p.live /\ PeerInv(e, p, used, offered, accepted, confirmed)
      /\ rest \in SUBSET MsgRecord /\ NetInv(rest, offered, accepted, confirmed)
      /\ m.dst = e
  BY DEF Handling, Sound, Fragment, PeerInv
<1>1. b \in BufType
  BY <1>0, PeerFields, ReassembledType
<1> HIDE DEF b
<1>2. /\ p1 \in PeerRecord /\ SameCore(p1, p) /\ p1.state = p.state
      /\ p1.hs.early = p.hs.early
      /\ p2 \in PeerRecord /\ SameCore(p2, p) /\ p2.state = p.state
      /\ p2.hs.early = p.hs.early
  BY <1>0, <1>1, NewTypes, PeerOps, CoreOps
<1> HIDE DEF p1, p2
<1>3. Handling(e, p1, m, st, rest) /\ Handling(e, p2, m, st, rest)
  BY <1>2, SameHandling
<1>4. b.seq \in Nat /\ b.a \in Nat
  BY <1>1 DEF BufType
<1>5. w \in MsgRecord /\ w.typ = "CKX" /\ w.dst = "S" /\ w.frag = 0
  BY <1>0, <1>4, EmptyTypes DEF MsgRecord
<1> HIDE DEF w
<1>6. w0 \in MsgRecord /\ w0.typ = "CKX" /\ w0.dst = "S" /\ w0.frag = 0
  BY <1>5 DEF MsgRecord, Garbled
<1> HIDE DEF w0
<1>7. Handling(e, p1, w, st, rest) /\ Handling(e, p1, w0, st, rest)
  BY <1>0, <1>3, <1>5, <1>6 DEF Handling, Sound
<1>8. CASE Fail(e, p, sq[e], rest)
  <2>1. QueueInv(p, sq[e], offered, accepted)
    BY <1>0 DEF EngineInv, QueueInv
  <2> QED BY <1>0, <1>8, <2>1, FailAgrees
<1>9. CASE Ignore(e, p1, rest)
  BY <1>0, <1>2, <1>3, <1>9, IgnoreAgrees DEF Handling
<1>10. CASE InSequence(e, p1, w, st, rest) \/ InSequence(e, p1, w0, st, rest)
  BY <1>7, <1>10, InSequenceAgrees
<1>11. CASE Fail(e, p2, <<>>, rest)
  BY <1>0, <1>2, <1>3, <1>11, NoQueue, FailAgrees DEF Handling, SameCore
<1> QED BY <1>8, <1>9, <1>10, <1>11
        DEF Fragment, WholeMessage, Unexpected, b, p1, p2, w, w0

LEMMA ChangeCipherSpecAgrees ==
    ASSUME NEW e, NEW p, NEW m, NEW st, NEW rest, Handling(e, p, m, st, rest),
           ChangeCipherSpec(e, p, rest)
    PROVE  EngineInv' /\ Agreed
<1> DEFINE p0 == IF e = "S" THEN NextSec(p, Master(p)) ELSE p
           p1 == Enter(p0, "WAIT_FINISHED")
           q1 == IF p.live THEN <<>> ELSE sq[e]
<1>0. /\ e \in Endpoint /\ p \in PeerRecord
      /\ HandlerTypes /\ EngineInv /\ p.live = pr[e].live
      /\ PeerInv(e, p, used, offered, accepted, confirmed)
      /\ NetInv(rest, offered, accepted, confirmed)
  BY DEF Handling
<1>1. CASE /\ p.state = "WAIT_CHANGECIPHERSPEC" /\ Put(e, p1) /\ net' = rest
           /\ SetQueue(e, <<>>) /\ UNCHANGED <<used, hist>>
  <2>1. p.live /\ p.sec0.ep \in Int
    BY <1>0, <1>1, PeerFields DEF PeerInv, SecType
  <2>2. /\ p0 \in PeerRecord /\ p0.live = p.live /\ p0.state = p.state /\ p0.hs = p.hs
        /\ p0.sec0 = p.sec0
        /\ e = "S" => p0.sec1 = Sec(p.sec0.ep + 1, Master(p))
    BY <1>0, SecOps, SecFields, PeerFields
  <2> HIDE DEF p0
  <2>3. "WAIT_FINISHED" \in State
    BY DEF State, Waiting
  <2>4. /\ p1.live = p0.live /\ p1.state = "WAIT_FINISHED" /\ p1.hs = p0.hs
        /\ p1.sec0 = p0.sec0 /\ p1.sec1 = p0.sec1
    BY <2>2, <2>3, CoreOps DEF SameCore
  <2> HIDE DEF p1
  <2>5. CASE e = "S"
    <3>1. ServerInv(p, used, accepted)
      BY <1>0, <2>5 DEF PeerInv
    <3>2. ServerInv(p1, used, accepted)
      BY <1>1, <2>2, <2>4, <2>5, <3>1 DEF ServerInv, Master, Sec
    <3>3. PeerInv(e, p1, used, offered, accepted, confirmed)
      BY <1>0, <2>1, <2>2, <2>4, <2>5, <3>2 DEF PeerInv
    <3> QED BY <1>0, <1>1, <3>3, NoQueue, QuietStep
  <2>6. CASE e = "C"
    <3>1. ClientInv(p, used, offered, confirmed)
      BY <1>0, <2>6 DEF PeerInv
    <3>2. ClientInv(p1, used, offered, confirmed)
      BY <1>1, <2>2, <2>4, <2>6, <3>1 DEF ClientInv, Master
    <3>3. PeerInv(e, p1, used, offered, accepted, confirmed)
      BY <1>0, <2>1, <2>2, <2>4, <2>6, <3>2 DEF PeerInv
    <3> QED BY <1>0, <1>1, <3>3, NoQueue, QuietStep
  <2> QED BY <1>0, <2>5, <2>6 DEF Endpoint
<1>2. CASE Destroy(e, rest, {Alert(e, p, Fatal)})
  <2>1. NetInv({Alert(e, p, Fatal)}, offered, accepted, confirmed)
    BY <1>0, AlertInv, RepeatableInv DEF NetInv
  <2> QED BY <1>0, <1>2, <2>1, DestroyAgrees
<1>3. CASE Put(e, p) /\ net' = rest /\ SetQueue(e, q1) /\ UNCHANGED <<used, hist>>
  <2>1. QueueInv(p, q1, offered, accepted)
    <3>1. QueueInv(p, sq[e], offered, accepted)
      BY <1>0 DEF EngineInv, QueueInv
    <3> QED BY <3>1, NoQueue
  <2> HIDE DEF q1
  <2> QED BY <1>0, <1>3, <2>1, QuietStep
<1> HIDE DEF p1
<1> QED BY <1>1, <1>2, <1>3 DEF ChangeCipherSpec, p0, p1

LEMMA ReceiveAgrees ==
    ASSUME HandlerTypes, EngineInv, NEW e \in Endpoint, NEW m \in net, Receive(e, m)
    PROVE  EngineInv' /\ Agreed
<1> DEFINE p    == IF pr[e].live /\ Opens(pr[e], m) THEN AfterOpen(pr[e], m) ELSE pr[e]
           rest == Take(m)
           st   == CallState(e, pr[e], m)
<1>1. /\ m \in MsgRecord /\ pr[e] \in PeerRecord /\ m.dst = e
      /\ Sound(m, offered, accepted)
      /\ PeerInv(e, pr[e], used, offered, accepted, confirmed)
  BY DEF HandlerTypes, EngineInv, NetInv, Receive
<1>2. /\ p \in PeerRecord /\ p.live = pr[e].live /\ p.state = pr[e].state
      /\ PeerInv(e, p, used, offered, accepted, confirmed)
  BY <1>1, SecOps, FreeOtherInv
<1>3. rest \in SUBSET MsgRecord /\ NetInv(rest, offered, accepted, confirmed)
  BY DEF Take, HandlerTypes, EngineInv, NetInv
<1>4. Handling(e, p, m, st, rest)
  <2>1. st \in {pr[e].state, "WAIT_CLIENTHELLO"} /\ (~pr[e].live => st = "WAIT_CLIENTHELLO")
    BY DEF CallState
  <2> HIDE DEF p, rest, st
  <2> QED BY <1>1, <1>2, <1>3, <2>1 DEF Handling
<1>5. \/ DecryptError(e, p, rest) \/ ChangeCipherSpec(e, p, rest) \/ HandleAlert(e, p, m, rest)
      \/ Ignore(e, p, rest) \/ HandleHandshake(e, p, m, st, rest)
  BY DEF Receive
<1> HIDE DEF p, rest, st
<1>6. \A d : NetInv({Alert(e, p, d)}, offered, accepted, confirmed)
  BY AlertInv, RepeatableInv DEF NetInv
<1>7. NetInv({}, offered, accepted, confirmed)
  BY DEF NetInv
<1>8. CASE DecryptError(e, p, rest)
  BY <1>2, <1>3, <1>6, <1>8, DestroyAgrees, IgnoreAgrees DEF DecryptError
<1>9. CASE ChangeCipherSpec(e, p, rest)
  BY <1>4, <1>9, ChangeCipherSpecAgrees
<1>10. CASE HandleAlert(e, p, m, rest)
  BY <1>2, <1>3, <1>6, <1>7, <1>10, DestroyAgrees, IgnoreAgrees DEF HandleAlert
<1>11. CASE Ignore(e, p, rest)
  BY <1>2, <1>3, <1>11, IgnoreAgrees
<1>12. CASE HandleHandshake(e, p, m, st, rest)
  BY <1>4, <1>12, InSequenceAgrees, FragmentAgrees DEF HandleHandshake
<1> QED BY <1>5, <1>8, <1>9, <1>10, <1>11, <1>12

LEMMA DrainAgrees ==
    ASSUME HandlerTypes, EngineInv, NEW e \in Endpoint, Drain(e)
    PROVE  EngineInv' /\ Agreed
<1> DEFINE q(m) == WithEarly(pr[e], pr[e].hs.early \ {m})
<1>1. PICK m \in pr[e].hs.early : HandleMsg(e, q(m), m, pr[e].state, net)
  BY DEF Drain
<1>2. /\ pr[e] \in PeerRecord /\ net \in SUBSET MsgRecord
      /\ PeerInv(e, pr[e], used, offered, accepted, confirmed)
      /\ NetInv(net, offered, accepted, confirmed)
  BY DEF HandlerTypes, EngineInv
<1>3. /\ pr[e].live /\ m \in MsgRecord /\ m.dst = e /\ Sound(m, offered, accepted)
      /\ pr[e].hs.early \ {m} \in SUBSET MsgRecord
  BY <1>1, <1>2, PeerFields DEF PeerInv
<1>4. /\ q(m) \in PeerRecord /\ SameCore(q(m), pr[e]) /\ q(m).state = pr[e].state
      /\ q(m).hs.early = pr[e].hs.early \ {m}
  BY <1>2, <1>3, PeerOps, CoreOps
<1> HIDE DEF q
<1>5. PeerInv(e, q(m), used, offered, accepted, confirmed)
  BY <1>2, <1>4, CoreInv
<1>6. Handling(e, q(m), m, pr[e].state, net) /\ q(m).live
  BY <1>2, <1>3, <1>4, <1>5 DEF Handling, SameCore
<1> QED BY <1>1, <1>6, HandleMsgAgrees


-----------------------------------------------------------------------------
(* The calls of the application, the timer and the network *)

LEMMA ReceiveAppInv ==
    ASSUME HandlerTypes, EngineInv, NEW e \in Endpoint, NEW m \in net, ReceiveApp(e, m)
    PROVE  /\ EngineInv' /\ UNCHANGED hist
           /\ m.key \in Keys(IF e = "S" THEN confirmed ELSE accepted)
           /\ got' = [got EXCEPT ![e] = @ \cup {m.key}] \/ got' = got
<1> DEFINE p == AfterOpen(pr[e], m)
<1>1. /\ pr[e] \in PeerRecord /\ m \in MsgRecord
      /\ PeerInv(e, pr[e], used, offered, accepted, confirmed)
      /\ NetInv(Take(m), offered, accepted, confirmed)
      /\ QueueInv(pr[e], sq[e], offered, accepted)
  BY DEF HandlerTypes, EngineInv, NetInv, Take
<1>2. PeerInv(e, p, used, offered, accepted, confirmed)
  BY <1>1, FreeOtherInv
<1> HIDE DEF p
<1>3. UNCHANGED <<used, hist>> /\ net' = Take(m)
  BY DEF ReceiveApp
<1>4. ASSUME Put(e, p), SetQueue(e, <<>>) PROVE EngineInv'
  BY <1>1, <1>2, <1>3, <1>4, NoQueue, QuietStep
<1>5. ASSUME UNCHANGED <<pr, sq>> PROVE EngineInv'
  <2>1. Put(e, pr[e]) /\ SetQueue(e, sq[e])
    BY <1>5 DEF Put, SetQueue, HandlerTypes
  <2> QED BY <1>1, <1>3, <2>1, QuietStep
<1>6. m.key \in Keys(IF e = "S" THEN confirmed ELSE accepted)
  BY DEF ReceiveApp, EngineInv, NetInv, Established
<1> QED BY <1>3, <1>4, <1>5, <1>6 DEF ReceiveApp, p

LEMMA ResendInv ==
    ASSUME NEW p, NEW m \in MsgRecord, NEW O, NEW A, Repeatable(m, O, A)
    PROVE  Repeatable(Resend(p, m), O, A)
<1> DEFINE x == Resend(p, m)
<1>1. /\ x.typ = m.typ /\ x.dst = m.dst /\ x.frag = m.frag /\ x.seq = m.seq
      /\ x.a = m.a /\ x.b = m.b /\ x.hash = m.hash
  BY DEF Resend, MsgRecord
<1> HIDE DEF x
<1>2. Repeatable(x, O, A)
  BY <1>1 DEF Repeatable, Sound
<1> QED BY <1>2 DEF x

\* Nothing but the queue of e and the datagrams change.
LEMMA TimerStep ==
    ASSUME HandlerTypes, EngineInv, NEW e \in Endpoint, NEW q, SetQueue(e, q),
           UNCHANGED <<pr, used, hist>>, QueueInv(pr[e], q, offered, accepted),
           NetInv(net', offered, accepted, confirmed)
    PROVE  EngineInv' /\ Agreed
<1>1. Put(e, pr[e]) /\ PeerInv(e, pr[e], used, offered, accepted, confirmed)
  BY DEF Put, HandlerTypes, EngineInv
<1> QED BY <1>1, QuietStep

LEMMA RetransmitAgrees ==
    ASSUME HandlerTypes, EngineInv, NEW e \in Endpoint, Retransmit(e)
    PROVE  EngineInv' /\ Agreed
<1> DEFINE n  == Head(sq[e])
           t  == Tail(sq[e])
           n1 == [n EXCEPT !.cnt = @ + 1]
           R  == [m : MsgRecord, cnt : Nat]
<1>1. /\ sq[e] \in Seq(R) /\ sq[e] # <<>> /\ pr[e] \in PeerRecord
      /\ QueueInv(pr[e], sq[e], offered, accepted) /\ pr[e].live
      /\ NetInv(net, offered, accepted, confirmed)
      /\ UNCHANGED <<pr, used, hist>>
  BY DEF Retransmit, HandlerTypes, QueueType, EngineInv, QueueInv
<1>2. /\ n \in R /\ n = sq[e][1] /\ t \in Seq(R) /\ Len(t) = Len(sq[e]) - 1
      /\ Len(sq[e]) \in Nat /\ Len(sq[e]) >= 1
      /\ \A i \in 1..Len(t) : t[i] = sq[e][i + 1]
  <2> HIDE DEF R
  <2> QED BY <1>1, HeadTailProperties, LenProperties
<1>3. /\ Repeatable(n.m, offered, accepted)
      /\ \A i \in 1..Len(t) : Repeatable(t[i].m, offered, accepted)
  <2>1. 1 \in 1..Len(sq[e]) /\ \A i \in 1..Len(t) : i + 1 \in 1..Len(sq[e])
    BY <1>2
  <2> QED BY <1>1, <1>2, <2>1 DEF QueueInv
<1>4. /\ n.m \in MsgRecord /\ n1.m = n.m /\ n1 \in R
  BY <1>2
<1>5. QueueInv(pr[e], t, offered, accepted)
  BY <1>1, <1>3 DEF QueueInv
<1>6. Repeatable(Resend(pr[e], n.m), offered, accepted)
  BY <1>3, <1>4, ResendInv
<1> HIDE DEF n, t, n1
<1>7. QueueInv(pr[e], <<n1>>, offered, accepted)
  <2> DEFINE q == <<n1>>
  <2>1. Len(q) = 1 /\ q[1] = n1
    OBVIOUS
  <2> HIDE DEF q
  <2>2. \A i \in 1..Len(q) : Repeatable(q[i].m, offered, accepted)
    BY <1>3, <1>4, <2>1
  <2>3. QueueInv(pr[e], q, offered, accepted)
    BY <1>1, <2>2 DEF QueueInv
  <2> QED BY <2>3 DEF q
<1>8. QueueInv(pr[e], t \o <<n1>>, offered, accepted)
  <2>1. t \in QueueType /\ <<n1>> \in QueueType
    BY <1>2, <1>4 DEF QueueType
  <2> QED BY <1>5, <1>7, <2>1, ConcatQueue
<1>9. CASE SetQueue(e, t \o <<n1>>) /\ net' = net \cup {Resend(pr[e], n.m)}
  <2>1. NetInv(net \cup {Resend(pr[e], n.m)}, offered, accepted, confirmed)
    BY <1>1, <1>6, RepeatableInv DEF NetInv
  <2> QED BY <1>1, <1>8, <1>9, <2>1, TimerStep
<1>10. CASE SetQueue(e, t) /\ net' = net
  BY <1>1, <1>5, <1>10, TimerStep
<1> QED BY <1>9, <1>10 DEF Retransmit, n, t, n1

\* The application's bounds count no random.
LEMMA TearDownStep ==
    ASSUME HandlerTypes, EngineInv, NEW e \in Endpoint, NEW p, NEW q, NEW ms,
           TearDown, Put(e, p), SetQueue(e, q), net' = ms, UNCHANGED hist,
           PeerInv(e, p, used, offered, accepted, confirmed),
           QueueInv(p, q, offered, accepted), NetInv(ms, offered, accepted, confirmed)
    PROVE  EngineInv' /\ Agreed
<1>1. /\ used'.ch = used.ch /\ used'.sh = used.sh /\ offered' = offered
      /\ accepted' = accepted /\ confirmed' = confirmed
  BY DEF TearDown, HandlerTypes, UsedType, hist
<1>2. Grown(e) /\ Agreed
  BY <1>1 DEF Grown, Agreed, hist
<1>3. Counted(used', offered', accepted', confirmed')
  BY <1>1 DEF EngineInv, Counted
<1>4. PeerInv(e, p, used', offered', accepted', confirmed')
  BY <1>1 DEF PeerInv, ClientInv, ServerInv
<1> QED BY <1>1, <1>2, <1>3, <1>4, StepInv

LEMMA DiscardAgrees ==
    ASSUME HandlerTypes, EngineInv, NEW e \in Endpoint, NEW out,
           NetInv(out, offered, accepted, confirmed),
           Discard(e, net, out), TearDown, UNCHANGED hist
    PROVE  EngineInv' /\ Agreed
<1>1. used \in UsedType
  BY DEF HandlerTypes
<1>2. PeerInv(e, NoPeer, used, offered, accepted, confirmed)
  BY <1>1, NewInv
<1>3. NetInv(net \cup out, offered, accepted, confirmed)
  BY NetUnion DEF EngineInv
<1> QED BY <1>2, <1>3, NoQueue, TearDownStep DEF Discard

LEMMA RenegotiateAgrees ==
    ASSUME HandlerTypes, EngineInv, NEW e \in Endpoint, Renegotiate(e)
    PROVE  EngineInv' /\ Agreed
<1> DEFINE hreq == Rec(Other(e), pr[e].sec0, "HREQ", 0, 0, 0, 0, <<>>)
           p1   == [pr[e] EXCEPT !.hs = NewHs(0, 1)]
           q1   == sq[e] \o Queue(<<hreq>>)
<1>1. /\ pr[e] \in PeerRecord /\ pr[e].live /\ pr[e].state = "CONNECTED"
      /\ sq[e] \in QueueType /\ used \in UsedType
      /\ PeerInv(e, pr[e], used, offered, accepted, confirmed)
      /\ QueueInv(pr[e], sq[e], offered, accepted)
      /\ NetInv(net, offered, accepted, confirmed)
      /\ Counted(used, offered, accepted, confirmed)
  BY DEF Renegotiate, HandlerTypes, EngineInv
<1>2. NewHs(0, 0) \in HsRecord /\ NewHs(0, 0).early = {} /\ NewHs(0, 1).early = {}
      /\ NewHs(0, 1).sr = 0
  BY NewTypes DEF NewHs, NoHs
<1>3. CASE e = "C" /\ StartHello(e, pr[e], NewHs(0, 0), sq[e], net)
  BY <1>1, <1>2, <1>3, StartHelloAgrees
<1>4. CASE /\ e = "S" /\ Put(e, p1) /\ net' = net \cup {hreq} /\ SetQueue(e, q1)
           /\ used' = [used EXCEPT !.hreq = @ + 1] /\ UNCHANGED hist
  <2>1. hreq \in MsgRecord /\ Repeatable(hreq, offered, accepted)
    BY <1>1, <1>4, PeerFields, OtherType, EmptyTypes, RecType, RecInv DEF MsgType, HsType
  <2> HIDE DEF hreq
  <2>2. p1.live /\ p1.state = "CONNECTED" /\ p1.hs = NewHs(0, 1) /\ p1.sec0 = pr[e].sec0
    BY <1>1 DEF PeerRecord
  <2> HIDE DEF p1
  <2>3. /\ used'.ch = used.ch /\ used'.sh = used.sh /\ used.sh \in Nat
        /\ offered' = offered /\ accepted' = accepted /\ confirmed' = confirmed
    BY <1>1, <1>4 DEF UsedType, hist
  <2>4. Grown(e) /\ Agreed
    BY <2>3 DEF Grown, Agreed, hist
  <2>5. PeerInv(e, p1, used', offered', accepted', confirmed')
    <3>1. ServerInv(p1, used', accepted')
      BY <1>1, <1>2, <1>4, <2>2, <2>3 DEF PeerInv, ServerInv
    <3> QED BY <1>1, <1>2, <1>4, <2>2, <3>1 DEF PeerInv
  <2>6. QueueInv(p1, q1, offered, accepted)
    <3>1. QueueInv(p1, Queue(<<hreq>>), offered, accepted) /\ QueueInv(p1, sq[e], offered, accepted)
      BY <1>1, <2>1, <2>2, OneFlight DEF QueueInv
    <3>2. Queue(<<hreq>>) \in QueueType
      BY <2>1, ShortSeqs, QueueTypes
    <3> QED BY <1>1, <3>1, <3>2, ConcatQueue
  <2>7. NetInv(net \cup {hreq}, offered, accepted, confirmed)
    BY <1>1, <2>1, OneFlight, NetUnion
  <2>8. Counted(used', offered', accepted', confirmed')
    BY <1>1, <2>3 DEF Counted
  <2> HIDE DEF q1
  <2> QED BY <1>4, <2>3, <2>4, <2>5, <2>6, <2>7, <2>8, StepInv
<1> QED BY <1>3, <1>4 DEF Renegotiate, hreq, p1, q1


LEMMA ConnectAgrees ==
    ASSUME HandlerTypes, EngineInv, Connect
    PROVE  EngineInv' /\ Agreed
<1>1. /\ "C" \in Endpoint /\ sq["C"] \in QueueType /\ used \in UsedType
      /\ QueueInv(pr["C"], sq["C"], offered, accepted)
      /\ NetInv(net, offered, accepted, confirmed)
  BY DEF Endpoint, HandlerTypes, EngineInv
<1>2. sq["C"] = <<>> /\ StartHello("C", NewPeer, NewHs(0, 0), sq["C"], net)
  BY <1>1 DEF Connect, QueueInv
<1>3. NewHs(0, 0) \in HsRecord /\ NewHs(0, 0).early = {}
  BY NewTypes DEF NewHs, NoHs
<1>4. NewPeer \in PeerRecord /\ NewPeer.live
  BY NewTypes DEF NewPeer, NoPeer
<1>5. PeerInv("C", NewPeer, used, offered, accepted, confirmed)
  BY <1>1, NewInv
<1> QED BY <1>1, <1>2, <1>3, <1>4, <1>5, NoQueue, StartHelloAgrees

LEMMA WriteAgrees ==
    ASSUME HandlerTypes, EngineInv, NEW e \in Endpoint, Write(e)
    PROVE  EngineInv' /\ Agreed
<1> DEFINE x == Rec(Other(e), pr[e].sec0, "APP", 0, 0, 0, 0, <<>>)
<1>1. PeerInv(e, pr[e], used, offered, accepted, confirmed) /\ pr[e].state = "CONNECTED"
  BY DEF Write, EngineInv
<1>2. /\ x.typ = "APP" /\ x.frag = 0 /\ x.key = pr[e].sec0.key
      /\ x.dst = IF e = "C" THEN "S" ELSE "C"
  BY DEF Rec, Other
<1> HIDE DEF x
<1>3. Sound(x, offered, accepted) /\ Established(x, accepted, confirmed)
  BY <1>1, <1>2 DEF Sound, Established, PeerInv, ClientInv, ServerInv, Endpoint
<1>4. NetInv(net \cup {x}, offered, accepted, confirmed)
  BY <1>3 DEF NetInv, EngineInv
<1>5. net' = net \cup {x} /\ UNCHANGED <<pr, sq, used, hist>>
  BY DEF Write, x
<1>6. SetQueue(e, sq[e]) /\ QueueInv(pr[e], sq[e], offered, accepted)
  BY <1>5 DEF SetQueue, HandlerTypes, EngineInv
<1> QED BY <1>4, <1>5, <1>6, TimerStep

LEMMA CloseAgrees ==
    ASSUME HandlerTypes, EngineInv, NEW e \in Endpoint, Close(e)
    PROVE  EngineInv' /\ Agreed
<1> DEFINE p == Enter(pr[e], "CLOSING")
           x == Alert(e, pr[e], CloseNotify)
<1>1. /\ pr[e] \in PeerRecord /\ pr[e].live
      /\ PeerInv(e, pr[e], used, offered, accepted, confirmed)
      /\ QueueInv(pr[e], sq[e], offered, accepted)
      /\ NetInv(net, offered, accepted, confirmed)
  BY DEF Close, HandlerTypes, EngineInv
<1>2. SameCore(p, pr[e]) /\ p.state = "CLOSING" /\ p.hs = pr[e].hs
  BY <1>1, CoreOps DEF State
<1> HIDE DEF p
<1>3. PeerInv(e, p, used, offered, accepted, confirmed)
  BY <1>1, <1>2, ClosingInv
<1>4. QueueInv(p, sq[e], offered, accepted)
  BY <1>1, <1>2 DEF QueueInv, SameCore
<1>5. NetInv(net \cup {x}, offered, accepted, confirmed)
  BY <1>1, AlertInv, RepeatableInv DEF NetInv
<1> HIDE DEF x
<1>6. /\ TearDown /\ Put(e, p) /\ SetQueue(e, sq[e]) /\ net' = net \cup {x}
      /\ UNCHANGED hist
  BY DEF Close, SetQueue, HandlerTypes, p, x
<1> QED BY <1>3, <1>4, <1>5, <1>6, TearDownStep

LEMMA ResetAgrees ==
    ASSUME HandlerTypes, EngineInv, NEW e \in Endpoint, Reset(e)
    PROVE  EngineInv' /\ Agreed
<1> DEFINE out == IF pr[e].state \in {"CLOSED", "CLOSING"} THEN {}
                  ELSE {Alert(e, pr[e], CloseNotify)}
<1>1. NetInv(out, offered, accepted, confirmed)
  BY AlertInv, RepeatableInv DEF NetInv
<1>2. Discard(e, net, out) /\ TearDown /\ UNCHANGED hist
  BY DEF Reset
<1> HIDE DEF out
<1> QED BY <1>1, <1>2, DiscardAgrees

LEMMA NetworkAgrees ==
    ASSUME HandlerTypes, EngineInv, NEW m \in net, Lose(m)
    PROVE  EngineInv' /\ Agreed
<1>1. /\ used'.ch = used.ch /\ used'.sh = used.sh /\ net' \subseteq net
      /\ pr' = pr /\ sq' = sq
      /\ offered' = offered /\ accepted' = accepted /\ confirmed' = confirmed
  BY DEF Lose, HandlerTypes, UsedType, hist
<1>2. Agreed
  BY <1>1 DEF Agreed, hist
<1>3. \A e \in Endpoint : PeerInv(e, pr'[e], used', offered', accepted', confirmed')
  BY <1>1 DEF EngineInv, PeerInv, ClientInv, ServerInv
<1> QED BY <1>1, <1>2, <1>3 DEF EngineInv, NetInv, Counted

\* Every step of the engine preserves the invariant and is a step of
\* SessionAgreement or leaves the sessions alone.
LEMMA NextAgrees ==
    ASSUME HandlerTypes, EngineInv, [Next]_vars
    PROVE  EngineInv' /\ Agreed
<1>1. CASE Connect
  BY <1>1, ConnectAgrees
<1>2. CASE Arrival
  <2>1. ASSUME NEW e \in Endpoint, NEW m \in net, ReceiveApp(e, m)
        PROVE  EngineInv' /\ Agreed
    BY <2>1, ReceiveAppInv DEF Agreed
  <2>2. ASSUME NEW e \in Endpoint, NEW m \in net, ReceiveCrash(e, m)
        PROVE  EngineInv' /\ Agreed
    <3>1. /\ UNCHANGED <<pr, sq, used, hist>> /\ net' \subseteq net
      BY <2>2 DEF ReceiveCrash, Take
    <3>2. SetQueue(e, sq[e]) /\ QueueInv(pr[e], sq[e], offered, accepted)
      BY <3>1 DEF SetQueue, HandlerTypes, EngineInv
    <3>3. NetInv(net', offered, accepted, confirmed)
      BY <3>1 DEF NetInv, EngineInv
    <3> QED BY <3>1, <3>2, <3>3, TimerStep
  <2> QED BY <1>2, <2>1, <2>2, ReceiveAgrees, DrainAgrees DEF Arrival
<1>3. CASE Timer
  BY <1>3, RetransmitAgrees DEF Timer
<1>4. CASE Application
  <2>1. CASE ClientRestart
    <3>1. NetInv({}, offered, accepted, confirmed) /\ "C" \in Endpoint
      BY DEF NetInv, Endpoint
    <3> QED BY <2>1, <3>1, DiscardAgrees DEF ClientRestart
  <2> QED BY <1>4, <2>1, RenegotiateAgrees, WriteAgrees, CloseAgrees, ResetAgrees
          DEF Application
<1>5. CASE Network
  BY <1>5, NetworkAgrees DEF Network
<1>6. CASE UNCHANGED vars
  <2>1. UNCHANGED <<pr, sq, net, used, offered, accepted, confirmed>>
    BY <1>6 DEF vars
  <2> QED BY <2>1 DEF EngineInv, Agreed, hist, NetInv, Counted, PeerInv, ClientInv,
          ServerInv, QueueInv, Keys, Master
<1> QED BY <1>1, <1>2, <1>3, <1>4, <1>5, <1>6 DEF Next

-----------------------------------------------------------------------------
(* Theorems *)

LEMMA TypesHold == TypeOK => HandlerTypes
BY TypeOKSplit

LEMMA InitEngine == Init => EngineInv
<1> SUFFICES ASSUME Init PROVE EngineInv
  OBVIOUS
<1>1. used \in UsedType /\ used.ch = 0 /\ used.sh = 0
  BY DEF Init, UsedType
<1>2. \A e \in Endpoint : PeerInv(e, pr[e], used, offered, accepted, confirmed)
  BY <1>1, NewInv DEF Init
<1>3. \A e \in Endpoint : QueueInv(pr[e], sq[e], offered, accepted)
  BY NoQueue DEF Init
<1> QED BY <1>2, <1>3 DEF Init, NetInv, Counted, EngineInv

\* The invariant of the engine holds, whatever the network and the application
\* do and for every value of the constants.
THEOREM EngineInvariant == Spec => []EngineInv
<1>1. TypeOK /\ EngineInv /\ [Next]_vars => EngineInv'
  BY TypesHold, NextAgrees
<1> QED BY <1>1, InitEngine, TypeCorrect, PTL DEF Spec

\* The handshake of dtls.c implements SessionAgreement: the server completes
\* only a session the client sent its Finished for, the client one the server
\* completed, and no key is completed twice.
THEOREM Agreement == Spec => ImplementsAgreement
<1>1. Init => Abstract!Init
  BY DEF Init, Abstract!Init
<1>2. TypeOK /\ EngineInv /\ [Next]_vars => [Abstract!Next]_(Abstract!absvars)
  BY TypesHold, NextAgrees DEF Agreed, hist, Abstract!absvars
<1> QED BY <1>1, <1>2, EngineInvariant, TypeCorrect, PTL
        DEF Spec, ImplementsAgreement, Abstract!Spec

\* A CONNECTED peer sends under a key of a session its own endpoint completed.
THEOREM KeyedSending == Spec => []KeyedWhenConnected
<1>1. EngineInv => KeyedWhenConnected
  BY DEF EngineInv, PeerInv, ClientInv, ServerInv, KeyedWhenConnected, Endpoint
<1> QED BY <1>1, EngineInvariant, PTL

\* No peer is without current security parameters, and the server that waits
\* for a Finished has those of the next epoch.
THEOREM Secured == Spec => []AlwaysSecured
<1>1. EngineInv => AlwaysSecured
  BY DEF EngineInv, PeerInv, ServerInv, AlwaysSecured
<1> QED BY <1>1, EngineInvariant, PTL

\* A node of the send queue never outlives the peer object it points to.
THEOREM TimersNotDangling == Spec => []NoDanglingTimer
<1>1. EngineInv => NoDanglingTimer
  BY DEF EngineInv, QueueInv, NoDanglingTimer
<1> QED BY <1>1, EngineInvariant, PTL


LEMMA HistoryGrows ==
    ASSUME Agreed
    PROVE  Keys(accepted) \subseteq Keys(accepted') /\ Keys(confirmed) \subseteq Keys(confirmed')
<1>1. accepted \subseteq accepted' /\ confirmed \subseteq confirmed'
  BY DEF Agreed, hist, Abstract!Next, Abstract!Offer, Abstract!Accept, Abstract!Confirm
<1> QED BY <1>1 DEF Keys

\* Application data comes from a session that its sender had completed.
THEOREM EstablishedData == Spec => []DataFromEstablished
<1>1. Init => DataFromEstablished
  BY DEF Init, DataFromEstablished, Endpoint
<1>2. TypeOK /\ EngineInv /\ DataFromEstablished /\ [Next]_vars => DataFromEstablished'
  <2> SUFFICES ASSUME TypeOK, EngineInv, DataFromEstablished, [Next]_vars
               PROVE  DataFromEstablished'
    OBVIOUS
  <2>1. HandlerTypes /\ got \in [Endpoint -> SUBSET Key]
    BY TypeOKSplit
  <2>2. /\ Keys(accepted) \subseteq Keys(accepted')
        /\ Keys(confirmed) \subseteq Keys(confirmed')
    BY <2>1, NextAgrees, HistoryGrows
  <2>3. ASSUME NEW e \in Endpoint, NEW m \in net, ReceiveApp(e, m)
        PROVE  DataFromEstablished'
    <3>1. /\ m.key \in Keys(IF e = "S" THEN confirmed ELSE accepted)
          /\ got' = [got EXCEPT ![e] = @ \cup {m.key}] \/ got' = got
      BY <2>1, <2>3, ReceiveAppInv
    <3> QED BY <2>1, <2>2, <3>1 DEF DataFromEstablished, Endpoint
  <2>4. CASE got' = got
    BY <2>2, <2>4 DEF DataFromEstablished
  <2> QED BY <2>3, <2>4, ZenonT(60) DEF Next, Connect, Arrival, Timer, Application, Network, vars,
          Receive, Drain, ReceiveCrash, Retransmit, Lose, ClientRestart, Renegotiate,
          Write, Close, Reset
<1> QED BY <1>1, <1>2, EngineInvariant, TypeCorrect, PTL DEF Spec

-----------------------------------------------------------------------------
(* A closing peer *)

LEMMA PutClosing ==
    ASSUME HandlerTypes, NEW e \in Endpoint, NEW q, q.state = "CLOSING", Put(e, q)
    PROVE  pr'[e].state = "CLOSING"
BY DEF HandlerTypes, Put

LEMMA ClosingMsg ==
    ASSUME HandlerTypes, NEW e \in Endpoint, NEW p \in PeerRecord, p.live,
           p.state = "CLOSING", NEW m, NEW rest, HandleMsg(e, p, m, "CLOSING", rest)
    PROVE  pr'[e].state = "CLOSING"
<1>1. Put(e, p) \/ Put(e, Enter(p, "CLOSING"))
  BY DEF HandleMsg, HelloVerifyRequest, ServerHello, ServerKeyExchange, ServerHelloDone,
         ClientHello, ClientKeyExchange, Finished, HelloRequest, Unexpected, Fail
<1>2. Enter(p, "CLOSING").state = "CLOSING"
  BY DEF Enter, PeerRecord
<1> QED BY <1>1, <1>2, PutClosing

LEMMA ClosingInSequence ==
    ASSUME HandlerTypes, NEW e \in Endpoint, NEW p \in PeerRecord, p.live,
           p.state = "CLOSING", NEW m \in MsgRecord, NEW rest,
           InSequence(e, p, m, "CLOSING", rest)
    PROVE  pr'[e].state = "CLOSING"
<1> DEFINE q  == WithBuf(p, NoBuf)
           pe == WithEarly(p, p.hs.early \cup {m})
<1>1. q \in PeerRecord /\ q.live /\ q.state = "CLOSING"
  BY NewTypes, PeerOps, CoreOps DEF SameCore
<1>2. pe.state = "CLOSING"
  <2>1. p.hs.early \cup {m} \in SUBSET MsgRecord
    BY PeerFields
  <2> QED BY <2>1, CoreOps
<1> HIDE DEF q, pe
<1>3. CASE HandleMsg(e, p, m, "CLOSING", rest) \/ HandleMsg(e, q, m, "CLOSING", rest)
  BY <1>1, <1>3, ClosingMsg
<1>4. CASE Skip(e, p, rest) \/ Skip(e, pe, rest)
  BY <1>2, <1>4, PutClosing DEF Skip
<1> QED BY <1>3, <1>4 DEF InSequence, q, pe

LEMMA ClosingFragment ==
    ASSUME HandlerTypes, NEW e \in Endpoint, NEW p \in PeerRecord, p.live,
           p.state = "CLOSING", NEW m \in MsgRecord, NEW rest,
           Fragment(e, p, m, "CLOSING", rest)
    PROVE  pr'[e].state = "CLOSING"
<1> DEFINE b  == Reassembled(p.hs.buf, m)
           p1 == WithBuf(p, b)
           p2 == WithBuf(p, NoBuf)
           w  == [m EXCEPT !.frag = 0, !.seq = b.seq, !.a = b.a]
           w0 == [w EXCEPT !.a = Garbled]
<1>1. b \in BufType
  BY PeerFields, ReassembledType
<1> HIDE DEF b
<1>2. p1 \in PeerRecord /\ p1.live /\ p1.state = "CLOSING"
  BY <1>1, PeerOps, CoreOps DEF SameCore
<1> HIDE DEF p1, p2
<1>3. b.seq \in Nat /\ b.a \in Nat
  BY <1>1 DEF BufType
<1>4. w \in MsgRecord
  BY <1>3, EmptyTypes DEF MsgRecord
<1> HIDE DEF w
<1>5. w0 \in MsgRecord
  BY <1>4 DEF MsgRecord, Garbled
<1> HIDE DEF w0
<1>6. CASE Fail(e, p, sq[e], rest) \/ Fail(e, p2, <<>>, rest)
  <2>1. Enter(p, "CLOSING").state = "CLOSING" /\ Enter(p2, "CLOSING").state = "CLOSING"
    <3>1. p2 \in PeerRecord
      BY NewTypes, PeerOps DEF p2
    <3> QED BY <3>1 DEF Enter, PeerRecord
  <2> QED BY <1>6, <2>1, PutClosing DEF Fail
<1>7. CASE Ignore(e, p1, rest)
  BY <1>2, <1>7, PutClosing DEF Ignore
<1>8. CASE InSequence(e, p1, w, "CLOSING", rest) \/ InSequence(e, p1, w0, "CLOSING", rest)
  BY <1>2, <1>4, <1>5, <1>8, ClosingInSequence
<1> QED BY <1>6, <1>7, <1>8 DEF Fragment, WholeMessage, Unexpected, b, p1, p2, w, w0

LEMMA ClosingReceive ==
    ASSUME HandlerTypes, EngineInv, NEW e \in Endpoint, NEW m \in net, Receive(e, m),
           pr[e].state = "CLOSING"
    PROVE  pr'[e].state = "CLOSING" \/ pr'[e] = NoPeer
<1> DEFINE p    == IF pr[e].live /\ Opens(pr[e], m) THEN AfterOpen(pr[e], m) ELSE pr[e]
           rest == Take(m)
           st   == CallState(e, pr[e], m)
           open == ~p.live \/ Opens(pr[e], m)
<1>1. /\ m \in MsgRecord /\ pr[e] \in PeerRecord /\ pr[e].live
      /\ PeerInv(e, pr[e], used, offered, accepted, confirmed)
  BY DEF HandlerTypes, EngineInv, PeerInv
<1>2. /\ p \in PeerRecord /\ p.live /\ p.state = "CLOSING" /\ p.sec0 = pr[e].sec0
  BY <1>1, SecOps, FreeOtherInv
<1>3. \/ DecryptError(e, p, rest) \/ ChangeCipherSpec(e, p, rest) \/ HandleAlert(e, p, m, rest)
      \/ Ignore(e, p, rest)
      \/ /\ open \/ RehandshakeAttempt(p, m)
         /\ ~WrongEpoch(e, p, m) /\ HandleHandshake(e, p, m, st, rest)
  BY DEF Receive
<1> HIDE DEF p, rest
<1>4. ASSUME NEW out, Destroy(e, rest, out) PROVE pr'[e] = NoPeer
  BY <1>4 DEF Destroy, Discard, Put, HandlerTypes
<1>5. CASE DecryptError(e, p, rest)
  BY <1>2, <1>4, <1>5, PutClosing DEF DecryptError, Ignore
<1>6. CASE ChangeCipherSpec(e, p, rest)
  BY <1>2, <1>6, PutClosing DEF ChangeCipherSpec
<1>7. CASE HandleAlert(e, p, m, rest)
  BY <1>2, <1>4, <1>7 DEF HandleAlert
<1>8. CASE Ignore(e, p, rest)
  BY <1>2, <1>8, PutClosing DEF Ignore
<1>9. CASE /\ open \/ RehandshakeAttempt(p, m)
           /\ ~WrongEpoch(e, p, m) /\ HandleHandshake(e, p, m, st, rest)
  <2>1. ~RehandshakeAttempt(p, m)
    BY <1>2 DEF RehandshakeAttempt
  <2>2. Opens(pr[e], m) /\ m.ep = ExpectedEpoch(e, p)
    BY <1>2, <1>9, <2>1 DEF WrongEpoch
  <2>3. ExpectedEpoch(e, p) = ExpectedEpoch(e, pr[e])
    BY <1>2 DEF ExpectedEpoch
  <2>4. st = "CLOSING"
    BY <1>1, <2>2, <2>3 DEF CallState
  <2> HIDE DEF st
  <2> QED BY <1>1, <1>2, <1>9, <2>4, ClosingInSequence, ClosingFragment DEF HandleHandshake
<1> QED BY <1>3, <1>5, <1>6, <1>7, <1>8, <1>9

LEMMA ClosingDrain ==
    ASSUME HandlerTypes, EngineInv, NEW e \in Endpoint, Drain(e),
           pr[e].state = "CLOSING"
    PROVE  pr'[e].state = "CLOSING"
<1> DEFINE q(m) == WithEarly(pr[e], pr[e].hs.early \ {m})
<1>1. PICK m \in pr[e].hs.early : HandleMsg(e, q(m), m, pr[e].state, net)
  BY DEF Drain
<1>2. pr[e] \in PeerRecord /\ pr[e].live
  BY <1>1 DEF HandlerTypes, EngineInv, PeerInv
<1>3. pr[e].hs.early \ {m} \in SUBSET MsgRecord
  BY <1>2, PeerFields
<1>4. q(m) \in PeerRecord /\ q(m).live /\ q(m).state = "CLOSING"
  BY <1>2, <1>3, PeerOps, CoreOps DEF SameCore
<1> HIDE DEF q
<1> QED BY <1>1, <1>4, ClosingMsg

LEMMA OthersKeep ==
    ASSUME HandlerTypes, NEW e \in Endpoint, NEW f \in Endpoint, e # f, NEW p, Put(f, p)
    PROVE  pr'[e] = pr[e]
BY SMTT(30) DEF HandlerTypes, Put

\* Every handler changes the peer of its own endpoint only.
LEMMA MsgPuts ==
    ASSUME NEW e, NEW p, NEW m, NEW st, NEW rest, HandleMsg(e, p, m, st, rest)
    PROVE  \E q : Put(e, q)
BY DEF HandleMsg, HelloVerifyRequest, ServerHello, ServerKeyExchange, ServerHelloDone,
       ClientHello, SendHelloVerify, AcceptHello, ClientKeyExchange, Finished,
       HelloRequest, StartHello, Unexpected, Fail

LEMMA InSequencePuts ==
    ASSUME NEW e, NEW p, NEW m, NEW st, NEW rest, InSequence(e, p, m, st, rest)
    PROVE  \E q : Put(e, q)
BY MsgPuts DEF InSequence, Ignore, Skip

LEMMA ReceivePuts ==
    ASSUME NEW e, NEW m, Receive(e, m) PROVE \E q : Put(e, q)
<1>1. ASSUME NEW p, NEW st, NEW rest, HandleHandshake(e, p, m, st, rest)
      PROVE  \E q : Put(e, q)
  BY <1>1, InSequencePuts DEF HandleHandshake, Fragment, WholeMessage, Ignore, Fail,
          Unexpected
<1>2. ASSUME NEW p, NEW rest,
             DecryptError(e, p, rest) \/ ChangeCipherSpec(e, p, rest)
             \/ HandleAlert(e, p, m, rest) \/ Ignore(e, p, rest)
      PROVE  \E q : Put(e, q)
  BY <1>2 DEF DecryptError, ChangeCipherSpec, HandleAlert, Ignore, Destroy, Discard
<1> QED BY <1>1, <1>2 DEF Receive

\* A peer that is CLOSING stays so until its object is freed.
THEOREM ClosingStays == Spec => ClosingIsFinal
<1>1. ASSUME TypeOK, EngineInv, [Next]_vars, NEW e \in Endpoint, pr[e].state = "CLOSING"
      PROVE  pr'[e].state = "CLOSING" \/ pr'[e] = NoPeer
  <2>1. HandlerTypes /\ pr[e] \in PeerRecord /\ pr[e].live
    BY <1>1, TypesHold DEF HandlerTypes, EngineInv, PeerInv
  <2>2. ASSUME NEW f \in Endpoint, NEW q, Put(f, q), f # e
        PROVE  pr'[e].state = "CLOSING"
    BY <1>1, <2>1, <2>2, OthersKeep
  <2>3. CASE pr' = pr
    BY <1>1, <2>3
  <2>4. CASE Connect
    <3>1. "C" \in Endpoint /\ e # "C"
      BY <2>1, <2>4 DEF Connect, Endpoint
    <3> QED BY <2>2, <2>4, <3>1 DEF Connect, StartHello
  <2>5. ASSUME NEW f \in Endpoint, Drain(f)
        PROVE  pr'[e].state = "CLOSING"
    <3>1. CASE f = e
      BY <1>1, <2>1, <2>5, <3>1, ClosingDrain
    <3>2. CASE f # e
      <4>1. \E q : Put(f, q)
        BY <2>5, MsgPuts DEF Drain
      <4> QED BY <2>2, <3>2, <4>1
    <3> QED BY <3>1, <3>2
  <2>6. ASSUME NEW f \in Endpoint, NEW m \in net, Receive(f, m)
        PROVE  pr'[e].state = "CLOSING" \/ pr'[e] = NoPeer
    <3>1. CASE f = e
      BY <1>1, <2>1, <2>6, <3>1, ClosingReceive
    <3>2. CASE f # e
      BY <2>2, <2>6, <3>2, ReceivePuts
    <3> QED BY <3>1, <3>2
  <2>7. ASSUME NEW f \in Endpoint, NEW m \in net, ReceiveApp(f, m)
        PROVE  pr'[e].state = "CLOSING"
    <3>1. CASE Put(f, AfterOpen(pr[f], m)) /\ f = e
      <4>1. AfterOpen(pr[e], m).state = pr[e].state
        BY <1>1, <2>1, FreeOtherInv DEF EngineInv
      <4> QED BY <1>1, <2>1, <3>1, <4>1, PutClosing
    <3> QED BY <1>1, <2>2, <2>7, <3>1 DEF ReceiveApp
  <2>8. CASE ClientRestart \/ \E f \in Endpoint : Reset(f)
    <3>1. PICK f \in Endpoint : Put(f, NoPeer)
      BY <2>8 DEF ClientRestart, Reset, Discard, Endpoint
    <3>2. f = e => pr'[e] = NoPeer
      BY <2>1, <3>1 DEF Put, HandlerTypes
    <3> QED BY <2>2, <3>1, <3>2
  <2>9. ASSUME NEW f \in Endpoint, Renegotiate(f)
        PROVE  pr'[e].state = "CLOSING"
    <3>1. f # e
      BY <1>1, <2>9 DEF Renegotiate
    <3>2. \E q : Put(f, q)
      BY <2>9 DEF Renegotiate, StartHello
    <3> QED BY <2>2, <3>1, <3>2
  <2>10. ASSUME NEW f \in Endpoint, Close(f)
         PROVE  pr'[e].state = "CLOSING"
    <3>1. Put(f, Enter(pr[f], "CLOSING"))
      BY <2>10 DEF Close
    <3>2. f = e => Enter(pr[f], "CLOSING").state = "CLOSING"
      BY <2>1 DEF Enter, PeerRecord
    <3> QED BY <2>1, <2>2, <3>1, <3>2, PutClosing
  <2>11. CASE Timer \/ Network \/ UNCHANGED vars \/ \E f \in Endpoint : Write(f)
    BY <2>3, <2>11 DEF Timer, Retransmit, Network, Lose, vars, Write
  <2>12. ASSUME NEW f \in Endpoint, NEW m \in net, ReceiveCrash(f, m) PROVE pr' = pr
    BY <2>12 DEF ReceiveCrash
  <2> QED BY <1>1, <2>3, <2>4, <2>5, <2>6, <2>7, <2>8, <2>9, <2>10, <2>11, <2>12
          DEF Next, Arrival, Application
<1>2. TypeOK /\ EngineInv /\ [Next]_vars =>
         [\A e \in Endpoint : pr[e].state = "CLOSING" =>
             pr'[e].state = "CLOSING" \/ pr'[e] = NoPeer]_vars
  BY <1>1
<1> QED BY <1>2, EngineInvariant, TypeCorrect, PTL DEF Spec, ClosingIsFinal

-----------------------------------------------------------------------------
(* Message sequence numbers: what the reorder buffer holds, and in which order
   messages enter the transcript *)

\* The messages of the reorder buffer have different numbers, from r on.
Buffered(early, r) ==
    \A x, y \in early : x.seq >= r /\ (x.seq = y.seq => x = y)

\* The transcript h: each side's messages in the order of their numbers ...
InOrder(h) ==
    \A i, j \in DOMAIN h :
        i < j /\ FromClient(h[i]) = FromClient(h[j]) => h[i].seq < h[j].seq

\* ... the client's below c and the server's below s.
Below(h, c, s) ==
    \A i \in DOMAIN h : h[i].seq < (IF FromClient(h[i]) THEN c ELSE s)

\* e hashes what it sends below mseq_s and what it receives below mseq_r.  A
\* client without a key for its Finished closes between the two.
Ordered(e, p) ==
    /\ p.hs.on \/ p.hs.early = {}
    /\ e = "C" /\ p.state = "CONNECTED" => ~p.hs.on
    /\ InOrder(p.hs.hash)
    /\ e = "C" /\ p.state # "CLOSING" => Below(p.hs.hash, p.hs.s, p.hs.r)
    /\ e = "S" => Below(p.hs.hash, p.hs.r, p.hs.s)

OrderInv ==
    \A e \in Endpoint : Ordered(e, pr[e]) /\ Buffered(pr[e].hs.early, pr[e].hs.r)


\* A message is about to be handled by the peer p of e.
Ready(e, p, m, st, rest) ==
    /\ Handling(e, p, m, st, rest) /\ Ordered(e, p)
    /\ Buffered(p.hs.early, p.hs.r + 1)
    /\ IF p.hs.on THEN m.seq = p.hs.r ELSE m.typ \in {"CH", "HREQ"}

\* The step leaves e with a peer in order.
Orderly(e) ==
    \E q : Put(e, q) /\ Ordered(e, q) /\ Buffered(q.hs.early, q.hs.r)

-----------------------------------------------------------------------------
(* Sequences and sets *)

LEMMA PairIsConcat ==
    ASSUME NEW S, NEW a \in S, NEW b \in S
    PROVE  <<a>> \o <<b>> = <<a, b>>
<1> DEFINE s == <<a>>
           t == <<b>>
           u == s \o t
           v == <<a, b>>
<1>1. /\ s \in Seq(S) /\ Len(s) = 1 /\ s[1] = a
      /\ t \in Seq(S) /\ Len(t) = 1 /\ t[1] = b
      /\ v \in Seq(S) /\ Len(v) = 2 /\ v[1] = a /\ v[2] = b
  BY ShortSeqs
<1> HIDE DEF s, t, v
<1>2. /\ u \in Seq(S) /\ Len(u) = 2
      /\ \A i \in 1..2 : u[i] = IF i <= 1 THEN s[i] ELSE t[i - 1]
  BY <1>1, ConcatProperties
<1> HIDE DEF u
<1>3. \A i \in 1..2 : u[i] = v[i]
  BY <1>1, <1>2
<1>4. u = v
  BY <1>1, <1>2, <1>3, SeqEqual
<1> QED BY <1>4 DEF s, t, u, v

LEMMA EmptyOrder == ASSUME NEW c, NEW s PROVE InOrder(<<>>) /\ Below(<<>>, c, s)
BY DEF InOrder, Below

LEMMA BelowGrows ==
    ASSUME NEW h \in Seq(EntryType), NEW c \in Nat, NEW s \in Nat,
           NEW c2 \in Nat, NEW s2 \in Nat, c <= c2, s <= s2, Below(h, c, s)
    PROVE  Below(h, c2, s2)
<1>1. \A i \in DOMAIN h : h[i].seq \in Nat
  <2>1. \A i \in DOMAIN h : h[i] \in EntryType
    BY ElementOfSeq, LenProperties
  <2> QED BY <2>1 DEF EntryType
<1> QED BY <1>1 DEF Below

LEMMA AppendOrder ==
    ASSUME NEW h \in Seq(EntryType), NEW x \in EntryType, NEW c \in Nat, NEW s \in Nat,
           InOrder(h), Below(h, c, s),
           NEW c2 \in Nat, NEW s2 \in Nat, c <= c2, s <= s2,
           IF FromClient(x) THEN c <= x.seq /\ x.seq < c2 ELSE s <= x.seq /\ x.seq < s2
    PROVE  InOrder(h \o <<x>>) /\ Below(h \o <<x>>, c2, s2)
<1> DEFINE g == h \o <<x>>
           n == Len(h)
<1>1. n \in Nat /\ DOMAIN h = 1..n /\ DOMAIN g = 1..n + 1 /\ x.seq \in Nat
      /\ g[n + 1] = x /\ \A i \in 1..n : g[i] = h[i] /\ h[i].seq \in Nat
  <2>1. <<x>> \in Seq(EntryType) /\ Len(<<x>>) = 1 /\ <<x>>[1] = x
    BY ShortSeqs
  <2>2. n \in Nat /\ DOMAIN h = 1..n /\ \A i \in 1..n : h[i] \in EntryType
    BY ElementOfSeq, LenProperties
  <2>3. g \in Seq(EntryType) /\ Len(g) = n + 1
        /\ \A i \in 1..n + 1 : g[i] = IF i <= n THEN h[i] ELSE <<x>>[i - n]
    BY <2>1, ConcatProperties
  <2>4. DOMAIN g = 1..n + 1
    BY <2>3, LenProperties
  <2> HIDE DEF g, n
  <2>5. n + 1 \in 1..n + 1 /\ ~(n + 1 <= n) /\ (n + 1) - n = 1
    BY <2>2
  <2> QED BY <2>1, <2>2, <2>3, <2>4, <2>5 DEF EntryType
<1> HIDE DEF g, n
<1>2. \A i \in 1..n : h[i].seq < (IF FromClient(h[i]) THEN c ELSE s)
  BY <1>1 DEF Below
<1>3. ASSUME NEW i \in DOMAIN g PROVE g[i].seq < (IF FromClient(g[i]) THEN c2 ELSE s2)
  <2>1. CASE i \in 1..n
    BY <1>1, <1>2, <2>1
  <2>2. CASE i = n + 1
    BY <1>1, <2>2
  <2> QED BY <1>1, <2>1, <2>2
<1>4. ASSUME NEW i \in DOMAIN g, NEW j \in DOMAIN g, i < j,
             FromClient(g[i]) = FromClient(g[j])
      PROVE  g[i].seq < g[j].seq
  <2>1. i \in 1..n
    BY <1>1, <1>4
  <2>2. CASE j \in 1..n
    BY <1>1, <1>4, <2>1, <2>2 DEF InOrder
  <2>3. CASE j = n + 1
    <3>1. h[i].seq < (IF FromClient(x) THEN c ELSE s)
      BY <1>1, <1>2, <1>4, <2>1, <2>3
    <3> QED BY <1>1, <2>1, <2>3, <3>1
  <2> QED BY <1>1, <2>2, <2>3
<1> QED BY <1>3, <1>4 DEF InOrder, Below, g

LEMMA PairOrder ==
    ASSUME NEW h \in Seq(EntryType), NEW x \in EntryType, NEW y \in EntryType
    PROVE  /\ h \o <<x, y>> = (h \o <<x>>) \o <<y>>
           /\ h \o <<x>> \in Seq(EntryType)
           /\ <<>> \o <<x>> = <<x>>
<1>1. <<x>> \in Seq(EntryType) /\ <<y>> \in Seq(EntryType)
  BY ShortSeqs
<1>2. <<x, y>> = <<x>> \o <<y>>
  BY PairIsConcat
<1>3. h \o <<x>> \in Seq(EntryType) /\ <<>> \o <<x>> = <<x>>
  BY <1>1, ConcatProperties, ConcatEmptySeq
<1>4. h \o (<<x>> \o <<y>>) = (h \o <<x>>) \o <<y>>
  BY <1>1, ConcatAssociative
<1> QED BY <1>2, <1>3, <1>4

LEMMA BufferedShrinks ==
    ASSUME NEW early \in SUBSET MsgRecord, NEW r \in Nat, Buffered(early, r + 1)
    PROVE  Buffered(early, r)
<1>1. \A x \in early : x.seq \in Nat
  BY MsgFields
<1> QED BY <1>1 DEF Buffered


\* The server's flight is numbered consecutively.
LEMMA ServerHelloNumbers ==
    ASSUME NEW sec \in SecType, NEW s \in Nat, NEW sr \in Nat
    PROVE  LET f == ServerHelloFlight("S", sec, s, sr) IN
           /\ f \in Seq(MsgRecord)
           /\ \A i \in 1..Len(f) : f[i].seq = s + i - 1 /\ f[i].typ \in {"SH", "SKX", "SHD"}
<1> DEFINE f   == ServerHelloFlight("S", sec, s, sr)
           sh  == Rec(Other("S"), sec, "SH", s, 0, sr, 0, <<>>)
           skx == Rec(Other("S"), sec, "SKX", s + 1, 0, 0, 0, <<>>)
           n1  == s + 1 + Len(<<>>)
           n2  == s + 1 + Len(<<skx>>)
           d1  == Rec(Other("S"), sec, "SHD", n1, 0, 0, 0, <<>>)
           d2  == Rec(Other("S"), sec, "SHD", n2, 0, 0, 0, <<>>)
           T   == {"SH", "SKX", "SHD"}
<1>0. "S" \in Endpoint /\ s + 1 \in Nat /\ T \subseteq MsgType
  BY DEF Endpoint, MsgType, HsType
<1>1. n1 = s + 1 /\ n2 = s + 2
  OBVIOUS
<1> HIDE DEF n1, n2
<1>2. /\ sh \in MsgRecord /\ sh.seq = s /\ sh.typ \in T
      /\ skx \in MsgRecord /\ skx.seq = s + 1 /\ skx.typ \in T
      /\ d1 \in MsgRecord /\ d1.seq = s + 1 /\ d1.typ \in T
      /\ d2 \in MsgRecord /\ d2.seq = s + 2 /\ d2.typ \in T
  <2>1. ASSUME NEW typ \in T, NEW k \in Nat, NEW a \in Nat
        PROVE  LET x == Rec(Other("S"), sec, typ, k, 0, a, 0, <<>>)
               IN  x \in MsgRecord /\ x.seq = k /\ x.typ \in T
    <3>1. typ \in MsgType
      BY <1>0
    <3> HIDE DEF T
    <3> QED BY <1>0, <2>1, <3>1, OtherType, EmptyTypes, RecType DEF Rec
  <2>2. s + 1 \in Nat /\ n1 \in Nat /\ n2 \in Nat
    BY <1>1
  <2> QED BY <1>1, <2>1, <2>2
<1> HIDE DEF sh, skx, d1, d2
<1>3. /\ <<sh>> \in Seq(MsgRecord) /\ Len(<<sh>>) = 1 /\ <<sh>>[1] = sh
      /\ <<skx>> \in Seq(MsgRecord) /\ Len(<<skx>>) = 1 /\ <<skx>>[1] = skx
      /\ <<d1>> \in Seq(MsgRecord) /\ Len(<<d1>>) = 1 /\ <<d1>>[1] = d1
      /\ <<d2>> \in Seq(MsgRecord) /\ Len(<<d2>>) = 1 /\ <<d2>>[1] = d2
  BY <1>2, ShortSeqs
<1>4. CASE PskHint
  <2> DEFINE u == <<sh>> \o <<skx>>
             v == u \o <<d2>>
  <2>1. f = v
    BY <1>4 DEF ServerHelloFlight, sh, skx, d2, n2
  <2>2. /\ u \in Seq(MsgRecord) /\ Len(u) = 2
        /\ \A i \in 1..2 : u[i] = IF i <= 1 THEN <<sh>>[i] ELSE <<skx>>[i - 1]
    BY <1>3, ConcatProperties
  <2> HIDE DEF u
  <2>3. /\ v \in Seq(MsgRecord) /\ Len(v) = 3
        /\ \A i \in 1..3 : v[i] = IF i <= 2 THEN u[i] ELSE <<d2>>[i - 2]
    BY <1>3, <2>2, ConcatProperties
  <2> HIDE DEF v
  <2>4. v[1] = sh /\ v[2] = skx /\ v[3] = d2
    BY <1>3, <2>2, <2>3
  <2>5. \A i \in 1..Len(v) : v[i].seq = s + i - 1 /\ v[i].typ \in T
    BY <1>2, <2>3, <2>4
  <2> QED BY <2>1, <2>3, <2>5
<1>5. CASE ~PskHint
  <2> DEFINE u == <<sh>> \o <<>>
             v == u \o <<d1>>
  <2>1. f = v
    BY <1>5 DEF ServerHelloFlight, sh, d1, n1
  <2>2. u = <<sh>>
    BY <1>3, ConcatEmptySeq
  <2> HIDE DEF u
  <2>3. /\ v \in Seq(MsgRecord) /\ Len(v) = 2
        /\ \A i \in 1..2 : v[i] = IF i <= 1 THEN u[i] ELSE <<d1>>[i - 1]
    BY <1>3, <2>2, ConcatProperties
  <2> HIDE DEF v
  <2>4. v[1] = sh /\ v[2] = d1
    BY <1>3, <2>2, <2>3
  <2>5. \A i \in 1..Len(v) : v[i].seq = s + i - 1 /\ v[i].typ \in T
    BY <1>2, <2>3, <2>4
  <2> QED BY <2>1, <2>3, <2>5
<1> QED BY <1>4, <1>5

\* The hash that starts with a ClientHello and the server's flight.
LEMMA HelloOrder ==
    ASSUME NEW x \in EntryType, FromClient(x), NEW log \in Seq(EntryType),
           NEW s \in Nat, NEW c \in Nat, x.seq < c,
           \A i \in 1..Len(log) : log[i].seq = s + i - 1 /\ ~FromClient(log[i])
    PROVE  InOrder(<<x>> \o log) /\ Below(<<x>> \o log, c, s + Len(log))
<1> DEFINE g == <<x>> \o log
           n == Len(log)
<1>1. <<x>> \in Seq(EntryType) /\ Len(<<x>>) = 1 /\ <<x>>[1] = x /\ n \in Nat
  BY ShortSeqs, LenProperties
<1>2. /\ g \in Seq(EntryType) /\ Len(g) = 1 + n
      /\ \A i \in 1..1 + n : g[i] = IF i <= 1 THEN <<x>>[i] ELSE log[i - 1]
  BY <1>1, ConcatProperties
<1>3. DOMAIN g = 1..1 + n
  BY <1>2, LenProperties
<1> HIDE DEF g, n
<1>4. g[1] = x /\ \A i \in 2..1 + n : g[i].seq = s + i - 2 /\ ~FromClient(g[i])
  <2>1. \A i \in 2..1 + n : i - 1 \in 1..n /\ g[i] = log[i - 1]
    BY <1>1, <1>2
  <2>2. \A i \in 2..1 + n : g[i].seq = s + (i - 1) - 1 /\ ~FromClient(g[i])
    BY <2>1 DEF n
  <2>3. g[1] = x
    BY <1>1, <1>2
  <2> QED BY <1>1, <2>2, <2>3
<1>5. \A i \in 1..1 + n : i = 1 \/ i \in 2..1 + n
  BY <1>1
<1>6. Below(g, c, s + n)
  <2>1. ASSUME NEW i \in 1..1 + n
        PROVE  g[i].seq < (IF FromClient(g[i]) THEN c ELSE s + n)
    BY <1>1, <1>4, <1>5
  <2> QED BY <1>3, <2>1 DEF Below
<1>7. InOrder(g)
  <2>1. ASSUME NEW i \in 1..1 + n, NEW j \in 1..1 + n, i < j,
               FromClient(g[i]) = FromClient(g[j])
        PROVE  g[i].seq < g[j].seq
    <3>1. j \in 2..1 + n
      BY <1>1, <2>1
    <3>2. i \in 2..1 + n
      BY <1>4, <1>5, <2>1, <3>1
    <3> QED BY <1>1, <1>4, <2>1, <3>1, <3>2
  <2> QED BY <1>3, <2>1 DEF InOrder
<1> QED BY <1>6, <1>7 DEF g, n


\* One instance of CoreOps at a time.
LEMMA HashedFields ==
    ASSUME NEW p \in PeerRecord, NEW es \in Seq(EntryType), NEW q, q = Hashed(p, es)
    PROVE  /\ q \in PeerRecord /\ q.state = p.state /\ q.hs.early = p.hs.early
           /\ q.hs.on = p.hs.on /\ q.hs.hash = p.hs.hash \o es
           /\ q.hs.s = p.hs.s /\ q.hs.r = p.hs.r
<1>1. SameCore(q, p)
  BY CoreOps
<1>2. /\ q.state = p.state /\ q.hs.early = p.hs.early /\ q.hs.s = p.hs.s
      /\ q.hs.r = p.hs.r /\ q.hs.hash = p.hs.hash \o es
  BY CoreOps
<1>3. q \in PeerRecord
  BY PeerOps
<1> QED BY <1>1, <1>2, <1>3 DEF SameCore

LEMMA AdvanceFields ==
    ASSUME NEW p \in PeerRecord, NEW dr \in Nat, NEW ds \in Nat, NEW q, q = Advance(p, dr, ds)
    PROVE  /\ q \in PeerRecord /\ q.state = p.state /\ q.hs.early = p.hs.early
           /\ q.hs.on = p.hs.on /\ q.hs.hash = p.hs.hash
           /\ q.hs.s = p.hs.s + ds /\ q.hs.r = p.hs.r + dr
<1>1. SameCore(q, p)
  BY CoreOps
<1>2. /\ q.state = p.state /\ q.hs.early = p.hs.early /\ q.hs.s = p.hs.s + ds
      /\ q.hs.r = p.hs.r + dr /\ q.hs.hash = p.hs.hash
  BY CoreOps
<1>3. q \in PeerRecord
  BY PeerOps
<1> QED BY <1>1, <1>2, <1>3 DEF SameCore

-----------------------------------------------------------------------------
(* Every handler keeps the order *)

LEMMA FailOrder ==
    ASSUME NEW e \in Endpoint, NEW p \in PeerRecord, NEW q, NEW rest, Fail(e, p, q, rest),
           p.hs.on \/ p.hs.early = {}, InOrder(p.hs.hash),
           e = "S" => Below(p.hs.hash, p.hs.r, p.hs.s),
           Buffered(p.hs.early, p.hs.r)
    PROVE  Orderly(e)
<1> DEFINE p1 == Enter(p, "CLOSING")
<1>1. p1.state = "CLOSING" /\ p1.hs = p.hs
  BY DEF Enter, PeerRecord
<1> HIDE DEF p1
<1>2. Ordered(e, p1) /\ Buffered(p1.hs.early, p1.hs.r)
  BY <1>1 DEF Ordered
<1>3. Put(e, p1)
  BY DEF Fail, p1
<1> QED BY <1>2, <1>3 DEF Orderly

LEMMA HelloVerifyRequestOrder ==
    ASSUME NEW e, NEW p, NEW m, NEW st, NEW rest, Ready(e, p, m, st, rest),
           m.typ = "HVR", HelloVerifyRequest(e, p, m, st, rest)
    PROVE  Orderly(e)
<1> DEFINE x  == Entry("CH", p.hs.s, p.hs.cr, m.a)
           p1 == Rehashed(p, <<x>>)
           p2 == Advance(p1, 1, 1)
<1>0. /\ e = "C" /\ p \in PeerRecord /\ m \in MsgRecord /\ p.state = "CLIENTHELLO"
      /\ Ordered(e, p) /\ Buffered(p.hs.early, p.hs.r + 1)
      /\ p.hs.s \in Nat /\ p.hs.r \in Nat
  BY PeerFields DEF Ready, Handling, Sound, HelloVerifyRequest
<1>1. x \in EntryType /\ x.seq = p.hs.s /\ FromClient(x)
  BY <1>0, PeerFields, MsgFields, EntryTypes DEF HsType, Entry, FromClient
<1> HIDE DEF x
<1>2. <<x>> \in Seq(EntryType) /\ <<>> \o <<x>> = <<x>>
  BY <1>1, EntrySeqs, ConcatEmptySeq
<1>3. InOrder(<<x>>) /\ Below(<<x>>, p.hs.s + 1, p.hs.r + 1)
  <2>1. /\ <<>> \in Seq(EntryType) /\ InOrder(<<>>) /\ Below(<<>>, p.hs.s, p.hs.r)
        /\ p.hs.s + 1 \in Nat /\ p.hs.r + 1 \in Nat
        /\ p.hs.s <= p.hs.s + 1 /\ p.hs.r <= p.hs.r + 1
    BY <1>0, EmptyOrder, EmptyTypes
  <2>2. p.hs.s <= x.seq /\ x.seq < p.hs.s + 1
    BY <1>0, <1>1
  <2> QED BY <1>0, <1>1, <1>2, <2>1, <2>2, AppendOrder
<1>4. /\ p1 \in PeerRecord /\ p1.state = p.state /\ p1.hs.early = p.hs.early
      /\ p1.hs.on = p.hs.on /\ p1.hs.hash = <<x>> /\ p1.hs.s = p.hs.s /\ p1.hs.r = p.hs.r
  BY <1>0, <1>2, PeerOps, CoreOps DEF SameCore
<1> HIDE DEF p1
<1>5. /\ p2.state = p.state /\ p2.hs.early = p.hs.early /\ p2.hs.on = p.hs.on
      /\ p2.hs.hash = <<x>> /\ p2.hs.s = p.hs.s + 1 /\ p2.hs.r = p.hs.r + 1
  BY <1>4, CoreOps DEF SameCore
<1> HIDE DEF p2
<1>6. Ordered(e, p2) /\ Buffered(p2.hs.early, p2.hs.r)
  BY <1>0, <1>3, <1>5 DEF Ordered
<1>7. Put(e, p2)
  BY DEF HelloVerifyRequest, x, p1, p2
<1> QED BY <1>6, <1>7 DEF Orderly

LEMMA ServerHelloOrder ==
    ASSUME NEW e, NEW p, NEW m, NEW st, NEW rest, Ready(e, p, m, st, rest),
           m.typ = "SH", ServerHello(e, p, m, st, rest)
    PROVE  Orderly(e)
<1> DEFINE h  == [p.hs EXCEPT !.sr = m.a]
           x  == Entry("SH", m.seq, m.a, 0)
           p1 == [p EXCEPT !.hs = h]
           p2 == Hashed(p1, <<x>>)
           p3 == Enter(p2, "WAIT_SERVERHELLODONE")
           p4 == Advance(p3, 1, 0)
<1>0. /\ e = "C" /\ p \in PeerRecord /\ m \in MsgRecord /\ p.state = "CLIENTHELLO"
      /\ Ordered(e, p) /\ Buffered(p.hs.early, p.hs.r + 1) /\ m.seq = p.hs.r
      /\ p.hs.s \in Nat /\ p.hs.r \in Nat /\ p.hs.r + 1 \in Nat /\ p.hs.hash \in Seq(EntryType)
  BY PeerFields DEF Ready, Handling, Sound, ServerHello
<1>1. x \in EntryType /\ x.seq = p.hs.r /\ ~FromClient(x)
  BY <1>0, MsgFields, EntryTypes DEF HsType, Entry, FromClient
<1>2. <<x>> \in Seq(EntryType)
  BY <1>1, EntrySeqs
<1>3. /\ h \in HsRecord /\ h.on = p.hs.on /\ h.early = p.hs.early /\ h.hash = p.hs.hash
      /\ h.r = p.hs.r /\ h.s = p.hs.s
  BY <1>0, PeerFields, MsgFields DEF HsRecord
<1> HIDE DEF h, x
<1>4. p1 \in PeerRecord /\ p1.hs = h
  BY <1>0, <1>3 DEF PeerRecord
<1> HIDE DEF p1
<1>5. /\ p2 \in PeerRecord /\ p2.hs.early = h.early /\ p2.hs.on = h.on
      /\ p2.hs.hash = h.hash \o <<x>> /\ p2.hs.s = h.s /\ p2.hs.r = h.r
  BY <1>2, <1>4, PeerOps, CoreOps DEF SameCore
<1> HIDE DEF p2
<1>6. "WAIT_SERVERHELLODONE" \in State
  BY DEF State, Waiting
<1>7. p3 \in PeerRecord /\ p3.state = "WAIT_SERVERHELLODONE" /\ p3.hs = p2.hs
  BY <1>5, <1>6, SetHs, CoreOps, PeerFields
<1> HIDE DEF p3
<1>8. /\ p4.state = p3.state /\ p4.hs.early = p3.hs.early /\ p4.hs.on = p3.hs.on
      /\ p4.hs.hash = p3.hs.hash /\ p4.hs.s = p3.hs.s + 0 /\ p4.hs.r = p3.hs.r + 1
  BY <1>7, CoreOps DEF SameCore
<1> HIDE DEF p4
<1>9. InOrder(p.hs.hash \o <<x>>) /\ Below(p.hs.hash \o <<x>>, p.hs.s, p.hs.r + 1)
  <2>1. p.hs.r <= p.hs.r + 1 /\ p.hs.s <= p.hs.s /\ p.hs.r <= x.seq /\ x.seq < p.hs.r + 1
    BY <1>0, <1>1
  <2> QED BY <1>0, <1>1, <2>1, AppendOrder DEF Ordered
<1>10. Ordered(e, p4) /\ Buffered(p4.hs.early, p4.hs.r)
  BY <1>0, <1>3, <1>5, <1>7, <1>8, <1>9 DEF Ordered
<1>11. Put(e, p4)
  BY DEF ServerHello, h, x, p1, p2, p3, p4
<1> QED BY <1>10, <1>11 DEF Orderly


LEMMA ServerKeyExchangeOrder ==
    ASSUME NEW e, NEW p, NEW m, NEW st, NEW rest, Ready(e, p, m, st, rest),
           m.typ = "SKX", ServerKeyExchange(e, p, m, st, rest)
    PROVE  Orderly(e)
<1> DEFINE x  == Entry("SKX", m.seq, 0, 0)
           p1 == Hashed(p, <<x>>)
           p2 == Advance(p1, 1, 0)
<1>0. /\ e = "C" /\ p \in PeerRecord /\ m \in MsgRecord
      /\ p.state = "WAIT_SERVERHELLODONE"
      /\ Ordered(e, p) /\ Buffered(p.hs.early, p.hs.r + 1) /\ m.seq = p.hs.r
      /\ p.hs.s \in Nat /\ p.hs.r \in Nat /\ p.hs.r + 1 \in Nat /\ p.hs.hash \in Seq(EntryType)
  BY PeerFields DEF Ready, Handling, Sound, ServerKeyExchange
<1>1. x \in EntryType /\ x.seq = p.hs.r /\ ~FromClient(x)
  BY <1>0, MsgFields, EntryTypes DEF HsType, Entry, FromClient
<1>2. <<x>> \in Seq(EntryType)
  BY <1>1, EntrySeqs
<1> HIDE DEF x
<1>3. /\ p1 \in PeerRecord /\ p1.hs.early = p.hs.early /\ p1.hs.on = p.hs.on
      /\ p1.state = p.state
      /\ p1.hs.hash = p.hs.hash \o <<x>> /\ p1.hs.s = p.hs.s /\ p1.hs.r = p.hs.r
  BY <1>0, <1>2, PeerOps, CoreOps DEF SameCore
<1> HIDE DEF p1
<1>4. /\ p2.state = p1.state /\ p2.hs.early = p1.hs.early /\ p2.hs.on = p1.hs.on
      /\ p2.hs.hash = p1.hs.hash /\ p2.hs.s = p1.hs.s + 0 /\ p2.hs.r = p1.hs.r + 1
  <2>1. p1 \in PeerRecord /\ 1 \in Nat /\ 0 \in Nat /\ p2 = Advance(p1, 1, 0)
    BY <1>3
  <2> HIDE DEF p2
  <2> QED BY <2>1, AdvanceFields
<1> HIDE DEF p2
<1>5. InOrder(p.hs.hash \o <<x>>) /\ Below(p.hs.hash \o <<x>>, p.hs.s, p.hs.r + 1)
  <2>1. p.hs.r <= p.hs.r + 1 /\ p.hs.s <= p.hs.s /\ p.hs.r <= x.seq /\ x.seq < p.hs.r + 1
    BY <1>0, <1>1
  <2> QED BY <1>0, <1>1, <2>1, AppendOrder DEF Ordered
<1>6. Ordered(e, p2) /\ Buffered(p2.hs.early, p2.hs.r)
  BY <1>0, <1>3, <1>4, <1>5 DEF Ordered
<1>7. Put(e, p2)
  BY DEF ServerKeyExchange, x, p1, p2
<1> QED BY <1>6, <1>7 DEF Orderly

LEMMA ClientKeyExchangeOrder ==
    ASSUME NEW e, NEW p, NEW m, NEW st, NEW rest, Ready(e, p, m, st, rest),
           m.typ = "CKX", ClientKeyExchange(e, p, m, st, rest)
    PROVE  Orderly(e)
<1> DEFINE x  == Entry("CKX", m.seq, m.a, 0)
           p1 == Hashed(p, <<x>>)
           p2 == Enter(p1, "WAIT_CHANGECIPHERSPEC")
           p3 == Advance(p2, 1, 0)
<1>0. /\ e = "S" /\ p \in PeerRecord /\ m \in MsgRecord
      /\ Ordered(e, p) /\ Buffered(p.hs.early, p.hs.r + 1) /\ m.seq = p.hs.r
      /\ p.hs.s \in Nat /\ p.hs.r \in Nat /\ p.hs.r + 1 \in Nat /\ p.hs.hash \in Seq(EntryType)
  BY PeerFields DEF Ready, Handling, Sound
<1>1. x \in EntryType /\ x.seq = p.hs.r /\ FromClient(x)
  BY <1>0, MsgFields, EntryTypes DEF HsType, Entry, FromClient
<1>2. <<x>> \in Seq(EntryType)
  BY <1>1, EntrySeqs
<1> HIDE DEF x
<1>3. /\ p1 \in PeerRecord /\ p1.hs.early = p.hs.early /\ p1.hs.on = p.hs.on
      /\ p1.hs.hash = p.hs.hash \o <<x>> /\ p1.hs.s = p.hs.s /\ p1.hs.r = p.hs.r
  BY <1>0, <1>2, PeerOps, CoreOps DEF SameCore
<1> HIDE DEF p1
<1>4. "WAIT_CHANGECIPHERSPEC" \in State
  BY DEF State, Waiting
<1>5. p2 \in PeerRecord /\ p2.hs = p1.hs
  BY <1>3, <1>4, SetHs, CoreOps, PeerFields
<1> HIDE DEF p2
<1>6. /\ p3.hs.early = p2.hs.early /\ p3.hs.on = p2.hs.on
      /\ p3.hs.hash = p2.hs.hash /\ p3.hs.s = p2.hs.s + 0 /\ p3.hs.r = p2.hs.r + 1
  BY <1>5, CoreOps DEF SameCore
<1> HIDE DEF p3
<1>7. InOrder(p.hs.hash \o <<x>>) /\ Below(p.hs.hash \o <<x>>, p.hs.r + 1, p.hs.s)
  <2>1. p.hs.r <= p.hs.r + 1 /\ p.hs.s <= p.hs.s /\ p.hs.r <= x.seq /\ x.seq < p.hs.r + 1
    BY <1>0, <1>1
  <2> QED BY <1>0, <1>1, <2>1, AppendOrder DEF Ordered
<1>8. Ordered(e, p3) /\ Buffered(p3.hs.early, p3.hs.r)
  BY <1>0, <1>3, <1>5, <1>6, <1>7 DEF Ordered
<1>9. Put(e, p3)
  BY DEF ClientKeyExchange, x, p1, p2, p3
<1> QED BY <1>8, <1>9 DEF Orderly

LEMMA ServerHelloDoneOrder ==
    ASSUME NEW e, NEW p, NEW m, NEW st, NEW rest, Ready(e, p, m, st, rest),
           m.typ = "SHD", ServerHelloDone(e, p, m, st, rest)
    PROVE  Orderly(e)
<1> DEFINE x  == Entry("SHD", m.seq, 0, 0)
           y  == Entry("CKX", p.hs.s, p.hs.cr, 0)
           z  == Entry("FIN", p.hs.s + 1, 0, 0)
           h1 == p.hs.hash \o <<x, y>>
           p1 == Hashed(p, <<x, y>>)
           p2 == Switch(NextSec(p1, Master(p)))
           p3 == Hashed(p2, <<z>>)
           p4 == Enter(p3, "WAIT_CHANGECIPHERSPEC")
           p5 == Advance(p4, 1, 2)
           q1 == NextSec(p1, NoKey)
           q2 == Advance(q1, 0, 1)
           ckx == KeyExchangeFlight(e, p)
<1>0. /\ e = "C" /\ e \in Endpoint /\ p \in PeerRecord /\ m \in MsgRecord
      /\ p.state = "WAIT_SERVERHELLODONE"
      /\ Ordered(e, p) /\ Buffered(p.hs.early, p.hs.r + 1) /\ m.seq = p.hs.r
      /\ p.hs.s \in Nat /\ p.hs.r \in Nat /\ p.hs.hash \in Seq(EntryType)
      /\ p.hs.r + 1 \in Nat /\ p.hs.s + 1 \in Nat /\ p.hs.s + 2 \in Nat
      /\ p.hs.early \in SUBSET MsgRecord
  BY PeerFields DEF Ready, Handling, Sound, ServerHelloDone
<1>1. /\ x \in EntryType /\ x.seq = p.hs.r /\ ~FromClient(x)
      /\ y \in EntryType /\ y.seq = p.hs.s /\ FromClient(y)
      /\ z \in EntryType /\ z.seq = p.hs.s + 1 /\ FromClient(z)
  BY <1>0, PeerFields, MsgFields, EntryTypes DEF HsType, Entry, FromClient
<1>2. <<x, y>> \in Seq(EntryType) /\ <<z>> \in Seq(EntryType)
  BY <1>1, EntrySeqs
<1> HIDE DEF x, y, z
<1>3. h1 = (p.hs.hash \o <<x>>) \o <<y>> /\ p.hs.hash \o <<x>> \in Seq(EntryType)
      /\ h1 \in Seq(EntryType)
  BY <1>0, <1>1, <1>2, PairOrder, ConcatProperties
<1>4. InOrder(p.hs.hash \o <<x>>) /\ Below(p.hs.hash \o <<x>>, p.hs.s, p.hs.r + 1)
  <2>1. p.hs.r <= p.hs.r + 1 /\ p.hs.s <= p.hs.s /\ p.hs.r <= x.seq /\ x.seq < p.hs.r + 1
    BY <1>0, <1>1
  <2> QED BY <1>0, <1>1, <2>1, AppendOrder DEF Ordered
<1> HIDE DEF h1
<1>5. InOrder(h1) /\ Below(h1, p.hs.s + 1, p.hs.r + 1)
  <2>1. p.hs.s <= p.hs.s + 1 /\ p.hs.r + 1 <= p.hs.r + 1 /\ p.hs.s <= y.seq
        /\ y.seq < p.hs.s + 1
    BY <1>0, <1>1
  <2> QED BY <1>0, <1>1, <1>3, <1>4, <2>1, AppendOrder
<1>6. InOrder(h1 \o <<z>>) /\ Below(h1 \o <<z>>, p.hs.s + 2, p.hs.r + 1)
  <2>1. p.hs.s + 1 <= p.hs.s + 2 /\ p.hs.r + 1 <= p.hs.r + 1 /\ p.hs.s + 1 <= z.seq
        /\ z.seq < p.hs.s + 2
    BY <1>0, <1>1
  <2> QED BY <1>0, <1>1, <1>3, <1>5, <2>1, AppendOrder
<1>7. /\ p1 \in PeerRecord /\ p1.hs.early = p.hs.early /\ p1.hs.on = p.hs.on
      /\ p1.hs.hash = h1 /\ p1.hs.s = p.hs.s /\ p1.hs.r = p.hs.r
  BY <1>0, <1>2, PeerOps, CoreOps, ZenonT(40) DEF SameCore, h1
<1> HIDE DEF p1
<1>8. p2 \in PeerRecord /\ p2.hs = p1.hs /\ q1 \in PeerRecord /\ q1.hs = p1.hs
  <2>1. NextSec(p1, Master(p)) \in PeerRecord /\ NextSec(p1, Master(p)).hs = p1.hs
    BY <1>0, <1>7, SecOps, SecFields, PeerFields
  <2> QED BY <1>7, <2>1, SecOps, SecFields, EmptyTypes
<1> HIDE DEF p2, q1
<1>9. /\ p3 \in PeerRecord /\ p3.hs.early = p.hs.early /\ p3.hs.on = p.hs.on
      /\ p3.hs.hash = h1 \o <<z>> /\ p3.hs.s = p.hs.s /\ p3.hs.r = p.hs.r
  <2>1. p2 \in PeerRecord /\ p3 = Hashed(p2, <<z>>)
    BY <1>8
  <2> HIDE DEF p3
  <2>2. /\ p3 \in PeerRecord /\ p3.hs.early = p2.hs.early /\ p3.hs.on = p2.hs.on
        /\ p3.hs.hash = p2.hs.hash \o <<z>> /\ p3.hs.s = p2.hs.s /\ p3.hs.r = p2.hs.r
    BY <1>2, <2>1, HashedFields, ZenonT(40)
  <2> QED BY <1>7, <1>8, <2>2
<1> HIDE DEF p3
<1>10. "WAIT_CHANGECIPHERSPEC" \in State
  BY DEF State, Waiting
<1>11. p4 \in PeerRecord /\ p4.hs = p3.hs /\ p4.state = "WAIT_CHANGECIPHERSPEC"
  BY <1>9, <1>10, SetHs, CoreOps, PeerFields
<1> HIDE DEF p4
<1>12. /\ p5.hs.early = p.hs.early /\ p5.hs.on = p.hs.on /\ p5.state = p4.state
       /\ p5.hs.hash = h1 \o <<z>> /\ p5.hs.s = p.hs.s + 2 /\ p5.hs.r = p.hs.r + 1
  <2>1. p4 \in PeerRecord /\ 1 \in Nat /\ 2 \in Nat /\ p5 = Advance(p4, 1, 2)
    BY <1>11
  <2> HIDE DEF p5
  <2>2. /\ p5.hs.early = p4.hs.early /\ p5.hs.on = p4.hs.on /\ p5.state = p4.state
        /\ p5.hs.hash = p4.hs.hash /\ p5.hs.s = p4.hs.s + 2 /\ p5.hs.r = p4.hs.r + 1
    BY <2>1, AdvanceFields
  <2> QED BY <1>9, <1>11, <2>2
<1>13. /\ q2 \in PeerRecord /\ q2.hs.early = p.hs.early /\ q2.hs.on = p.hs.on
       /\ q2.hs.hash = h1 /\ q2.hs.r = p.hs.r + 0
  <2>1. q1 \in PeerRecord /\ 0 \in Nat /\ 1 \in Nat /\ q2 = Advance(q1, 0, 1)
    BY <1>8
  <2> HIDE DEF q2
  <2>2. /\ q2 \in PeerRecord /\ q2.hs.early = q1.hs.early /\ q2.hs.on = q1.hs.on
        /\ q2.hs.hash = q1.hs.hash /\ q2.hs.r = q1.hs.r + 0
    BY <2>1, AdvanceFields
  <2> QED BY <1>7, <1>8, <2>2
<1> HIDE DEF p5, q2
<1>14. CASE Put(e, p5)
  <2>1. Ordered(e, p5) /\ Buffered(p5.hs.early, p5.hs.r)
    BY <1>0, <1>6, <1>11, <1>12 DEF Ordered
  <2> QED BY <1>14, <2>1 DEF Orderly
<1>15. CASE Fail(e, q2, Queue(ckx), rest \cup Elems(ckx))
  <2>1. /\ q2.hs.on \/ q2.hs.early = {}
        /\ InOrder(q2.hs.hash) /\ q2.hs.r = p.hs.r
    BY <1>0, <1>5, <1>13 DEF Ordered
  <2>2. Buffered(q2.hs.early, q2.hs.r)
    BY <1>0, <1>13, <2>1, BufferedShrinks
  <2> QED BY <1>0, <1>13, <1>15, <2>1, <2>2, FailOrder
<1> QED BY <1>14, <1>15 DEF ServerHelloDone, x, y, z, p1, p2, p3, p4, p5, q1, q2

LEMMA SendHelloVerifyOrder ==
    ASSUME NEW e, NEW p, NEW m, NEW st, NEW rest, Ready(e, p, m, st, rest),
           m.typ = "CH", SendHelloVerify(e, p, m, st, rest)
    PROVE  Orderly(e)
<1> DEFINE ds == IF st = "CONNECTED" THEN 1 ELSE 0
           q  == Advance(p, 1, ds)
<1>0. /\ e = "S" /\ p \in PeerRecord
      /\ Ordered(e, p) /\ Buffered(p.hs.early, p.hs.r + 1)
      /\ p.hs.s \in Nat /\ p.hs.r \in Nat /\ p.hs.hash \in Seq(EntryType)
      /\ p.hs.early \in SUBSET MsgRecord
  BY PeerFields DEF Ready, Handling, Sound
<1>1. Put(e, IF ~p.hs.on THEN p ELSE q)
  BY DEF SendHelloVerify
<1>2. ds \in Nat
  OBVIOUS
<1> HIDE DEF ds
<1>3. /\ q.state = p.state /\ q.hs.early = p.hs.early /\ q.hs.on = p.hs.on
      /\ q.hs.hash = p.hs.hash /\ q.hs.s = p.hs.s + ds /\ q.hs.r = p.hs.r + 1
  <2>1. p \in PeerRecord /\ 1 \in Nat /\ ds \in Nat /\ q = Advance(p, 1, ds)
    BY <1>0, <1>2
  <2> HIDE DEF q
  <2> QED BY <2>1, AdvanceFields
<1> HIDE DEF q
<1>4. Ordered(e, q) /\ Buffered(q.hs.early, q.hs.r)
  <2>1. /\ Below(p.hs.hash, p.hs.r, p.hs.s) /\ p.hs.r + 1 \in Nat /\ p.hs.s + ds \in Nat
        /\ p.hs.r <= p.hs.r + 1 /\ p.hs.s <= p.hs.s + ds
    BY <1>0, <1>2 DEF Ordered
  <2>2. Below(p.hs.hash, p.hs.r + 1, p.hs.s + ds)
    BY <1>0, <2>1, BelowGrows
  <2> QED BY <1>0, <1>3, <2>2 DEF Ordered
<1>5. Ordered(e, p) /\ Buffered(p.hs.early, p.hs.r)
  BY <1>0, BufferedShrinks
<1> QED BY <1>1, <1>4, <1>5 DEF Orderly

LEMMA AcceptHelloOrder ==
    ASSUME NEW e, NEW p, NEW m, NEW st, NEW rest, Ready(e, p, m, st, rest),
           m.typ = "CH", AcceptHello(e, p, m, st, rest)
    PROVE  Orderly(e)
<1> DEFINE again == p.live /\ st = "WAIT_CLIENTHELLO"
           p0    == IF p.live /\ ~again THEN p ELSE NewPeer
           h0    == IF p0.hs.on THEN p0.hs ELSE NewHs(m.seq, 1)
           sr    == used.sh + 1
           out   == ServerHelloFlight(e, p0.sec0, h0.s, sr)
           log   == [i \in DOMAIN out |-> Entry(out[i].typ, out[i].seq, out[i].a, 0)]
           x     == Entry("CH", m.seq, m.a, m.b)
           hash  == <<x>> \o log
           h1    == [h0 EXCEPT !.cr = m.a, !.sr = sr, !.r = @ + 1, !.s = @ + Len(out),
                               !.hash = hash]
           p1    == [p0 EXCEPT !.state = "WAIT_CLIENTKEYEXCHANGE", !.hs = h1]
<1>0. /\ e = "S" /\ p \in PeerRecord /\ m \in MsgRecord /\ used \in UsedType
      /\ Ordered(e, p) /\ Buffered(p.hs.early, p.hs.r + 1) /\ (p.hs.on => m.seq = p.hs.r)
  BY DEF Ready, Handling, Sound, HandlerTypes
<1>1. p0 \in PeerRecord
  BY <1>0, NewTypes
<1>2. /\ h0 \in HsRecord /\ h0.on /\ m.seq = h0.r /\ Buffered(h0.early, h0.r + 1)
  <2>1. CASE p0 = p /\ p.hs.on
    BY <1>0, <2>1, PeerFields
  <2>2. CASE ~p0.hs.on
    <3>1. h0 = NewHs(m.seq, 1) /\ m.seq \in Nat
      BY <1>0, <2>2, MsgFields
    <3>2. h0.on /\ h0.r = m.seq /\ h0.early = {}
      BY <3>1 DEF NewHs, NoHs
    <3> HIDE DEF h0
    <3> QED BY <3>1, <3>2, NewTypes DEF Buffered
  <2>3. ~NewPeer.hs.on
    BY DEF NewPeer, NoPeer, NoHs
  <2> HIDE DEF h0
  <2> QED BY <2>1, <2>2, <2>3
<1>3. sr \in Nat /\ p0.sec0 \in SecType
  BY <1>0, <1>1, PeerFields DEF UsedType
<1> HIDE DEF p0, h0, sr
<1>4. h0.s \in Nat /\ h0.r \in Nat
  BY <1>2 DEF HsRecord
<1>5. /\ out \in Seq(MsgRecord)
      /\ \A i \in 1..Len(out) : out[i].seq = h0.s + i - 1
                                /\ out[i].typ \in {"SH", "SKX", "SHD"}
  BY <1>0, <1>3, <1>4, ServerHelloNumbers
<1>6. x \in EntryType /\ FromClient(x) /\ x.seq = m.seq
  BY <1>0, MsgFields, EntryTypes DEF HsType, Entry, FromClient
<1> HIDE DEF out, x
<1>7. /\ log \in Seq(EntryType) /\ Len(log) = Len(out) /\ Len(out) \in Nat
      /\ \A i \in 1..Len(log) : log[i].seq = h0.s + i - 1 /\ ~FromClient(log[i])
  <2>1. DOMAIN out = 1..Len(out) /\ Len(out) \in Nat
    BY <1>5, LenProperties
  <2>2. ASSUME NEW i \in 1..Len(out)
        PROVE  /\ Entry(out[i].typ, out[i].seq, out[i].a, 0) \in EntryType
               /\ ~FromClient(Entry(out[i].typ, out[i].seq, out[i].a, 0))
               /\ Entry(out[i].typ, out[i].seq, out[i].a, 0).seq = h0.s + i - 1
    <3>1. out[i] \in MsgRecord
      BY <1>5, ElementOfSeq
    <3>2. out[i].typ \in HsType
      BY <1>5 DEF HsType
    <3>3. Entry(out[i].typ, out[i].seq, out[i].a, 0) \in EntryType
      BY <3>1, <3>2, MsgFields, EntryTypes
    <3> QED BY <1>5, <3>3 DEF Entry, FromClient
  <2>3. log \in [1..Len(out) -> EntryType]
    BY <2>1, <2>2
  <2>4. log \in Seq(EntryType)
    BY <2>1, <2>3, FunctionIsSeq
  <2>5. Len(log) = Len(out)
    <3>1. DOMAIN log = 1..Len(log) /\ Len(log) \in Nat
      BY <2>4, LenProperties
    <3> QED BY <2>1, <2>3, <3>1
  <2> QED BY <2>1, <2>2, <2>4, <2>5
<1> HIDE DEF log
<1>8. InOrder(hash) /\ Below(hash, h0.r + 1, h0.s + Len(out))
  <2>1. h0.r + 1 \in Nat /\ x.seq < h0.r + 1
    BY <1>2, <1>4, <1>6
  <2> QED BY <1>4, <1>6, <1>7, <2>1, HelloOrder
<1> HIDE DEF hash
<1>9. /\ h1.on = h0.on /\ h1.early = h0.early /\ h1.hash = hash
      /\ h1.r = h0.r + 1 /\ h1.s = h0.s + Len(out)
  BY <1>2 DEF HsRecord
<1> HIDE DEF h1
<1>10. p1.hs = h1
  BY <1>1 DEF PeerRecord
<1> HIDE DEF p1
<1>11. Ordered(e, p1) /\ Buffered(p1.hs.early, p1.hs.r)
  BY <1>0, <1>2, <1>8, <1>9, <1>10 DEF Ordered
<1>12. Put(e, p1)
  BY DEF AcceptHello, again, p0, h0, sr, out, log, x, hash, h1, p1
<1> QED BY <1>11, <1>12 DEF Orderly

LEMMA FinishedOrder ==
    ASSUME NEW e, NEW p, NEW m, NEW st, NEW rest, Ready(e, p, m, st, rest),
           m.typ = "FIN", Finished(e, p, m, st, rest)
    PROVE  Orderly(e)
<1> DEFINE x  == Entry("FIN", m.seq, 0, 0)
           p1 == IF e = "S" THEN Hashed(p, <<x>>) ELSE p
           p2 == IF e = "S" THEN Switch(p1) ELSE p1
           q  == [p2 EXCEPT !.state = "CONNECTED", !.hs = NoHs]
<1>0. p \in PeerRecord /\ m \in MsgRecord
  BY DEF Ready, Handling
<1>1. x \in EntryType
  BY <1>0, MsgFields, EntryTypes, EmptyTypes DEF HsType, Entry
<1> HIDE DEF x
<1>2. <<x>> \in Seq(EntryType)
  BY <1>1, EntrySeqs
<1>3. p1 \in PeerRecord
  BY <1>0, <1>2, PeerOps
<1> HIDE DEF p1
<1>4. p2 \in PeerRecord
  BY <1>3, SecOps
<1> HIDE DEF p2
<1>5. q.hs = NoHs
  BY <1>4 DEF PeerRecord
<1>6. NoHs.early = {} /\ NoHs.on = FALSE /\ NoHs.hash = <<>>
  BY DEF NoHs
<1>7. Put(e, q)
  BY DEF Finished, x, p1, p2, q
<1> HIDE DEF q
<1>8. Ordered(e, q) /\ Buffered(q.hs.early, q.hs.r)
  BY <1>5, <1>6, EmptyOrder DEF Ordered, Buffered
<1> QED BY <1>7, <1>8 DEF Orderly

LEMMA StartHelloOrder ==
    ASSUME NEW e, NEW p \in PeerRecord, NEW h \in HsRecord, h.on, h.hash = <<>>,
           h.early = {}, NEW q, NEW rest, e = "C", StartHello(e, p, h, q, rest)
    PROVE  Orderly(e)
<1> DEFINE h1 == [h EXCEPT !.cr = used.ch + 1, !.s = h.s + 1]
           p1 == [p EXCEPT !.state = "CLIENTHELLO", !.hs = h1]
<1>1. h1.on /\ h1.hash = <<>> /\ h1.early = {}
  BY DEF HsRecord
<1> HIDE DEF h1
<1>2. p1.hs = h1 /\ p1.state = "CLIENTHELLO"
  BY DEF PeerRecord
<1> HIDE DEF p1
<1>3. Ordered(e, p1) /\ Buffered(p1.hs.early, p1.hs.r)
  BY <1>1, <1>2, EmptyOrder DEF Ordered, Buffered
<1>4. Put(e, p1)
  BY DEF StartHello, h1, p1
<1> QED BY <1>3, <1>4 DEF Orderly

LEMMA HelloRequestOrder ==
    ASSUME NEW e, NEW p, NEW m, NEW st, NEW rest, Ready(e, p, m, st, rest),
           m.typ = "HREQ", HelloRequest(e, p, m, st, rest)
    PROVE  Orderly(e)
<1> DEFINE h  == IF p.hs.on THEN p.hs ELSE NewHs(0, 0)
           h1 == [h EXCEPT !.r = @ + 1]
<1>0. /\ e = "C" /\ p \in PeerRecord /\ m \in MsgRecord /\ st \in {p.state, "WAIT_CLIENTHELLO"}
      /\ Ordered(e, p) /\ Buffered(p.hs.early, p.hs.r + 1)
      /\ p.hs.early \in SUBSET MsgRecord /\ p.hs.r \in Nat
  BY PeerFields DEF Ready, Handling, Sound
<1>1. CASE st = "CONNECTED" /\ StartHello(e, p, h1, <<>>, rest)
  <2>1. h = NewHs(0, 0)
    BY <1>0, <1>1 DEF Ordered
  <2>2. NewHs(0, 0) \in HsRecord
    BY NewTypes
  <2>3. NewHs(0, 0).on /\ NewHs(0, 0).hash = <<>> /\ NewHs(0, 0).early = {}
    BY DEF NewHs, NoHs
  <2> HIDE DEF h
  <2>4. h1 \in HsRecord /\ h1.on /\ h1.hash = <<>> /\ h1.early = {}
    BY <2>1, <2>2, <2>3 DEF HsRecord
  <2> HIDE DEF h1
  <2> QED BY <1>0, <1>1, <2>4, StartHelloOrder
<1>2. CASE Put(e, p)
  BY <1>0, <1>2, BufferedShrinks DEF Orderly
<1> QED BY <1>1, <1>2 DEF HelloRequest

LEMMA HandleMsgOrder ==
    ASSUME NEW e, NEW p, NEW m, NEW st, NEW rest, Ready(e, p, m, st, rest),
           HandleMsg(e, p, m, st, rest)
    PROVE  Orderly(e)
<1>1. CASE m.typ = "HVR" /\ HelloVerifyRequest(e, p, m, st, rest)
  BY <1>1, HelloVerifyRequestOrder
<1>2. CASE m.typ = "SH" /\ ServerHello(e, p, m, st, rest)
  BY <1>2, ServerHelloOrder
<1>3. CASE m.typ = "SKX" /\ ServerKeyExchange(e, p, m, st, rest)
  BY <1>3, ServerKeyExchangeOrder
<1>4. CASE m.typ = "SHD" /\ ServerHelloDone(e, p, m, st, rest)
  BY <1>4, ServerHelloDoneOrder
<1>5. CASE m.typ = "CH" /\ ClientHello(e, p, m, st, rest)
  BY <1>5, SendHelloVerifyOrder, AcceptHelloOrder DEF ClientHello
<1>6. CASE m.typ = "CKX" /\ ClientKeyExchange(e, p, m, st, rest)
  BY <1>6, ClientKeyExchangeOrder
<1>7. CASE m.typ = "FIN" /\ Finished(e, p, m, st, rest)
  BY <1>7, FinishedOrder
<1>8. CASE m.typ = "HREQ" /\ HelloRequest(e, p, m, st, rest)
  BY <1>8, HelloRequestOrder
<1>9. CASE Fail(e, p, <<>>, rest)
  <2>1. /\ e \in Endpoint /\ p \in PeerRecord /\ Ordered(e, p)
        /\ Buffered(p.hs.early, p.hs.r + 1)
        /\ p.hs.early \in SUBSET MsgRecord /\ p.hs.r \in Nat
    BY PeerFields DEF Ready, Handling
  <2> QED BY <1>9, <2>1, BufferedShrinks, FailOrder DEF Ordered
<1> QED BY <1>1, <1>2, <1>3, <1>4, <1>5, <1>6, <1>7, <1>8, <1>9 DEF HandleMsg, Unexpected

-----------------------------------------------------------------------------
(* The reorder and reassembly buffers *)

LEMMA InSequenceOrder ==
    ASSUME NEW e, NEW p, NEW m, NEW st, NEW rest, Handling(e, p, m, st, rest),
           Ordered(e, p), Buffered(p.hs.early, p.hs.r + 1), InSequence(e, p, m, st, rest)
    PROVE  Orderly(e)
<1> DEFINE q  == WithBuf(p, NoBuf)
           ms == p.hs.early \cup {m}
           pe == WithEarly(p, ms)
<1>0. /\ e \in Endpoint /\ p \in PeerRecord /\ m \in MsgRecord /\ m.seq \in Nat
      /\ p.hs.early \in SUBSET MsgRecord /\ p.hs.r \in Nat /\ (~p.live => ~p.hs.on)
  BY PeerFields, MsgFields DEF Handling, PeerInv
<1>1. CASE Put(e, p)
  BY <1>0, <1>1, BufferedShrinks DEF Orderly
<1>2. CASE ~p.hs.on /\ m.typ \in {"CH", "HREQ"} /\ HandleMsg(e, p, m, st, rest)
  BY <1>2, HandleMsgOrder DEF Ready
<1>3. CASE p.hs.on /\ m.seq = p.hs.r /\ HandleMsg(e, q, m, st, rest)
  <2>1. /\ q \in PeerRecord /\ SameCore(q, p) /\ q.state = p.state
        /\ q.hs.early = p.hs.early /\ q.hs.r = p.hs.r /\ q.hs.s = p.hs.s
        /\ q.hs.hash = p.hs.hash
    BY <1>0, NewTypes, PeerOps, CoreOps
  <2> HIDE DEF q
  <2>2. q.hs.on = p.hs.on /\ Handling(e, q, m, st, rest)
    BY <2>1, SameHandling DEF SameCore
  <2>3. Ready(e, q, m, st, rest)
    BY <1>3, <2>1, <2>2 DEF Ready, Ordered
  <2> QED BY <1>3, <2>3, HandleMsgOrder
<1>4. CASE /\ p.hs.on /\ m.seq > p.hs.r /\ ~(\E x \in p.hs.early : x.seq = m.seq)
           /\ Put(e, pe)
  <2>1. ms \in SUBSET MsgRecord
    BY <1>0
  <2>2. Buffered(ms, p.hs.r)
    <3>1. Buffered(p.hs.early, p.hs.r)
      BY <1>0, BufferedShrinks
    <3> QED BY <1>0, <1>4, <3>1 DEF Buffered
  <2> HIDE DEF ms
  <2>3. /\ SameCore(pe, p) /\ pe.state = p.state
        /\ pe.hs.early = ms /\ pe.hs.r = p.hs.r /\ pe.hs.s = p.hs.s
        /\ pe.hs.hash = p.hs.hash
    BY <1>0, <2>1, CoreOps
  <2> HIDE DEF pe
  <2>4. pe.hs.on = p.hs.on
    BY <2>3 DEF SameCore
  <2>5. Ordered(e, pe) /\ Buffered(pe.hs.early, pe.hs.r)
    BY <1>4, <2>2, <2>3, <2>4 DEF Ordered
  <2> QED BY <1>4, <2>5 DEF Orderly
<1> QED BY <1>0, <1>1, <1>2, <1>3, <1>4 DEF InSequence, Ignore, Skip

LEMMA FragmentOrder ==
    ASSUME NEW e, NEW p, NEW m, NEW st, NEW rest, Handling(e, p, m, st, rest),
           Ordered(e, p), Buffered(p.hs.early, p.hs.r + 1), m.frag # 0,
           Fragment(e, p, m, st, rest)
    PROVE  Orderly(e)
<1> DEFINE b  == Reassembled(p.hs.buf, m)
           p1 == WithBuf(p, b)
           p2 == WithBuf(p, NoBuf)
           w  == [m EXCEPT !.frag = 0, !.seq = b.seq, !.a = b.a]
           w0 == [w EXCEPT !.a = Garbled]
           Same(q) == /\ q \in PeerRecord /\ SameCore(q, p) /\ q.state = p.state
                      /\ q.hs.early = p.hs.early /\ q.hs.r = p.hs.r /\ q.hs.s = p.hs.s
                      /\ q.hs.hash = p.hs.hash
<1>0. /\ e = "S" /\ e \in Endpoint /\ m.typ = "CKX" /\ p \in PeerRecord
      /\ m \in MsgRecord /\ p.hs.early \in SUBSET MsgRecord /\ p.hs.r \in Nat
      /\ m.dst = e
  BY PeerFields DEF Handling, Sound
<1>1. b \in BufType
  BY <1>0, PeerFields, ReassembledType
<1> HIDE DEF b
<1>2. Same(p1) /\ Same(p2)
  BY <1>0, <1>1, NewTypes, PeerOps, CoreOps
<1> HIDE DEF p1, p2
<1>3. ASSUME NEW q, Same(q)
      PROVE  /\ Handling(e, q, m, st, rest) /\ Ordered(e, q)
             /\ Buffered(q.hs.early, q.hs.r + 1) /\ Buffered(q.hs.early, q.hs.r)
  <2>1. q.hs.on = p.hs.on
    BY <1>3 DEF SameCore
  <2>2. Handling(e, q, m, st, rest)
    BY <1>3, SameHandling
  <2>3. Buffered(p.hs.early, p.hs.r)
    BY <1>0, BufferedShrinks
  <2> QED BY <1>3, <2>1, <2>2, <2>3 DEF Ordered
<1>4. b.seq \in Nat /\ b.a \in Nat
  BY <1>1 DEF BufType
<1>5. w \in MsgRecord /\ w.typ = "CKX" /\ w.dst = "S" /\ w.frag = 0
  BY <1>0, <1>4, EmptyTypes DEF MsgRecord
<1> HIDE DEF w
<1>6. w0 \in MsgRecord /\ w0.typ = "CKX" /\ w0.dst = "S" /\ w0.frag = 0
  BY <1>5 DEF MsgRecord, Garbled
<1> HIDE DEF w0
<1>7. Handling(e, p1, w, st, rest) /\ Handling(e, p1, w0, st, rest)
  BY <1>0, <1>2, <1>3, <1>5, <1>6 DEF Handling, Sound
<1>8. CASE Fail(e, p, sq[e], rest)
  BY <1>0, <1>8, BufferedShrinks, FailOrder DEF Ordered
<1>9. CASE Ignore(e, p1, rest)
  BY <1>2, <1>3, <1>9 DEF Ignore, Orderly
<1>10. CASE InSequence(e, p1, w, st, rest) \/ InSequence(e, p1, w0, st, rest)
  BY <1>2, <1>3, <1>7, <1>10, InSequenceOrder
<1>11. CASE Fail(e, p2, <<>>, rest)
  <2>1. p2 \in PeerRecord /\ Ordered(e, p2) /\ Buffered(p2.hs.early, p2.hs.r)
    BY <1>2, <1>3
  <2> QED BY <1>0, <1>11, <2>1, FailOrder DEF Ordered
<1> QED BY <1>8, <1>9, <1>10, <1>11
        DEF Fragment, WholeMessage, Unexpected, b, p1, p2, w, w0

-----------------------------------------------------------------------------
(* The steps of an endpoint *)

LEMMA NoPeerOrder ==
    ASSUME NEW e, NEW p, p \in {NoPeer, NewPeer}
    PROVE  Ordered(e, p) /\ Buffered(p.hs.early, p.hs.r)
<1>1. p.hs = NoHs
  BY DEF NoPeer, NewPeer
<1>2. NoHs.early = {} /\ NoHs.on = FALSE /\ NoHs.hash = <<>>
  BY DEF NoHs
<1> QED BY <1>1, <1>2, EmptyOrder DEF Ordered, Buffered

\* The handlers keep the message-sequence state when they leave it alone.
LEMMA SameOrder ==
    ASSUME NEW e, NEW p, NEW q, q.hs = p.hs, q.state \in {p.state, "CLOSING", "WAIT_FINISHED"},
           p.state = "CLOSING" => q.state = "CLOSING", Ordered(e, p)
    PROVE  Ordered(e, q)
BY DEF Ordered

LEMMA ChangeCipherSpecOrder ==
    ASSUME NEW e, NEW p, NEW m, NEW st, NEW rest, Handling(e, p, m, st, rest),
           Ordered(e, p), Buffered(p.hs.early, p.hs.r), ChangeCipherSpec(e, p, rest)
    PROVE  Orderly(e)
<1> DEFINE p0 == IF e = "S" THEN NextSec(p, Master(p)) ELSE p
           p1 == Enter(p0, "WAIT_FINISHED")
<1>0. e \in Endpoint /\ p \in PeerRecord
  BY DEF Handling
<1>1. CASE p.state = "WAIT_CHANGECIPHERSPEC" /\ Put(e, p1)
  <2>1. p0 \in PeerRecord /\ p0.hs = p.hs
    BY <1>0, SecOps, SecFields, PeerFields
  <2> HIDE DEF p0
  <2>2. p1.hs = p.hs /\ p1.state = "WAIT_FINISHED"
    BY <2>1 DEF Enter, PeerRecord
  <2> HIDE DEF p1
  <2>3. Ordered(e, p1)
    BY <1>1, <2>2, SameOrder
  <2> QED BY <1>1, <2>2, <2>3 DEF Orderly
<1>2. CASE Put(e, NoPeer)
  BY <1>2, NoPeerOrder DEF Orderly
<1>3. CASE Put(e, p)
  BY <1>3 DEF Orderly
<1> QED BY <1>1, <1>2, <1>3 DEF ChangeCipherSpec, Destroy, Discard

LEMMA ReceiveOrder ==
    ASSUME HandlerTypes, EngineInv, OrderInv, NEW e \in Endpoint, NEW m \in net,
           Receive(e, m)
    PROVE  Orderly(e)
<1> DEFINE p    == IF pr[e].live /\ Opens(pr[e], m) THEN AfterOpen(pr[e], m) ELSE pr[e]
           rest == Take(m)
           st   == CallState(e, pr[e], m)
<1>1. /\ m \in MsgRecord /\ pr[e] \in PeerRecord /\ m.dst = e
      /\ Sound(m, offered, accepted)
      /\ PeerInv(e, pr[e], used, offered, accepted, confirmed)
      /\ Ordered(e, pr[e]) /\ Buffered(pr[e].hs.early, pr[e].hs.r) /\ ~Draining(e)
  BY DEF HandlerTypes, EngineInv, NetInv, Receive, Running, OrderInv
<1>2. /\ p \in PeerRecord /\ p.live = pr[e].live /\ p.state = pr[e].state
      /\ p.hs = pr[e].hs
      /\ PeerInv(e, p, used, offered, accepted, confirmed)
  <2> DEFINE a == AfterOpen(pr[e], m)
  <2>1. a \in PeerRecord
    BY <1>1, SecOps
  <2>2. /\ a.live = pr[e].live /\ a.state = pr[e].state /\ a.hs = pr[e].hs
        /\ PeerInv(e, a, used, offered, accepted, confirmed)
    BY <1>1, FreeOtherInv
  <2> HIDE DEF a
  <2>3. p \in {a, pr[e]}
    BY DEF a
  <2> HIDE DEF p
  <2> QED BY <1>1, <2>1, <2>2, <2>3
<1>3. rest \in SUBSET MsgRecord /\ NetInv(rest, offered, accepted, confirmed)
  BY DEF Take, HandlerTypes, EngineInv, NetInv
<1>4. Handling(e, p, m, st, rest)
  <2>1. st \in {pr[e].state, "WAIT_CLIENTHELLO"} /\ (~pr[e].live => st = "WAIT_CLIENTHELLO")
    BY DEF CallState
  <2> HIDE DEF p, rest, st
  <2> QED BY <1>1, <1>2, <1>3, <2>1 DEF Handling
<1>5. \/ DecryptError(e, p, rest) \/ ChangeCipherSpec(e, p, rest) \/ HandleAlert(e, p, m, rest)
      \/ Ignore(e, p, rest) \/ HandleHandshake(e, p, m, st, rest)
  BY DEF Receive
<1> HIDE DEF p, rest, st
<1>6. /\ Ordered(e, p) /\ Buffered(p.hs.early, p.hs.r) /\ Buffered(p.hs.early, p.hs.r + 1)
  <2>1. \A x \in pr[e].hs.early : x.seq \in Nat /\ x.seq # pr[e].hs.r
    <3>1. pr[e].hs.early \in SUBSET MsgRecord
      BY <1>1, PeerFields
    <3>2. \A x \in pr[e].hs.early : pr[e].hs.on
      BY <1>1 DEF Ordered
    <3>3. \A x \in pr[e].hs.early : x.seq # pr[e].hs.r
      BY <1>1, <3>2 DEF Draining
    <3> QED BY <3>1, <3>3, MsgFields
  <2>2. pr[e].hs.r \in Nat
    BY <1>1, PeerFields
  <2>3. Buffered(pr[e].hs.early, pr[e].hs.r + 1)
    BY <1>1, <2>1, <2>2 DEF Buffered
  <2>4. Ordered(e, p)
    BY <1>1, <1>2, SameOrder
  <2> QED BY <1>1, <1>2, <2>3, <2>4
<1>7. CASE DecryptError(e, p, rest) \/ HandleAlert(e, p, m, rest) \/ Ignore(e, p, rest)
  <2>1. Put(e, p) \/ Put(e, NoPeer)
    BY <1>7 DEF DecryptError, HandleAlert, Ignore, Destroy, Discard
  <2> QED BY <1>6, <2>1, NoPeerOrder DEF Orderly
<1>8. CASE ChangeCipherSpec(e, p, rest)
  BY <1>4, <1>6, <1>8, ChangeCipherSpecOrder
<1>9. CASE HandleHandshake(e, p, m, st, rest)
  BY <1>4, <1>6, <1>9, InSequenceOrder, FragmentOrder DEF HandleHandshake
<1> QED BY <1>5, <1>7, <1>8, <1>9

LEMMA DrainOrder ==
    ASSUME HandlerTypes, EngineInv, OrderInv, NEW e \in Endpoint, Drain(e)
    PROVE  Orderly(e)
<1> DEFINE q(m) == WithEarly(pr[e], pr[e].hs.early \ {m})
<1>1. PICK m \in pr[e].hs.early :
         m.seq = pr[e].hs.r /\ HandleMsg(e, q(m), m, pr[e].state, net)
  BY DEF Drain
<1>2. /\ pr[e] \in PeerRecord /\ net \in SUBSET MsgRecord
      /\ PeerInv(e, pr[e], used, offered, accepted, confirmed)
      /\ NetInv(net, offered, accepted, confirmed)
      /\ Ordered(e, pr[e]) /\ Buffered(pr[e].hs.early, pr[e].hs.r) /\ pr[e].hs.on
  BY DEF HandlerTypes, EngineInv, OrderInv, Drain, Draining
<1>3. /\ pr[e].live /\ m \in MsgRecord /\ m.dst = e /\ Sound(m, offered, accepted)
      /\ pr[e].hs.early \in SUBSET MsgRecord /\ pr[e].hs.r \in Nat
      /\ pr[e].hs.early \ {m} \in SUBSET MsgRecord
  BY <1>1, <1>2, PeerFields DEF PeerInv
<1>4. /\ q(m) \in PeerRecord /\ SameCore(q(m), pr[e]) /\ q(m).state = pr[e].state
      /\ q(m).hs.early = pr[e].hs.early \ {m} /\ q(m).hs.r = pr[e].hs.r
      /\ q(m).hs.s = pr[e].hs.s /\ q(m).hs.hash = pr[e].hs.hash
  <2>1. q(m) \in PeerRecord
    BY <1>2, <1>3, PeerOps
  <2>2. ASSUME NEW ms \in SUBSET MsgRecord, NEW x, x = WithEarly(pr[e], ms)
        PROVE  /\ SameCore(x, pr[e]) /\ x.state = pr[e].state /\ x.hs.early = ms
               /\ x.hs.s = pr[e].hs.s /\ x.hs.r = pr[e].hs.r
               /\ x.hs.hash = pr[e].hs.hash
    <3>1. pr[e] \in PeerRecord
      BY <1>2
    <3> QED BY <2>2, <3>1, CoreOps
  <2> QED BY <1>3, <2>1, <2>2
<1> HIDE DEF q
<1>5. PeerInv(e, q(m), used, offered, accepted, confirmed)
  BY <1>2, <1>4, CoreInv
<1>6. Handling(e, q(m), m, pr[e].state, net) /\ q(m).hs.on
  BY <1>2, <1>3, <1>4, <1>5 DEF Handling, SameCore
<1>7. Buffered(pr[e].hs.early \ {m}, pr[e].hs.r + 1)
  <2>1. \A x \in pr[e].hs.early : x.seq \in Nat
    BY <1>3, MsgFields
  <2> QED BY <1>1, <1>2, <1>3, <2>1 DEF Buffered
<1>8. Ordered(e, q(m))
  BY <1>2, <1>4, <1>6 DEF Ordered
<1>9. Ready(e, q(m), m, pr[e].state, net)
  BY <1>1, <1>4, <1>6, <1>7, <1>8 DEF Ready
<1> QED BY <1>1, <1>9, HandleMsgOrder

LEMMA RenegotiateOrder ==
    ASSUME HandlerTypes, NEW e \in Endpoint, Renegotiate(e)
    PROVE  Orderly(e)
<1> DEFINE p1 == [pr[e] EXCEPT !.hs = NewHs(0, 1)]
<1>1. pr[e] \in PeerRecord
  BY DEF HandlerTypes
<1>2. \A i \in {0, 1} : /\ NewHs(0, i) \in HsRecord /\ NewHs(0, i).on
                        /\ NewHs(0, i).hash = <<>> /\ NewHs(0, i).early = {}
  BY NewTypes DEF NewHs, NoHs
<1>3. CASE e = "C" /\ StartHello(e, pr[e], NewHs(0, 0), sq[e], net)
  BY <1>1, <1>2, <1>3, StartHelloOrder
<1>4. CASE e = "S" /\ Put(e, p1)
  <2>1. p1.hs = NewHs(0, 1)
    BY <1>1 DEF PeerRecord
  <2> HIDE DEF p1
  <2>2. Ordered(e, p1) /\ Buffered(p1.hs.early, p1.hs.r)
    BY <1>2, <1>4, <2>1, EmptyOrder DEF Ordered, Buffered
  <2> QED BY <1>4, <2>2 DEF Orderly
<1> QED BY <1>3, <1>4 DEF Renegotiate

\* Every step leaves the peers alone or one of them in order.
LEMMA NextOrder ==
    ASSUME HandlerTypes, EngineInv, OrderInv, [Next]_vars
    PROVE  pr' = pr \/ \E e \in Endpoint : Orderly(e)
<1>1. CASE Connect
  <2>1. NewHs(0, 0) \in HsRecord /\ NewPeer \in PeerRecord
    BY NewTypes DEF NewPeer, NoPeer
  <2>2. NewHs(0, 0).on /\ NewHs(0, 0).hash = <<>> /\ NewHs(0, 0).early = {}
    BY DEF NewHs, NoHs
  <2> QED BY <1>1, <2>1, <2>2, StartHelloOrder DEF Connect, Endpoint
<1>2. CASE Arrival
  <2>1. ASSUME NEW e \in Endpoint, NEW m \in net, ReceiveApp(e, m), pr' # pr
        PROVE  Orderly(e)
    <3> DEFINE p == AfterOpen(pr[e], m)
    <3>1. /\ pr[e] \in PeerRecord /\ Ordered(e, pr[e])
          /\ Buffered(pr[e].hs.early, pr[e].hs.r)
          /\ PeerInv(e, pr[e], used, offered, accepted, confirmed)
      BY DEF HandlerTypes, OrderInv, EngineInv
    <3>2. p.hs = pr[e].hs /\ p.state = pr[e].state
      BY <3>1, FreeOtherInv
    <3>3. Put(e, p)
      BY <2>1 DEF ReceiveApp
    <3> HIDE DEF p
    <3>4. Ordered(e, p)
      BY <3>1, <3>2, SameOrder
    <3> QED BY <3>1, <3>2, <3>3, <3>4 DEF Orderly
  <2>2. ASSUME NEW e \in Endpoint, NEW m \in net, ReceiveCrash(e, m) PROVE pr' = pr
    BY <2>2 DEF ReceiveCrash
  <2> QED BY <1>2, <2>1, <2>2, ReceiveOrder, DrainOrder DEF Arrival
<1>3. CASE Application
  <2>1. ASSUME NEW e \in Endpoint, Put(e, NoPeer) PROVE Orderly(e)
    BY <2>1, NoPeerOrder DEF Orderly
  <2>2. ASSUME NEW e \in Endpoint, Close(e) PROVE Orderly(e)
    <3> DEFINE p == Enter(pr[e], "CLOSING")
    <3>1. pr[e] \in PeerRecord /\ Ordered(e, pr[e]) /\ Buffered(pr[e].hs.early, pr[e].hs.r)
      BY DEF HandlerTypes, OrderInv
    <3>2. p.hs = pr[e].hs /\ p.state = "CLOSING"
      BY <3>1 DEF Enter, PeerRecord
    <3>3. Put(e, p)
      BY <2>2 DEF Close
    <3> HIDE DEF p
    <3>4. Ordered(e, p)
      BY <3>1, <3>2, SameOrder
    <3> QED BY <3>1, <3>2, <3>3, <3>4 DEF Orderly
  <2>3. CASE ClientRestart
    BY <2>1, <2>3 DEF ClientRestart, Discard, Endpoint
  <2>4. ASSUME NEW e \in Endpoint, Reset(e) PROVE Orderly(e)
    BY <2>1, <2>4 DEF Reset, Discard
  <2>5. ASSUME NEW e \in Endpoint, Write(e) PROVE pr' = pr
    BY <2>5 DEF Write
  <2> QED BY <1>3, <2>2, <2>3, <2>4, <2>5, RenegotiateOrder DEF Application
<1>4. CASE Timer \/ Network \/ UNCHANGED vars
  BY <1>4 DEF Timer, Retransmit, Network, Lose, vars
<1> QED BY <1>1, <1>2, <1>3, <1>4 DEF Next

LEMMA OrderlyKeeps ==
    ASSUME HandlerTypes, OrderInv, NEW e \in Endpoint, Orderly(e)
    PROVE  OrderInv'
<1>1. PICK q : Put(e, q) /\ Ordered(e, q) /\ Buffered(q.hs.early, q.hs.r)
  BY DEF Orderly
<1>2. \A f \in Endpoint : pr'[f] = IF f = e THEN q ELSE pr[f]
  BY <1>1 DEF Put, HandlerTypes
<1> QED BY <1>1, <1>2 DEF OrderInv, Ordered

-----------------------------------------------------------------------------
(* Theorems *)

\* handle_handshake() and the handlers it calls keep the counters mseq_r and
\* mseq_s, the reorder buffer and the transcript together.
THEOREM OrderInvariant == Spec => []OrderInv
<1>1. Init => OrderInv
  <2>1. ASSUME Init, NEW e \in Endpoint PROVE pr[e] = NoPeer
    BY <2>1 DEF Init
  <2> QED BY <2>1, NoPeerOrder DEF OrderInv
<1>2. TypeOK /\ EngineInv /\ OrderInv /\ [Next]_vars => OrderInv'
  <2>1. ASSUME TypeOK, EngineInv, OrderInv, [Next]_vars PROVE OrderInv'
    <3>1. HandlerTypes
      BY <2>1, TypesHold
    <3>2. CASE pr' = pr
      BY <2>1, <3>2 DEF OrderInv, Ordered
    <3> QED BY <2>1, <3>1, <3>2, NextOrder, OrderlyKeeps
  <2> QED BY <2>1
<1> QED BY <1>1, <1>2, TypeCorrect, EngineInvariant, PTL DEF Spec

\* The reorder buffer of dtls_peer_t never holds a message that was already
\* processed, nor two with the same message_seq: handle_handshake() discards
\* what lies below mseq_r and what it has already, and drains what has come up.
THEOREM ReorderBuffer == Spec => []ReorderBufferAhead
<1>1. OrderInv => ReorderBufferAhead
  BY DEF OrderInv, Buffered, ReorderBufferAhead
<1> QED BY <1>1, OrderInvariant, PTL

\* update_hs_hash() sees each message of a side once, in the order of
\* message_seq, whatever the network duplicates, reorders or loses.
THEOREM Transcripts == Spec => []TranscriptInOrder
<1>1. OrderInv => TranscriptInOrder
  BY DEF OrderInv, Ordered, InOrder, TranscriptInOrder
<1> QED BY <1>1, OrderInvariant, PTL
=============================================================================
