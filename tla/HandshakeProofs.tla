-------------------------- MODULE HandshakeProofs --------------------------
(***************************************************************************)
(* Theorems about the DTLS engine of module Handshake.                     *)
(***************************************************************************)
EXTENDS Handshake, SequenceTheorems, TLAPS

QueueType == Seq([m : MsgRecord, cnt : Nat])
BufType == [n : 0..NFrag, seq : Nat, a : Nat]
UsedType == [ch : Nat, sh : Nat, hreq : Nat, lost : Nat, down : Nat]

\* The part of TypeOK that the handlers of a handshake message change.
HandlerTypes ==
    /\ pr \in [Endpoint -> PeerRecord]
    /\ sq \in [Endpoint -> QueueType]
    /\ net \in SUBSET MsgRecord
    /\ used \in UsedType
    /\ offered \in SUBSET SessionRecord
    /\ accepted \in SUBSET SessionRecord
    /\ confirmed \in SUBSET SessionRecord

-----------------------------------------------------------------------------
(* What the operators of the model return *)

LEMMA FunctionIsSeq ==
    ASSUME NEW S, NEW n \in Nat, NEW f \in [1..n -> S]
    PROVE  f \in Seq(S)
<1>1. f \in UNION {[1..k -> S] : k \in Nat}
  OBVIOUS
<1> QED BY <1>1, SeqDef, Zenon

LEMMA ShortSeqs ==
    ASSUME NEW S, NEW x \in S, NEW y \in S
    PROVE  <<x>> \in Seq(S) /\ <<x, y>> \in Seq(S)
OBVIOUS

LEMMA EntrySeqs ==
    ASSUME NEW x \in EntryType, NEW y \in EntryType
    PROVE  <<x>> \in Seq(EntryType) /\ <<x, y>> \in Seq(EntryType)
BY ShortSeqs

LEMMA MsgFields ==
    ASSUME NEW m \in MsgRecord
    PROVE  /\ m.dst \in Endpoint /\ m.ep \in Int /\ m.key \in Key /\ m.typ \in MsgType
           /\ m.seq \in Nat /\ m.frag \in 0..NFrag /\ m.a \in Nat /\ m.b \in Nat
           /\ m.hash \in Seq(EntryType)
BY DEF MsgRecord

LEMMA PeerFields ==
    ASSUME NEW p \in PeerRecord
    PROVE  /\ p.live \in BOOLEAN /\ p.state \in State /\ p.hs \in HsRecord
           /\ p.sec0 \in SecType /\ p.sec1 \in SecType
           /\ p.hs.on \in BOOLEAN /\ p.hs.r \in Nat /\ p.hs.s \in Nat
           /\ p.hs.cr \in Nat /\ p.hs.sr \in Nat /\ p.hs.hash \in Seq(EntryType)
           /\ p.hs.early \in SUBSET MsgRecord /\ p.hs.buf \in BufType
           /\ Master(p) \in Key
BY DEF PeerRecord, HsRecord, BufType, Master, Key

LEMMA OtherType == ASSUME NEW e \in Endpoint PROVE Other(e) \in Endpoint
BY DEF Other, Endpoint

LEMMA EmptyTypes ==
    <<>> \in QueueType /\ <<>> \in Seq(EntryType) /\ NoKey \in Key /\ 0 \in 0..NFrag
BY FragAssumption DEF QueueType, NoKey, Key

LEMMA RecType ==
    ASSUME NEW e \in Endpoint, NEW sec \in SecType, NEW typ \in MsgType,
           NEW seq \in Nat, NEW frag \in 0..NFrag, NEW a \in Nat, NEW b \in Nat,
           NEW hash \in Seq(EntryType)
    PROVE  Rec(e, sec, typ, seq, frag, a, b, hash) \in MsgRecord
BY DEF Rec, MsgRecord, SecType

LEMMA AlertType ==
    ASSUME NEW e \in Endpoint, NEW p \in PeerRecord, NEW d \in Nat
    PROVE  Alert(e, p, d) \in MsgRecord
BY PeerFields, OtherType, EmptyTypes, RecType DEF Alert, MsgType

LEMMA EntryTypes ==
    ASSUME NEW typ \in HsType, NEW seq \in Nat, NEW a \in Nat, NEW b \in Nat
    PROVE  Entry(typ, seq, a, b) \in EntryType
BY DEF Entry, EntryType

LEMMA QueueTypes ==
    ASSUME NEW ms \in Seq(MsgRecord)
    PROVE  Queue(ms) \in QueueType /\ Elems(ms) \in SUBSET MsgRecord
<1> DEFINE R == [m : MsgRecord, cnt : Nat]
<1>1. PICK n \in Nat : ms \in [1..n -> MsgRecord]
  BY SeqDef
<1>2. Queue(ms) \in [1..n -> R]
  BY <1>1 DEF Queue, Node
<1>3. Queue(ms) \in Seq(R)
  BY <1>2, FunctionIsSeq
<1> QED BY <1>1, <1>3 DEF QueueType, Elems

LEMMA NewTypes ==
    /\ NoHs \in HsRecord /\ \A r, s \in Nat : NewHs(r, s) \in HsRecord
    /\ NoPeer \in PeerRecord /\ NewPeer \in PeerRecord
    /\ NoBuf \in BufType
<1>1. NoBuf \in BufType
  BY FragAssumption DEF NoBuf, BufType, Garbled
<1>2. NoHs \in HsRecord /\ \A r, s \in Nat : NewHs(r, s) \in HsRecord
  BY <1>1, EmptyTypes DEF NoHs, NewHs, HsRecord, BufType
<1>3. Sec(0, NoKey) \in SecType /\ NoSec \in SecType
  BY DEF Sec, NoSec, NoKey, SecType, Key
<1>4. NoPeer \in PeerRecord
  BY <1>2, <1>3 DEF NoPeer, PeerRecord, State, Waiting
<1> QED BY <1>1, <1>2, <1>4 DEF NewPeer, PeerRecord

LEMMA SetHs ==
    ASSUME NEW p \in PeerRecord, NEW h \in HsRecord
    PROVE  /\ [p EXCEPT !.hs = h] \in PeerRecord
           /\ \A st \in State : /\ Enter(p, st) \in PeerRecord
                                /\ [p EXCEPT !.state = st, !.hs = h] \in PeerRecord
BY DEF PeerRecord, Enter

LEMMA PeerOps ==
    ASSUME NEW p \in PeerRecord
    PROVE  /\ \A es \in Seq(EntryType) : Rehashed(p, es) \in PeerRecord
           /\ \A es \in Seq(EntryType) : Hashed(p, es) \in PeerRecord
           /\ \A dr, ds \in Nat : Advance(p, dr, ds) \in PeerRecord
           /\ \A b \in BufType : WithBuf(p, b) \in PeerRecord
           /\ \A ms \in SUBSET MsgRecord : WithEarly(p, ms) \in PeerRecord
<1>1. p.hs \in HsRecord
  BY PeerFields
<1>2. ASSUME NEW es \in Seq(EntryType) PROVE Rehashed(p, es) \in PeerRecord
  BY <1>1, SetHs DEF Rehashed, HsRecord
<1>3. ASSUME NEW es \in Seq(EntryType) PROVE Hashed(p, es) \in PeerRecord
  <2>1. p.hs.hash \o es \in Seq(EntryType)
    BY PeerFields, ConcatProperties
  <2> QED BY <2>1, <1>2 DEF Hashed
<1>4. ASSUME NEW dr \in Nat, NEW ds \in Nat PROVE Advance(p, dr, ds) \in PeerRecord
  <2>1. p.hs.r + dr \in Nat /\ p.hs.s + ds \in Nat
    BY PeerFields
  <2>2. [p.hs EXCEPT !.r = p.hs.r + dr, !.s = p.hs.s + ds] \in HsRecord
    BY <1>1, <2>1 DEF HsRecord
  <2> QED BY <2>2, SetHs DEF Advance
<1>5. ASSUME NEW b \in BufType PROVE WithBuf(p, b) \in PeerRecord
  BY <1>1, SetHs DEF WithBuf, HsRecord, BufType
<1>6. ASSUME NEW ms \in SUBSET MsgRecord PROVE WithEarly(p, ms) \in PeerRecord
  BY <1>1, SetHs DEF WithEarly, HsRecord
<1> QED BY <1>2, <1>3, <1>4, <1>5, <1>6

LEMMA SecOps ==
    ASSUME NEW p \in PeerRecord
    PROVE  /\ \A k \in Key : NextSec(p, k) \in PeerRecord
           /\ Switch(p) \in PeerRecord
           /\ FreeOther(p) \in PeerRecord
           /\ \A m : AfterOpen(p, m) \in PeerRecord
           /\ \A x : SecAt(p, x) \in SecType
<1>1. NoSec \in SecType
  BY DEF NoSec, NoKey, SecType, Key
<1>2. \A k \in Key : NextSec(p, k) \in PeerRecord
  BY DEF NextSec, Sec, PeerRecord, SecType
<1>3. Switch(p) \in PeerRecord
  BY DEF Switch, PeerRecord
<1>4. FreeOther(p) \in PeerRecord
  BY <1>1 DEF FreeOther, PeerRecord
<1>5. \A m : AfterOpen(p, m) \in PeerRecord
  BY <1>4 DEF AfterOpen
<1> QED BY <1>1, <1>2, <1>3, <1>4, <1>5, PeerFields DEF SecAt

-----------------------------------------------------------------------------
(* Every handler preserves the types *)

LEMMA UpdateTypes ==
    ASSUME HandlerTypes, NEW e \in Endpoint, NEW p \in PeerRecord,
           NEW q \in QueueType, NEW ms \in SUBSET MsgRecord,
           Put(e, p), SetQueue(e, q), net' = ms
    PROVE  /\ pr' \in [Endpoint -> PeerRecord]
           /\ sq' \in [Endpoint -> QueueType]
           /\ net' \in SUBSET MsgRecord
BY DEF HandlerTypes, Put, SetQueue

LEMMA IgnoreTypes ==
    ASSUME HandlerTypes, NEW e \in Endpoint, NEW p \in PeerRecord,
           NEW rest \in SUBSET MsgRecord, Ignore(e, p, rest) \/ Skip(e, p, rest)
    PROVE  HandlerTypes'
<1>1. sq[e] \in QueueType
  BY DEF HandlerTypes
<1> QED BY <1>1, EmptyTypes DEF Ignore, Skip, HandlerTypes, Put, SetQueue, hist

LEMMA DestroyTypes ==
    ASSUME HandlerTypes, NEW e \in Endpoint, NEW rest \in SUBSET MsgRecord,
           NEW out \in SUBSET MsgRecord, Destroy(e, rest, out)
    PROVE  HandlerTypes'
BY NewTypes, EmptyTypes DEF Destroy, Discard, HandlerTypes, Put, SetQueue, hist

LEMMA FailTypes ==
    ASSUME HandlerTypes, NEW e \in Endpoint, NEW p \in PeerRecord,
           NEW q \in QueueType, NEW rest \in SUBSET MsgRecord, Fail(e, p, q, rest)
    PROVE  HandlerTypes'
<1>1. Enter(p, "CLOSING") \in PeerRecord
  BY SetHs, PeerFields DEF State
<1>2. Alert(e, p, Fatal) \in MsgRecord
  BY AlertType DEF Fatal
<1> QED BY <1>1, <1>2, UpdateTypes DEF Fail, HandlerTypes, hist

LEMMA HelloVerifyRequestTypes ==
    ASSUME HandlerTypes, NEW e \in Endpoint, NEW p \in PeerRecord, NEW m \in MsgRecord,
           NEW st, NEW rest \in SUBSET MsgRecord, HelloVerifyRequest(e, p, m, st, rest)
    PROVE  HandlerTypes'
<1> DEFINE ch == Rec(Other(e), p.sec0, "CH", p.hs.s, 0, p.hs.cr, m.a, <<>>)
           p1 == Rehashed(p, <<Entry("CH", p.hs.s, p.hs.cr, m.a)>>)
<1>1. ch \in MsgRecord
  BY PeerFields, MsgFields, OtherType, EmptyTypes, RecType DEF MsgType, HsType
<1>2. Entry("CH", p.hs.s, p.hs.cr, m.a) \in EntryType
  BY PeerFields, MsgFields, EntryTypes DEF HsType
<1>3. p1 \in PeerRecord
  BY <1>2, EntrySeqs, PeerOps
<1>4. Advance(p1, 1, 1) \in PeerRecord
  BY <1>3, PeerOps
<1> HIDE DEF ch, p1
<1>5. Queue(<<ch>>) \in QueueType
  BY <1>1, ShortSeqs, QueueTypes
<1>6. /\ Put(e, Advance(p1, 1, 1)) /\ net' = rest \cup {ch} /\ SetQueue(e, Queue(<<ch>>))
      /\ UNCHANGED <<used, hist>>
  BY DEF HelloVerifyRequest, ch, p1
<1> QED BY <1>1, <1>4, <1>5, <1>6, UpdateTypes DEF HandlerTypes, hist

LEMMA ServerHelloTypes ==
    ASSUME HandlerTypes, NEW e \in Endpoint, NEW p \in PeerRecord, NEW m \in MsgRecord,
           NEW st, NEW rest \in SUBSET MsgRecord, ServerHello(e, p, m, st, rest)
    PROVE  HandlerTypes'
<1> DEFINE p1 == [p EXCEPT !.hs = [p.hs EXCEPT !.sr = m.a]]
           p2 == Enter(Hashed(p1, <<Entry("SH", m.seq, m.a, 0)>>), "WAIT_SERVERHELLODONE")
<1>1. [p.hs EXCEPT !.sr = m.a] \in HsRecord
  BY PeerFields, MsgFields DEF HsRecord
<1>2. p1 \in PeerRecord
  BY <1>1, SetHs
<1>3. Entry("SH", m.seq, m.a, 0) \in EntryType
  BY MsgFields, EntryTypes DEF HsType
<1> HIDE DEF p1
<1>4. Hashed(p1, <<Entry("SH", m.seq, m.a, 0)>>) \in PeerRecord
  BY <1>2, <1>3, EntrySeqs, PeerOps
<1>5. p2 \in PeerRecord
  BY <1>4, PeerFields, SetHs DEF State, Waiting
<1> HIDE DEF p2
<1>6. Advance(p2, 1, 0) \in PeerRecord
  BY <1>5, PeerOps
<1>7. Put(e, Advance(p2, 1, 0)) /\ net' = rest /\ SetQueue(e, <<>>) /\ UNCHANGED <<used, hist>>
  BY DEF ServerHello, p1, p2
<1> QED BY <1>6, <1>7, EmptyTypes, UpdateTypes DEF HandlerTypes, hist

LEMMA ServerKeyExchangeTypes ==
    ASSUME HandlerTypes, NEW e \in Endpoint, NEW p \in PeerRecord, NEW m \in MsgRecord,
           NEW st, NEW rest \in SUBSET MsgRecord, ServerKeyExchange(e, p, m, st, rest)
    PROVE  HandlerTypes'
<1> DEFINE p1 == Hashed(p, <<Entry("SKX", m.seq, 0, 0)>>)
<1>1. Entry("SKX", m.seq, 0, 0) \in EntryType
  BY MsgFields, EntryTypes DEF HsType
<1>2. p1 \in PeerRecord
  BY <1>1, EntrySeqs, PeerOps
<1> HIDE DEF p1
<1>3. Advance(p1, 1, 0) \in PeerRecord
  BY <1>2, PeerOps
<1>4. Put(e, Advance(p1, 1, 0)) /\ net' = rest /\ SetQueue(e, <<>>) /\ UNCHANGED <<used, hist>>
  BY DEF ServerKeyExchange, p1
<1> QED BY <1>3, <1>4, EmptyTypes, UpdateTypes DEF HandlerTypes, hist

LEMMA ClientKeyExchangeTypes ==
    ASSUME HandlerTypes, NEW e \in Endpoint, NEW p \in PeerRecord, NEW m \in MsgRecord,
           NEW st, NEW rest \in SUBSET MsgRecord, ClientKeyExchange(e, p, m, st, rest)
    PROVE  HandlerTypes'
<1> DEFINE p1 == Hashed(p, <<Entry("CKX", m.seq, m.a, 0)>>)
           p2 == Enter(p1, "WAIT_CHANGECIPHERSPEC")
<1>1. Entry("CKX", m.seq, m.a, 0) \in EntryType
  BY MsgFields, EntryTypes DEF HsType
<1>2. p1 \in PeerRecord
  BY <1>1, EntrySeqs, PeerOps
<1> HIDE DEF p1
<1>3. p2 \in PeerRecord
  BY <1>2, PeerFields, SetHs DEF State, Waiting
<1> HIDE DEF p2
<1>4. Advance(p2, 1, 0) \in PeerRecord
  BY <1>3, PeerOps
<1>5. Put(e, Advance(p2, 1, 0)) /\ net' = rest /\ SetQueue(e, <<>>) /\ UNCHANGED <<used, hist>>
  BY DEF ClientKeyExchange, p1, p2
<1> QED BY <1>4, <1>5, EmptyTypes, UpdateTypes DEF HandlerTypes, hist

LEMMA ServerHelloDoneTypes ==
    ASSUME HandlerTypes, NEW e \in Endpoint, NEW p \in PeerRecord, NEW m \in MsgRecord,
           NEW st, NEW rest \in SUBSET MsgRecord, ServerHelloDone(e, p, m, st, rest)
    PROVE  HandlerTypes'
<1> DEFINE ckx == KeyExchangeFlight(e, p)
           es  == <<Entry("SHD", m.seq, 0, 0), Entry("CKX", p.hs.s, p.hs.cr, 0)>>
           p1  == Hashed(p, es)
           p2  == Switch(NextSec(p1, Master(p)))
           ccs == Rec(Other(e), p.sec0, "CCS", 0, 0, 0, 0, <<>>)
           fin == Rec(Other(e), p2.sec0, "FIN", p.hs.s + 1, 0, p.hs.cr, p.hs.sr, p1.hs.hash)
           fe  == Entry("FIN", p.hs.s + 1, 0, 0)
           p3  == Hashed(p2, <<fe>>)
           p4  == Enter(p3, "WAIT_CHANGECIPHERSPEC")
           out == ckx \o <<ccs, fin>>
           ses == [key |-> Master(p), hash |-> p3.hs.hash]
<1>0. p.hs.s \in Nat /\ p.hs.s + 1 \in Nat /\ p.hs.cr \in Nat /\ p.hs.sr \in Nat /\ m.seq \in Nat
  BY PeerFields, MsgFields
<1>1. Entry("SHD", m.seq, 0, 0) \in EntryType /\ Entry("CKX", p.hs.s, p.hs.cr, 0) \in EntryType
  BY <1>0, EntryTypes DEF HsType
<1>2. fe \in EntryType
  BY <1>0, EntryTypes DEF HsType
<1>3. es \in Seq(EntryType) /\ <<fe>> \in Seq(EntryType)
  BY <1>1, <1>2, EntrySeqs
<1> HIDE DEF es, fe
<1>4. p1 \in PeerRecord
  BY <1>3, PeerOps
<1> HIDE DEF p1
<1>5. p2 \in PeerRecord /\ NextSec(p1, NoKey) \in PeerRecord
  BY <1>4, SecOps, PeerFields, EmptyTypes
<1> HIDE DEF p2
<1>6. p3 \in PeerRecord /\ Advance(NextSec(p1, NoKey), 0, 1) \in PeerRecord
  BY <1>3, <1>5, PeerOps
<1> HIDE DEF p3
<1>7. p4 \in PeerRecord
  BY <1>6, SetHs, PeerFields DEF State, Waiting
<1> HIDE DEF p4
<1>8. Advance(p4, 1, 2) \in PeerRecord
  BY <1>7, PeerOps
<1>9. ckx \in Seq(MsgRecord)
  <2>1. ASSUME NEW i \in 1..NFrag
        PROVE  Rec(Other(e), p.sec0, "CKX", p.hs.s, i, p.hs.cr, 0, <<>>) \in MsgRecord
    <3>1. i \in 0..NFrag
      BY FragAssumption
    <3>2. "CKX" \in MsgType /\ p.sec0 \in SecType
      BY PeerFields DEF MsgType, HsType
    <3> QED BY <3>1, <3>2, <1>0, OtherType, EmptyTypes, RecType
  <2>2. ckx \in [1..NFrag -> MsgRecord]
    BY <2>1 DEF KeyExchangeFlight
  <2> HIDE DEF ckx
  <2> QED BY <2>2, FunctionIsSeq, FragAssumption
<1>10. ccs \in MsgRecord
  BY PeerFields, OtherType, EmptyTypes, RecType DEF MsgType
<1>11. fin \in MsgRecord
  <2>1. p2.sec0 \in SecType /\ p1.hs.hash \in Seq(EntryType) /\ "FIN" \in MsgType
    BY <1>4, <1>5, PeerFields DEF MsgType, HsType
  <2> QED BY <1>0, <2>1, OtherType, EmptyTypes, RecType
<1> HIDE DEF ckx, ccs, fin
<1>12. out \in Seq(MsgRecord)
  <2>1. <<ccs, fin>> \in Seq(MsgRecord)
    BY <1>10, <1>11, ShortSeqs
  <2> QED BY <1>9, <2>1, ConcatProperties
<1>13. ses \in SessionRecord
  BY <1>6, PeerFields DEF SessionRecord
<1> HIDE DEF out, ses
<1>14. CASE /\ Put(e, Advance(p4, 1, 2)) /\ net' = rest \cup Elems(out)
            /\ SetQueue(e, Queue(out)) /\ offered' = offered \cup {ses}
            /\ UNCHANGED <<used, accepted, confirmed>>
  BY <1>8, <1>12, <1>13, <1>14, QueueTypes, UpdateTypes DEF HandlerTypes
<1>15. CASE Fail(e, Advance(NextSec(p1, NoKey), 0, 1), Queue(ckx), rest \cup Elems(ckx))
  <2>1. Queue(ckx) \in QueueType /\ rest \cup Elems(ckx) \in SUBSET MsgRecord
    BY <1>9, QueueTypes
  <2> QED BY <1>6, <1>15, <2>1, FailTypes
<1> QED BY <1>14, <1>15 DEF ServerHelloDone, ckx, es, p1, p2, ccs, fin, fe, p3, p4, out, ses

LEMMA SendHelloVerifyTypes ==
    ASSUME HandlerTypes, NEW e \in Endpoint, NEW p \in PeerRecord, NEW m \in MsgRecord,
           NEW st, NEW rest \in SUBSET MsgRecord, SendHelloVerify(e, p, m, st, rest)
    PROVE  HandlerTypes'
<1> DEFINE own == st = "CONNECTED"
           sec == IF own THEN p.sec0 ELSE Sec(0, NoKey)
           seq == IF own THEN p.hs.s ELSE 0
           hvr == Rec(Other(e), sec, "HVR", seq, 0, m.a, 0, <<>>)
           p1  == IF ~p.hs.on THEN p ELSE Advance(p, 1, IF own THEN 1 ELSE 0)
<1>1. sec \in SecType /\ seq \in Nat
  BY PeerFields, EmptyTypes DEF Sec, SecType
<1>2. hvr \in MsgRecord
  <2> HIDE DEF sec, seq
  <2> QED BY <1>1, MsgFields, OtherType, EmptyTypes, RecType DEF MsgType, HsType
<1>3. p1 \in PeerRecord
  BY PeerOps
<1>4. (IF p.live THEN <<>> ELSE sq[e]) \in QueueType
  BY EmptyTypes DEF HandlerTypes
<1>5. /\ Put(e, p1) /\ net' = rest \cup {hvr} /\ SetQueue(e, IF p.live THEN <<>> ELSE sq[e])
      /\ UNCHANGED <<used, hist>>
  BY DEF SendHelloVerify
<1> HIDE DEF hvr, p1
<1> QED BY <1>2, <1>3, <1>4, <1>5, UpdateTypes DEF HandlerTypes, hist

LEMMA ServerHelloFlightTypes ==
    ASSUME NEW e \in Endpoint, NEW sec \in SecType, NEW s \in Nat, NEW sr \in Nat
    PROVE  /\ ServerHelloFlight(e, sec, s, sr) \in Seq(MsgRecord)
           /\ \A i \in DOMAIN ServerHelloFlight(e, sec, s, sr) :
                 ServerHelloFlight(e, sec, s, sr)[i].typ \in HsType
<1> DEFINE sh  == Rec(Other(e), sec, "SH", s, 0, sr, 0, <<>>)
           skx == Rec(Other(e), sec, "SKX", s + 1, 0, 0, 0, <<>>)
           d1  == Rec(Other(e), sec, "SHD", s + 1 + Len(<<>>), 0, 0, 0, <<>>)
           d2  == Rec(Other(e), sec, "SHD", s + 1 + Len(<<skx>>), 0, 0, 0, <<>>)
           R   == {x \in MsgRecord : x.typ \in HsType}
<1>1. sh \in R
  BY OtherType, EmptyTypes, RecType DEF MsgType, HsType, Rec
<1>2. skx \in R
  <2>1. s + 1 \in Nat
    OBVIOUS
  <2> QED BY <2>1, OtherType, EmptyTypes, RecType DEF MsgType, HsType, Rec
<1> HIDE DEF skx
<1>3. s + 1 + Len(<<>>) \in Nat /\ s + 1 + Len(<<skx>>) \in Nat
  OBVIOUS
<1>4. d1 \in R
  BY <1>3, OtherType, EmptyTypes, RecType DEF MsgType, HsType, Rec
<1>5. d2 \in R
  BY <1>3, OtherType, EmptyTypes, RecType DEF MsgType, HsType, Rec
<1> HIDE DEF sh, d1, d2, R
<1>6. <<sh>> \in Seq(R) /\ <<skx>> \in Seq(R) /\ <<d1>> \in Seq(R) /\ <<d2>> \in Seq(R) /\ <<>> \in Seq(R)
  BY <1>1, <1>2, <1>4, <1>5, ShortSeqs
<1>7. /\ (<<sh>> \o <<skx>>) \in Seq(R) /\ (<<sh>> \o <<>>) \in Seq(R)
      /\ ((<<sh>> \o <<skx>>) \o <<d2>>) \in Seq(R)
      /\ ((<<sh>> \o <<>>) \o <<d1>>) \in Seq(R)
  BY <1>6, ConcatProperties
<1>8. ServerHelloFlight(e, sec, s, sr) \in Seq(R)
  BY <1>7, PskAssumption DEF ServerHelloFlight, sh, skx, d1, d2
<1> DEFINE f == ServerHelloFlight(e, sec, s, sr)
<1> HIDE DEF f
<1>9. f \in Seq(R)
  BY <1>8 DEF f
<1>10. f \in Seq(MsgRecord) /\ \A i \in DOMAIN f : f[i] \in R
  <2>1. R \subseteq MsgRecord
    BY DEF R
  <2> QED BY <1>9, <2>1, SeqMonotonic, LenProperties, ElementOfSeq
<1>11. \A i \in DOMAIN f : f[i].typ \in HsType
  BY <1>10 DEF R
<1> QED BY <1>10, <1>11 DEF f

LEMMA AcceptHelloTypes ==
    ASSUME HandlerTypes, NEW e \in Endpoint, NEW p \in PeerRecord, NEW m \in MsgRecord,
           NEW st, NEW rest \in SUBSET MsgRecord, AcceptHello(e, p, m, st, rest)
    PROVE  HandlerTypes'
<1> DEFINE again == p.live /\ st = "WAIT_CLIENTHELLO"
           p0    == IF p.live /\ ~again THEN p ELSE NewPeer
           h0    == IF p0.hs.on THEN p0.hs ELSE NewHs(m.seq, 1)
           sr    == used.sh + 1
           out   == ServerHelloFlight(e, p0.sec0, h0.s, sr)
           log   == [i \in DOMAIN out |-> Entry(out[i].typ, out[i].seq, out[i].a, 0)]
           first == <<Entry("CH", m.seq, m.a, m.b)>>
           h1    == [h0 EXCEPT !.cr = m.a, !.sr = sr, !.r = @ + 1, !.s = @ + Len(out),
                               !.hash = first \o log]
           p1    == [p0 EXCEPT !.state = "WAIT_CLIENTKEYEXCHANGE", !.hs = h1]
<1>1. p0 \in PeerRecord
  BY NewTypes
<1> HIDE DEF p0
<1>2. h0 \in HsRecord
  BY <1>1, PeerFields, MsgFields, NewTypes
<1> HIDE DEF h0
<1>3. sr \in Nat /\ h0.s \in Nat /\ h0.r \in Nat /\ p0.sec0 \in SecType
  BY <1>1, <1>2, PeerFields DEF HandlerTypes, UsedType, HsRecord
<1> HIDE DEF sr
<1>4. out \in Seq(MsgRecord) /\ \A i \in DOMAIN out : out[i].typ \in HsType
  BY <1>3, ServerHelloFlightTypes
<1> HIDE DEF out
<1>5. PICK n \in Nat : out \in [1..n -> MsgRecord] /\ n = Len(out) /\ DOMAIN out = 1..n
  BY <1>4, LenProperties
<1>6. log \in Seq(EntryType)
  <2>1. ASSUME NEW i \in 1..n PROVE Entry(out[i].typ, out[i].seq, out[i].a, 0) \in EntryType
    <3>1. out[i] \in MsgRecord /\ out[i].typ \in HsType
      BY <1>4, <1>5
    <3> QED BY <3>1, MsgFields, EntryTypes
  <2>2. log \in [1..n -> EntryType]
    BY <1>5, <2>1
  <2> HIDE DEF log
  <2> QED BY <2>2, FunctionIsSeq
<1>7. first \in Seq(EntryType)
  <2>1. Entry("CH", m.seq, m.a, m.b) \in EntryType
    BY MsgFields, EntryTypes DEF HsType
  <2> QED BY <2>1, EntrySeqs
<1> HIDE DEF log, first
<1>8. first \o log \in Seq(EntryType)
  BY <1>6, <1>7, ConcatProperties
<1>9. h1 \in HsRecord
  <2>1. h0.r + 1 \in Nat /\ h0.s + Len(out) \in Nat
    BY <1>3, <1>5
  <2> DEFINE hash == first \o log
  <2>2. hash \in Seq(EntryType)
    BY <1>8
  <2> HIDE DEF hash
  <2>3. [h0 EXCEPT !.cr = m.a, !.sr = sr, !.r = h0.r + 1, !.s = h0.s + Len(out), !.hash = hash] \in HsRecord
    BY <1>2, <1>3, <2>1, <2>2, MsgFields, ZenonT(40) DEF HsRecord
  <2> QED BY <2>3 DEF hash
<1> HIDE DEF h1
<1>10. p1 \in PeerRecord
  BY <1>1, <1>9, SetHs, ZenonT(40) DEF State, Waiting
<1> HIDE DEF p1
<1>11. PICK q \in {<<>>, Queue(out)} : SetQueue(e, q)
  BY ZenonT(40) DEF AcceptHello, again, p0, h0, sr, out, SetQueue
<1>12. q \in QueueType /\ Elems(out) \in SUBSET MsgRecord
  BY <1>4, <1>11, QueueTypes, EmptyTypes
<1>13. /\ Put(e, p1) /\ net' = rest \cup Elems(out)
       /\ used' = [used EXCEPT !.sh = sr] /\ UNCHANGED hist
  BY DEF AcceptHello, again, p0, h0, sr, out, log, first, h1, p1
<1>14. used' \in UsedType
  BY <1>3, <1>13 DEF HandlerTypes, UsedType
<1> QED BY <1>10, <1>11, <1>12, <1>13, <1>14, UpdateTypes DEF HandlerTypes, hist

LEMMA FinishedTypes ==
    ASSUME HandlerTypes, NEW e \in Endpoint, NEW p \in PeerRecord, NEW m \in MsgRecord,
           NEW st, NEW rest \in SUBSET MsgRecord, Finished(e, p, m, st, rest)
    PROVE  HandlerTypes'
<1> DEFINE p1  == IF e = "S" THEN Hashed(p, <<Entry("FIN", m.seq, 0, 0)>>) ELSE p
           p2  == IF e = "S" THEN Switch(p1) ELSE p1
           ccs == Rec(Other(e), p.sec0, "CCS", 0, 0, 0, 0, <<>>)
           fin == Rec(Other(e), p2.sec0, "FIN", p.hs.s, 0, p.hs.cr, p.hs.sr, p1.hs.hash)
           ses == [key |-> Master(p), hash |-> p1.hs.hash]
           p3  == [p2 EXCEPT !.state = "CONNECTED", !.hs = NoHs]
<1>1. p1 \in PeerRecord
  <2>1. Entry("FIN", m.seq, 0, 0) \in EntryType
    BY MsgFields, EntryTypes DEF HsType
  <2> QED BY <2>1, EntrySeqs, PeerOps
<1> HIDE DEF p1
<1>2. p2 \in PeerRecord
  BY <1>1, SecOps
<1> HIDE DEF p2
<1>3. ccs \in MsgRecord
  BY PeerFields, OtherType, EmptyTypes, RecType DEF MsgType
<1>4. fin \in MsgRecord
  <2>1. p2.sec0 \in SecType /\ p1.hs.hash \in Seq(EntryType) /\ "FIN" \in MsgType
    BY <1>1, <1>2, PeerFields DEF MsgType, HsType
  <2> QED BY <2>1, PeerFields, OtherType, EmptyTypes, RecType
<1>5. ses \in SessionRecord
  BY <1>1, PeerFields DEF SessionRecord
<1>6. p3 \in PeerRecord
  BY <1>2, NewTypes, SetHs DEF State
<1> HIDE DEF ccs, fin, ses, p3
<1>7. /\ Put(e, p3) /\ SetQueue(e, <<>>)
      /\ net' = rest \cup (IF e = "S" THEN {ccs, fin} ELSE {})
      /\ accepted' = IF e = "S" THEN accepted \cup {ses} ELSE accepted
      /\ confirmed' = IF e = "C" THEN confirmed \cup {ses} ELSE confirmed
      /\ UNCHANGED <<used, offered>>
  BY DEF Finished, p1, p2, ccs, fin, ses, p3
<1>8. rest \cup (IF e = "S" THEN {ccs, fin} ELSE {}) \in SUBSET MsgRecord
  BY <1>3, <1>4
<1>9. accepted' \in SUBSET SessionRecord /\ confirmed' \in SUBSET SessionRecord
  BY <1>5, <1>7 DEF HandlerTypes
<1> QED BY <1>6, <1>7, <1>8, <1>9, EmptyTypes, UpdateTypes DEF HandlerTypes

LEMMA StartHelloTypes ==
    ASSUME HandlerTypes, NEW e \in Endpoint, NEW p \in PeerRecord, NEW h \in HsRecord,
           NEW q \in QueueType, NEW rest \in SUBSET MsgRecord, StartHello(e, p, h, q, rest)
    PROVE  HandlerTypes'
<1> DEFINE cr == used.ch + 1
           ch == Rec(Other(e), p.sec0, "CH", h.s, 0, cr, 0, <<>>)
           h1 == [h EXCEPT !.cr = cr, !.s = h.s + 1]
           p1 == [p EXCEPT !.state = "CLIENTHELLO", !.hs = h1]
           q1 == q \o Queue(<<ch>>)
<1>1. cr \in Nat /\ h.s \in Nat /\ h.s + 1 \in Nat
  BY DEF HandlerTypes, UsedType, HsRecord
<1> HIDE DEF cr
<1>2. ch \in MsgRecord
  BY <1>1, PeerFields, OtherType, EmptyTypes, RecType DEF MsgType, HsType
<1>3. h1 \in HsRecord
  BY <1>1 DEF HsRecord
<1> HIDE DEF ch, h1
<1>4. p1 \in PeerRecord
  BY <1>3, SetHs DEF State, Waiting
<1>5. q1 \in QueueType
  <2>1. Queue(<<ch>>) \in QueueType
    BY <1>2, ShortSeqs, QueueTypes
  <2> QED BY <2>1, ConcatProperties DEF QueueType
<1> HIDE DEF p1, q1
<1>6. /\ Put(e, p1) /\ SetQueue(e, q1) /\ net' = rest \cup {ch}
      /\ used' = [used EXCEPT !.ch = cr] /\ UNCHANGED hist
  BY DEF StartHello, cr, ch, h1, p1, q1
<1>7. used' \in UsedType
  BY <1>1, <1>6 DEF HandlerTypes, UsedType
<1> QED BY <1>2, <1>4, <1>5, <1>6, <1>7, UpdateTypes DEF HandlerTypes, hist

LEMMA HelloRequestTypes ==
    ASSUME HandlerTypes, NEW e \in Endpoint, NEW p \in PeerRecord, NEW m \in MsgRecord,
           NEW st, NEW rest \in SUBSET MsgRecord, HelloRequest(e, p, m, st, rest)
    PROVE  HandlerTypes'
<1> DEFINE h == IF p.hs.on THEN p.hs ELSE NewHs(0, 0)
           h1 == [h EXCEPT !.r = @ + 1]
<1>1. h \in HsRecord
  BY PeerFields, NewTypes
<1> HIDE DEF h
<1>2. h1 \in HsRecord
  BY <1>1 DEF HsRecord
<1> HIDE DEF h1
<1>3. CASE StartHello(e, p, h1, <<>>, rest)
  BY <1>2, <1>3, EmptyTypes, StartHelloTypes
<1>4. CASE /\ Put(e, p) /\ net' = rest /\ SetQueue(e, <<>>) /\ UNCHANGED <<used, hist>>
  BY <1>4, EmptyTypes, UpdateTypes DEF HandlerTypes, hist
<1> QED BY <1>3, <1>4 DEF HelloRequest, h, h1

LEMMA HandleMsgTypes ==
    ASSUME HandlerTypes, NEW e \in Endpoint, NEW p \in PeerRecord, NEW m \in MsgRecord,
           NEW st, NEW rest \in SUBSET MsgRecord, HandleMsg(e, p, m, st, rest)
    PROVE  HandlerTypes'
<1>1. CASE HelloVerifyRequest(e, p, m, st, rest)
  BY <1>1, HelloVerifyRequestTypes
<1>2. CASE ServerHello(e, p, m, st, rest)
  BY <1>2, ServerHelloTypes
<1>3. CASE ServerKeyExchange(e, p, m, st, rest)
  BY <1>3, ServerKeyExchangeTypes
<1>4. CASE ServerHelloDone(e, p, m, st, rest)
  BY <1>4, ServerHelloDoneTypes
<1>5. CASE ClientHello(e, p, m, st, rest)
  BY <1>5, SendHelloVerifyTypes, AcceptHelloTypes DEF ClientHello
<1>6. CASE ClientKeyExchange(e, p, m, st, rest)
  BY <1>6, ClientKeyExchangeTypes
<1>7. CASE Finished(e, p, m, st, rest)
  BY <1>7, FinishedTypes
<1>8. CASE HelloRequest(e, p, m, st, rest)
  BY <1>8, HelloRequestTypes
<1>9. CASE Fail(e, p, <<>>, rest)
  BY <1>9, EmptyTypes, FailTypes
<1> QED BY <1>1, <1>2, <1>3, <1>4, <1>5, <1>6, <1>7, <1>8, <1>9 DEF HandleMsg, Unexpected

LEMMA InSequenceTypes ==
    ASSUME HandlerTypes, NEW e \in Endpoint, NEW p \in PeerRecord, NEW m \in MsgRecord,
           NEW st, NEW rest \in SUBSET MsgRecord, InSequence(e, p, m, st, rest)
    PROVE  HandlerTypes'
<1>1. WithBuf(p, NoBuf) \in PeerRecord
  BY NewTypes, PeerOps
<1>2. (IF \E x \in p.hs.early : x.seq = m.seq THEN p
       ELSE WithEarly(p, p.hs.early \cup {m})) \in PeerRecord
  <2>1. p.hs.early \cup {m} \in SUBSET MsgRecord
    BY PeerFields
  <2> QED BY <2>1, PeerOps
<1>3. CASE HandleMsg(e, p, m, st, rest)
  BY <1>3, HandleMsgTypes
<1>4. CASE Ignore(e, p, rest) \/ Skip(e, p, rest)
  BY <1>4, IgnoreTypes
<1>5. CASE Skip(e, IF \E x \in p.hs.early : x.seq = m.seq THEN p
                   ELSE WithEarly(p, p.hs.early \cup {m}), rest)
  BY <1>2, <1>5, IgnoreTypes
<1>6. CASE HandleMsg(e, WithBuf(p, NoBuf), m, st, rest)
  BY <1>1, <1>6, HandleMsgTypes
<1> QED BY <1>3, <1>4, <1>5, <1>6 DEF InSequence

LEMMA ReassembledType ==
    ASSUME NEW b \in BufType, NEW m \in MsgRecord
    PROVE  Reassembled(b, m) \in BufType
<1>1. m.seq \in Nat /\ m.frag \in 0..NFrag /\ m.a \in Nat
  BY MsgFields
<1>2. CASE m.frag = 1
  BY <1>1, <1>2, FragAssumption DEF Reassembled, BufType
<1>3. CASE m.frag # 1
  BY <1>1, <1>3 DEF Reassembled, BufType, Garbled
<1> QED BY <1>2, <1>3

LEMMA FragmentTypes ==
    ASSUME HandlerTypes, NEW e \in Endpoint, NEW p \in PeerRecord, NEW m \in MsgRecord,
           NEW st, NEW rest \in SUBSET MsgRecord, Fragment(e, p, m, st, rest)
    PROVE  HandlerTypes'
<1> DEFINE b  == Reassembled(p.hs.buf, m)
           p1 == WithBuf(p, b)
           p2 == WithBuf(p, NoBuf)
           w  == [m EXCEPT !.frag = 0, !.seq = b.seq, !.a = b.a]
           w0 == [w EXCEPT !.a = Garbled]
<1>1. b \in BufType
  BY PeerFields, ReassembledType
<1> HIDE DEF b
<1>2. p1 \in PeerRecord /\ p2 \in PeerRecord
  BY <1>1, NewTypes, PeerOps
<1>3. b.seq \in Nat /\ b.a \in Nat
  BY <1>1 DEF BufType
<1>4. w \in MsgRecord
  BY <1>3, EmptyTypes DEF MsgRecord
<1> HIDE DEF p1, p2, w
<1>5. w0 \in MsgRecord
  BY <1>4 DEF MsgRecord, Garbled
<1> HIDE DEF w0
<1>6. CASE Fail(e, p, sq[e], rest)
  <2>1. sq[e] \in QueueType
    BY DEF HandlerTypes
  <2> QED BY <1>6, <2>1, FailTypes
<1>7. CASE Ignore(e, p1, rest)
  BY <1>2, <1>7, IgnoreTypes
<1>8. CASE InSequence(e, p1, w, st, rest)
  BY <1>2, <1>4, <1>8, InSequenceTypes
<1>9. CASE InSequence(e, p1, w0, st, rest)
  BY <1>2, <1>5, <1>9, InSequenceTypes
<1>10. CASE Fail(e, p2, <<>>, rest)
  BY <1>2, <1>10, EmptyTypes, FailTypes
<1> QED BY <1>6, <1>7, <1>8, <1>9, <1>10
        DEF Fragment, WholeMessage, Unexpected, b, p1, p2, w, w0

LEMMA ChangeCipherSpecTypes ==
    ASSUME HandlerTypes, NEW e \in Endpoint, NEW p \in PeerRecord,
           NEW rest \in SUBSET MsgRecord, ChangeCipherSpec(e, p, rest)
    PROVE  HandlerTypes'
<1> DEFINE p1 == Enter(IF e = "S" THEN NextSec(p, Master(p)) ELSE p, "WAIT_FINISHED")
<1>1. p1 \in PeerRecord
  <2>1. (IF e = "S" THEN NextSec(p, Master(p)) ELSE p) \in PeerRecord
    BY PeerFields, SecOps
  <2> QED BY <2>1, PeerFields, SetHs DEF State, Waiting
<1>2. (IF p.live THEN <<>> ELSE sq[e]) \in QueueType
  BY EmptyTypes DEF HandlerTypes
<1>3. {Alert(e, p, Fatal)} \in SUBSET MsgRecord
  BY AlertType DEF Fatal
<1> HIDE DEF p1
<1>4. CASE Put(e, p1) /\ net' = rest /\ SetQueue(e, <<>>) /\ UNCHANGED <<used, hist>>
  BY <1>1, <1>4, EmptyTypes, UpdateTypes DEF HandlerTypes, hist
<1>5. CASE Destroy(e, rest, {Alert(e, p, Fatal)})
  BY <1>3, <1>5, DestroyTypes
<1>6. CASE /\ Put(e, p) /\ net' = rest /\ SetQueue(e, IF p.live THEN <<>> ELSE sq[e])
           /\ UNCHANGED <<used, hist>>
  BY <1>2, <1>6, UpdateTypes DEF HandlerTypes, hist
<1> QED BY <1>4, <1>5, <1>6 DEF ChangeCipherSpec, p1

LEMMA ReceiveTypes ==
    ASSUME HandlerTypes, NEW e \in Endpoint, NEW m \in net, Receive(e, m)
    PROVE  HandlerTypes'
<1> DEFINE p    == IF pr[e].live /\ Opens(pr[e], m) THEN AfterOpen(pr[e], m) ELSE pr[e]
           rest == Take(m)
           st   == CallState(e, pr[e], m)
<1>1. m \in MsgRecord /\ pr[e] \in PeerRecord /\ net \in SUBSET MsgRecord
  BY DEF HandlerTypes
<1>2. p \in PeerRecord /\ rest \in SUBSET MsgRecord
  BY <1>1, SecOps DEF Take
<1>3. \/ DecryptError(e, p, rest) \/ ChangeCipherSpec(e, p, rest) \/ HandleAlert(e, p, m, rest)
      \/ Ignore(e, p, rest) \/ HandleHandshake(e, p, m, st, rest)
  BY DEF Receive
<1> HIDE DEF p, rest, st
<1>4. Alert(e, p, Fatal) \in MsgRecord /\ Alert(e, p, CloseNotify) \in MsgRecord
  BY <1>2, AlertType DEF Fatal, CloseNotify
<1>5. CASE DecryptError(e, p, rest)
  BY <1>2, <1>4, <1>5, DestroyTypes, IgnoreTypes DEF DecryptError
<1>6. CASE ChangeCipherSpec(e, p, rest)
  BY <1>2, <1>6, ChangeCipherSpecTypes
<1>7. CASE HandleAlert(e, p, m, rest)
  <2>1. (IF m.a = CloseNotify /\ p.state # "CLOSING" THEN {Alert(e, p, CloseNotify)} ELSE {})
           \in SUBSET MsgRecord
    BY <1>4
  <2> QED BY <1>2, <1>7, <2>1, DestroyTypes, IgnoreTypes DEF HandleAlert
<1>8. CASE Ignore(e, p, rest)
  BY <1>2, <1>8, IgnoreTypes
<1>9. CASE HandleHandshake(e, p, m, st, rest)
  BY <1>1, <1>2, <1>9, InSequenceTypes, FragmentTypes DEF HandleHandshake
<1> QED BY <1>3, <1>5, <1>6, <1>7, <1>8, <1>9

LEMMA DrainTypes ==
    ASSUME HandlerTypes, NEW e \in Endpoint, Drain(e)
    PROVE  HandlerTypes'
<1>1. pr[e] \in PeerRecord /\ net \in SUBSET MsgRecord
  BY DEF HandlerTypes
<1>2. PICK m \in pr[e].hs.early :
         HandleMsg(e, WithEarly(pr[e], pr[e].hs.early \ {m}), m, pr[e].state, net)
  BY DEF Drain
<1>3. m \in MsgRecord /\ pr[e].hs.early \ {m} \in SUBSET MsgRecord
  BY <1>1, PeerFields
<1>4. WithEarly(pr[e], pr[e].hs.early \ {m}) \in PeerRecord
  BY <1>1, <1>3, PeerOps
<1> QED BY <1>1, <1>2, <1>3, <1>4, HandleMsgTypes

-----------------------------------------------------------------------------
(* Type correctness *)

LEMMA TypeOKSplit ==
    TypeOK <=> HandlerTypes /\ up \in BOOLEAN /\ got \in [Endpoint -> SUBSET Key]
BY DEF TypeOK, HandlerTypes, QueueType, UsedType

LEMMA ApplicationTypes ==
    ASSUME HandlerTypes, Connect \/ Application
    PROVE  HandlerTypes'
<1>0. ASSUME NEW e \in Endpoint
      PROVE  /\ pr[e] \in PeerRecord /\ sq[e] \in QueueType /\ net \in SUBSET MsgRecord
             /\ pr[e].sec0 \in SecType /\ pr[e].state \in State
             /\ Alert(e, pr[e], CloseNotify) \in MsgRecord
  BY PeerFields, AlertType DEF HandlerTypes, CloseNotify
<1>1. ASSUME TearDown PROVE used' \in UsedType
  BY <1>1 DEF TearDown, HandlerTypes, UsedType
<1>2. CASE Connect
  <2>1. "C" \in Endpoint
    BY DEF Endpoint
  <2> QED BY <1>0, <1>2, <2>1, NewTypes, StartHelloTypes DEF Connect
<1>3. CASE ClientRestart
  <2>1. "C" \in Endpoint
    BY DEF Endpoint
  <2> QED BY <1>0, <1>1, <1>3, <2>1, NewTypes, EmptyTypes, UpdateTypes
          DEF ClientRestart, Discard, HandlerTypes, hist
<1>4. ASSUME NEW e \in Endpoint, Renegotiate(e) PROVE HandlerTypes'
  <2> DEFINE hreq == Rec(Other(e), pr[e].sec0, "HREQ", 0, 0, 0, 0, <<>>)
             p1   == [pr[e] EXCEPT !.hs = NewHs(0, 1)]
             q1   == sq[e] \o Queue(<<hreq>>)
  <2>1. hreq \in MsgRecord
    BY <1>0, OtherType, EmptyTypes, RecType DEF MsgType, HsType
  <2>2. p1 \in PeerRecord
    BY <1>0, NewTypes, SetHs
  <2> HIDE DEF hreq, p1
  <2>3. q1 \in QueueType
    <3>1. Queue(<<hreq>>) \in QueueType
      BY <2>1, ShortSeqs, QueueTypes
    <3> QED BY <1>0, <3>1, ConcatProperties DEF QueueType
  <2> HIDE DEF q1
  <2>4. CASE StartHello(e, pr[e], NewHs(0, 0), sq[e], net)
    BY <1>0, <2>4, NewTypes, StartHelloTypes
  <2>5. CASE /\ Put(e, p1) /\ net' = net \cup {hreq} /\ SetQueue(e, q1)
             /\ used' = [used EXCEPT !.hreq = @ + 1] /\ UNCHANGED hist
    <3>1. used' \in UsedType
      BY <2>5 DEF HandlerTypes, UsedType
    <3> QED BY <1>0, <2>1, <2>2, <2>3, <2>5, <3>1, UpdateTypes DEF HandlerTypes, hist
  <2> QED BY <1>4, <2>4, <2>5 DEF Renegotiate, hreq, p1, q1
<1>5. ASSUME NEW e \in Endpoint, Write(e) PROVE HandlerTypes'
  <2>1. Rec(Other(e), pr[e].sec0, "APP", 0, 0, 0, 0, <<>>) \in MsgRecord
    BY <1>0, OtherType, EmptyTypes, RecType DEF MsgType
  <2> QED BY <1>5, <2>1 DEF Write, HandlerTypes, hist
<1>6. ASSUME NEW e \in Endpoint, Close(e) PROVE HandlerTypes'
  <2>1. Enter(pr[e], "CLOSING") \in PeerRecord
    BY <1>0, PeerFields, SetHs DEF State
  <2> QED BY <1>0, <1>1, <1>6, <2>1 DEF Close, Put, HandlerTypes, hist
<1>7. ASSUME NEW e \in Endpoint, Reset(e) PROVE HandlerTypes'
  <2>1. (IF pr[e].state \in {"CLOSED", "CLOSING"} THEN {}
         ELSE {Alert(e, pr[e], CloseNotify)}) \in SUBSET MsgRecord
    BY <1>0
  <2> QED BY <1>0, <1>1, <1>7, <2>1, NewTypes, EmptyTypes, UpdateTypes
          DEF Reset, Discard, HandlerTypes, hist
<1> QED BY <1>2, <1>3, <1>4, <1>5, <1>6, <1>7 DEF Application

LEMMA ResendType ==
    ASSUME NEW p \in PeerRecord, NEW m \in MsgRecord
    PROVE  Resend(p, m) \in MsgRecord
<1>1. SecAt(p, m.ep) \in SecType
  BY SecOps
<1>2. ASSUME NEW s \in SecType
      PROVE  /\ [m EXCEPT !.key = s.key] \in MsgRecord
             /\ [m EXCEPT !.ep = 0, !.key = NoKey] \in MsgRecord
  <2>1. s.key \in Key /\ NoKey \in Key
    BY EmptyTypes DEF SecType
  <2>2. ASSUME NEW k \in Key PROVE [m EXCEPT !.key = k] \in MsgRecord
    BY DEF MsgRecord
  <2>3. ASSUME NEW k \in Key, NEW x \in Int
        PROVE  [m EXCEPT !.ep = x, !.key = k] \in MsgRecord
    BY DEF MsgRecord
  <2>4. [m EXCEPT !.key = s.key] \in MsgRecord
    BY <2>1, <2>2
  <2>5. [m EXCEPT !.ep = 0, !.key = NoKey] \in MsgRecord
    <3>1. 0 \in Int
      OBVIOUS
    <3> QED BY <2>1, <2>3, <3>1, Zenon
  <2> QED BY <2>4, <2>5
<1> QED BY <1>1, <1>2 DEF Resend

LEMMA RetransmitTypes ==
    ASSUME HandlerTypes, NEW e \in Endpoint, Retransmit(e)
    PROVE  HandlerTypes'
<1> DEFINE n == Head(sq[e])
           R == [m : MsgRecord, cnt : Nat]
<1>1. sq[e] \in QueueType /\ sq[e] # <<>> /\ pr[e] \in PeerRecord
  BY DEF Retransmit, HandlerTypes
<1>2. n \in R /\ Tail(sq[e]) \in QueueType
  <2> HIDE DEF R
  <2>1. sq[e] \in Seq(R)
    BY <1>1 DEF QueueType, R
  <2>2. n \in R /\ Tail(sq[e]) \in Seq(R)
    BY <1>1, <2>1
  <2> QED BY <2>2 DEF QueueType, R
<1> HIDE DEF n
<1>3. n.m \in MsgRecord /\ n.cnt \in Nat /\ [n EXCEPT !.cnt = @ + 1] \in R
  BY <1>2
<1>4. Tail(sq[e]) \o <<[n EXCEPT !.cnt = @ + 1]>> \in QueueType
  <2> DEFINE n1 == [n EXCEPT !.cnt = @ + 1]
  <2> HIDE DEF R, n1
  <2>1. n1 \in R /\ Tail(sq[e]) \in Seq(R)
    BY <1>2, <1>3 DEF n1, R, QueueType
  <2>2. Tail(sq[e]) \o <<n1>> \in Seq(R)
    BY <2>1, ShortSeqs, ConcatProperties
  <2> QED BY <2>2 DEF n1, R, QueueType
<1>5. Resend(pr[e], n.m) \in MsgRecord
  BY <1>1, <1>3, ResendType
<1>6. sq' \in [Endpoint -> QueueType]
  BY <1>2, <1>4 DEF Retransmit, SetQueue, HandlerTypes, n
<1>7. net' \in SUBSET MsgRecord
  BY <1>5 DEF Retransmit, HandlerTypes, n
<1> QED BY <1>6, <1>7 DEF Retransmit, HandlerTypes, hist

LEMMA ArrivalTypes ==
    ASSUME HandlerTypes, Arrival
    PROVE  HandlerTypes'
<1>1. ASSUME NEW e \in Endpoint, NEW m \in net, ReceiveApp(e, m) PROVE HandlerTypes'
  <2>1. pr[e] \in PeerRecord /\ AfterOpen(pr[e], m) \in PeerRecord /\ Take(m) \in SUBSET MsgRecord
    BY SecOps DEF HandlerTypes, Take
  <2>2. CASE Put(e, AfterOpen(pr[e], m)) /\ SetQueue(e, <<>>)
    BY <1>1, <2>1, <2>2, EmptyTypes, UpdateTypes DEF ReceiveApp, HandlerTypes, hist
  <2>3. CASE UNCHANGED <<pr, sq, got>>
    BY <1>1, <2>1, <2>3 DEF ReceiveApp, HandlerTypes, hist
  <2> QED BY <1>1, <2>2, <2>3 DEF ReceiveApp
<1>2. ASSUME NEW e \in Endpoint, NEW m \in net, ReceiveCrash(e, m) PROVE HandlerTypes'
  BY <1>2 DEF ReceiveCrash, HandlerTypes, Take, hist
<1> QED BY <1>1, <1>2, ReceiveTypes, DrainTypes DEF Arrival

\* The specification is well typed, for every number of fragments, every bound
\* and every answer of the application's callbacks.
THEOREM TypeCorrect == Spec => []TypeOK
<1>1. Init => TypeOK
  <2>1. "C" \in Endpoint /\ "S" \in Endpoint
    BY DEF Endpoint
  <2> SUFFICES ASSUME Init PROVE TypeOK
    OBVIOUS
  <2>2. NoPeer \in PeerRecord /\ <<>> \in QueueType
    BY NewTypes, EmptyTypes
  <2>3. pr \in [Endpoint -> PeerRecord] /\ sq \in [Endpoint -> QueueType]
    BY <2>2 DEF Init
  <2>4. used \in UsedType /\ up \in BOOLEAN /\ got \in [Endpoint -> SUBSET Key]
    BY DEF Init, UsedType
  <2>5. /\ net \in SUBSET MsgRecord /\ offered \in SUBSET SessionRecord
        /\ accepted \in SUBSET SessionRecord /\ confirmed \in SUBSET SessionRecord
    BY DEF Init
  <2> QED BY <2>3, <2>4, <2>5 DEF TypeOK, QueueType, UsedType
<1>2. TypeOK /\ [Next]_vars => TypeOK'
  <2> SUFFICES ASSUME TypeOK, [Next]_vars PROVE TypeOK'
    OBVIOUS
  <2>1. HandlerTypes /\ up \in BOOLEAN /\ got \in [Endpoint -> SUBSET Key]
    BY TypeOKSplit
  <2>2. up' \in BOOLEAN /\ got' \in [Endpoint -> SUBSET Key]
    <3>1. ASSUME NEW e \in Endpoint, NEW m \in net, ReceiveApp(e, m)
          PROVE  up' \in BOOLEAN /\ got' \in [Endpoint -> SUBSET Key]
      <4>1. m.key \in Key
        BY <2>1, MsgFields DEF HandlerTypes
      <4> QED BY <2>1, <3>1, <4>1 DEF ReceiveApp
    <3>2. ASSUME NEW e \in Endpoint, NEW m \in net, ReceiveCrash(e, m)
          PROVE  up' \in BOOLEAN /\ got' \in [Endpoint -> SUBSET Key]
      BY <2>1, <3>2 DEF ReceiveCrash
    <3>3. CASE UNCHANGED <<up, got>>
      BY <2>1, <3>3
    <3> QED BY <3>1, <3>2, <3>3, ZenonT(60) DEF Next, Connect, Arrival, Timer, Application, Network, vars,
            Receive, Drain, Retransmit, Lose, ClientRestart, Renegotiate, Write, Close, Reset
  <2>3. HandlerTypes'
    <3>1. CASE Connect \/ Application
      BY <2>1, <3>1, ApplicationTypes
    <3>2. CASE Arrival
      BY <2>1, <3>2, ArrivalTypes
    <3>3. CASE Timer
      BY <2>1, <3>3, RetransmitTypes DEF Timer
    <3>4. CASE Network
      BY <2>1, <3>4 DEF Network, Lose, HandlerTypes, UsedType, hist
    <3>5. CASE UNCHANGED vars
      BY <2>1, <3>5 DEF vars, HandlerTypes
    <3> QED BY <3>1, <3>2, <3>3, <3>4, <3>5 DEF Next
  <2> QED BY <2>2, <2>3 DEF TypeOK, HandlerTypes, QueueType, UsedType
<1> QED BY <1>1, <1>2, PTL DEF Spec
=============================================================================
