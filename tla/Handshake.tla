----------------------------- MODULE Handshake -----------------------------
(***************************************************************************)
(* The DTLS engine of dtls.c, run by a client endpoint "C" and a server    *)
(* endpoint "S" that talk over an unreliable datagram network: handshake   *)
(* (PSK cipher suite), epochs, reassembly of the fragmented                *)
(* ClientKeyExchange, reorder buffer, retransmission, alerts, close,       *)
(* rehandshake of a restarted client and renegotiation.                    *)
(*                                                                         *)
(* One action is one call of the library: dtls_handle_message on one       *)
(* record, dtls_connect, dtls_close, dtls_check_retransmit, ...  A key is  *)
(* the pair of randoms it is derived from (both sides hold the same PSK);  *)
(* a transcript is the sequence of messages hashed so far.                 *)
(***************************************************************************)
EXTENDS Integers, Sequences, FiniteSets

CONSTANTS
    NFrag,          \* fragments of a ClientKeyExchange (18 in the program)
    PskHint,        \* get_psk_info() offers an identity hint
    PskResults,     \* what get_psk_info() may answer: TRUE is a key
    FreedReads,     \* what reading freed storage may return
    MaxRetransmit,  \* DTLS_DEFAULT_MAX_RETRANSMIT (7 in the program)
    Duplicates,     \* the network may deliver a datagram again
    MaxLoss,        \* bound: datagrams the network loses
    MaxClientHello, \* bound: client randoms (connects, renegotiations)
    MaxServerHello, \* bound: server randoms
    MaxHelloRequest,\* bound: renegotiations the server asks for
    MaxTeardown     \* bound: closes, resets and restarts by the application

ASSUME FragAssumption == NFrag \in Nat /\ NFrag >= 2
ASSUME PskAssumption == PskHint \in BOOLEAN /\ PskResults \subseteq BOOLEAN
ASSUME FreedAssumption == FreedReads \subseteq {"intact", "allocator", "reused"}
ASSUME BoundAssumption ==
    /\ MaxRetransmit \in Nat /\ MaxLoss \in Nat /\ Duplicates \in BOOLEAN
    /\ MaxClientHello \in Nat /\ MaxServerHello \in Nat /\ MaxHelloRequest \in Nat
    /\ MaxTeardown \in Nat

VARIABLES
    pr,        \* the peer object of each endpoint's context
    sq,        \* ctx->sendqueue: records to be retransmitted
    net,       \* datagrams under way
    up,        \* the server process is running
    used,      \* what the bounds count: randoms drawn, HelloRequests, ...
    got,       \* history: keys of the application data handed to the user
    offered,   \* history: sessions the client sent its Finished for
    accepted,  \* history: sessions the server completed
    confirmed  \* history: sessions the client completed

vars == <<pr, sq, net, up, used, got, offered, accepted, confirmed>>
hist == <<offered, accepted, confirmed>>

-----------------------------------------------------------------------------
(* Data *)

Endpoint == {"C", "S"}
Other(e) == IF e = "C" THEN "S" ELSE "C"

NoKey == <<0, 0>>
Garbled == 0            \* the content of a ClientKeyExchange no client built

Waiting == {"INIT", "WAIT_CLIENTHELLO", "WAIT_CLIENTKEYEXCHANGE",
            "WAIT_CHANGECIPHERSPEC", "WAIT_FINISHED", "CLIENTHELLO",
            "WAIT_SERVERHELLODONE"}
State == Waiting \cup {"CONNECTED", "CLOSING", "CLOSED"}

HsType == {"HREQ", "CH", "HVR", "SH", "SKX", "SHD", "CKX", "FIN"}
MsgType == HsType \cup {"CCS", "ALERT", "APP"}

NoSec == [ep |-> -1, key |-> NoKey]
Sec(ep, key) == [ep |-> ep, key |-> key]

NoBuf == [n |-> 0, seq |-> 0, a |-> Garbled]

NoHs == [on |-> FALSE, r |-> 0, s |-> 0, cr |-> 0, sr |-> 0,
         hash |-> <<>>, early |-> {}, buf |-> NoBuf]

\* Bug: mseq_r starts one too low.
BugNewHs(r, s) == [NoHs EXCEPT !.on = TRUE, !.r = r - 1, !.s = s]

NewHs(r, s) == [NoHs EXCEPT !.on = TRUE, !.r = r, !.s = s]

NoPeer == [live |-> FALSE, state |-> "INIT", hs |-> NoHs,
           sec0 |-> Sec(0, NoKey), sec1 |-> NoSec]
NewPeer == [NoPeer EXCEPT !.live = TRUE]

\* A record of type typ sent to e under the security parameters sec.
Rec(e, sec, typ, seq, frag, a, b, hash) ==
    [dst |-> e, ep |-> sec.ep, key |-> sec.key, typ |-> typ, seq |-> seq,
     frag |-> frag, a |-> a, b |-> b, hash |-> hash]

\* What update_hs_hash() adds for a handshake message.
Entry(typ, seq, a, b) == [typ |-> typ, seq |-> seq, a |-> a, b |-> b]

Fatal == 0              \* description of an alert: any fatal error, or
CloseNotify == 1        \* close_notify
Alert(e, p, desc) == Rec(Other(e), p.sec0, "ALERT", 0, 0, desc, 0, <<>>)

Node(m) == [m |-> m, cnt |-> 0]
Queue(ms) == [i \in DOMAIN ms |-> Node(ms[i])]
Elems(ms) == {ms[i] : i \in DOMAIN ms}

-----------------------------------------------------------------------------
(* Security parameters: dtls-peer.h and decrypt_verify() *)

SecAt(p, ep) ==
    IF p.sec0.ep = ep THEN p.sec0 ELSE IF p.sec1.ep = ep THEN p.sec1 ELSE NoSec

Opens(p, m) ==
    LET s == SecAt(p, m.ep)
    IN  s # NoSec /\ (s.key = NoKey \/ s.key = m.key)

\* Bug: the epochs are not compared, so the next parameters are freed.
BugFreeOther(p) == [p EXCEPT !.sec1 = NoSec]

FreeOther(p) ==
    IF p.sec1 = NoSec \/ p.sec0.ep < p.sec1.ep THEN p
    ELSE [p EXCEPT !.sec1 = NoSec]

AfterOpen(p, m) == IF SecAt(p, m.ep).key = NoKey THEN p ELSE FreeOther(p)

\* Bug: the epoch of the next parameters is not incremented.
BugNextSec(p, key) == [p EXCEPT !.sec1 = Sec(p.sec0.ep, key)]

NextSec(p, key) == [p EXCEPT !.sec1 = Sec(p.sec0.ep + 1, key)]
Switch(p) == [p EXCEPT !.sec0 = p.sec1, !.sec1 = p.sec0]

Enter(p, st) == [p EXCEPT !.state = st]

\* The transcript, and the counters mseq_r and mseq_s.
Rehashed(p, es) == [p EXCEPT !.hs = [p.hs EXCEPT !.hash = es]]
Hashed(p, es) == Rehashed(p, p.hs.hash \o es)
Advance(p, dr, ds) ==
    [p EXCEPT !.hs = [p.hs EXCEPT !.r = p.hs.r + dr, !.s = p.hs.s + ds]]
Master(p) == <<p.hs.cr, p.hs.sr>>

\* Bug: a rehandshake is accepted for a peer that is not CONNECTED.
BugRehandshakeAttempt(p, m) == p.live /\ m.ep = 0 /\ m.typ \in {"CH", "HREQ"}

RehandshakeAttempt(p, m) ==
    p.state = "CONNECTED" /\ m.ep = 0 /\ m.typ \in {"CH", "HREQ"}

-----------------------------------------------------------------------------
(* Steps shared by the handlers.  p is the peer after decrypt_verify() and *)
(* rest the network without the datagram that is being handled.            *)

Put(e, p) == pr' = [pr EXCEPT ![e] = p]
SetQueue(e, q) == sq' = [sq EXCEPT ![e] = q]
Take(m) == IF Duplicates THEN net ELSE net \ {m}

Ignore(e, p, rest) ==
    /\ Put(e, p) /\ net' = rest
    /\ UNCHANGED <<sq, used, hist>>

\* handle_handshake() returns 0 without calling a handler.  For a CONNECTED
\* peer dtls_handle_message() then empties the send queue.
Skip(e, p, rest) ==
    /\ Put(e, p) /\ net' = rest
    /\ SetQueue(e, IF p.live /\ p.state = "CONNECTED" THEN <<>> ELSE sq[e])
    /\ UNCHANGED <<used, hist>>

\* An error < 0: dtls_alert_send_from_err() on a peer that stays in the list.
Fail(e, p, q, rest) ==
    /\ Put(e, Enter(p, "CLOSING"))
    /\ net' = rest \cup {Alert(e, p, Fatal)}
    /\ SetQueue(e, q)
    /\ UNCHANGED <<used, hist>>

\* Bug: the peer is freed without dtls_stop_retransmission().
BugDiscard(e, rest, out) ==
    /\ Put(e, NoPeer)
    /\ net' = rest \cup out
    /\ UNCHANGED sq

\* The peer object is unlinked and freed after the records out were sent.
Discard(e, rest, out) ==
    /\ Put(e, NoPeer)
    /\ net' = rest \cup out
    /\ SetQueue(e, <<>>)

Destroy(e, rest, out) == Discard(e, rest, out) /\ UNCHANGED <<used, hist>>

-----------------------------------------------------------------------------
(* handle_handshake_msg(): the handler of each message.  Each one starts   *)
(* with dtls_stop_retransmission(), so the old flight leaves the queue.    *)

Unexpected(e, p, rest) == Fail(e, p, <<>>, rest)

HelloVerifyRequest(e, p, m, st, rest) ==
    LET ch == Rec(Other(e), p.sec0, "CH", p.hs.s, 0, p.hs.cr, m.a, <<>>)
    IN  /\ st = "CLIENTHELLO"
        /\ Put(e, Advance(Rehashed(p, <<Entry("CH", p.hs.s, p.hs.cr, m.a)>>), 1, 1))
        /\ net' = rest \cup {ch}
        /\ SetQueue(e, Queue(<<ch>>))
        /\ UNCHANGED <<used, hist>>

ServerHello(e, p, m, st, rest) ==
    /\ st = "CLIENTHELLO"
    /\ Put(e, Advance(Enter(Hashed([p EXCEPT !.hs = [p.hs EXCEPT !.sr = m.a]],
                                   <<Entry("SH", m.seq, m.a, 0)>>),
                            "WAIT_SERVERHELLODONE"), 1, 0))
    /\ net' = rest
    /\ SetQueue(e, <<>>)
    /\ UNCHANGED <<used, hist>>

\* Bug: mseq_r is not incremented.
BugServerKeyExchange(e, p, m, st, rest) ==
    /\ st = "WAIT_SERVERHELLODONE"
    /\ Put(e, Hashed(p, <<Entry("SKX", m.seq, 0, 0)>>))
    /\ net' = rest
    /\ SetQueue(e, <<>>)
    /\ UNCHANGED <<used, hist>>

ServerKeyExchange(e, p, m, st, rest) ==
    /\ st = "WAIT_SERVERHELLODONE"
    /\ Put(e, Advance(Hashed(p, <<Entry("SKX", m.seq, 0, 0)>>), 1, 0))
    /\ net' = rest
    /\ SetQueue(e, <<>>)
    /\ UNCHANGED <<used, hist>>

KeyExchangeFlight(e, p) ==
    [i \in 1..NFrag |-> Rec(Other(e), p.sec0, "CKX", p.hs.s, i, p.hs.cr, 0, <<>>)]

\* check_server_hellodone(): ClientKeyExchange, ChangeCipherSpec under the old
\* parameters, switch, Finished under the new ones.
ServerHelloDone(e, p, m, st, rest) ==
    LET ckx == KeyExchangeFlight(e, p)
        p1  == Hashed(p, <<Entry("SHD", m.seq, 0, 0),
                           Entry("CKX", p.hs.s, p.hs.cr, 0)>>)
        p2  == Switch(NextSec(p1, Master(p)))
        ccs == Rec(Other(e), p.sec0, "CCS", 0, 0, 0, 0, <<>>)
        fin == Rec(Other(e), p2.sec0, "FIN", p.hs.s + 1, 0,
                   p.hs.cr, p.hs.sr, p1.hs.hash)
        p3  == Hashed(p2, <<Entry("FIN", p.hs.s + 1, 0, 0)>>)
        out == ckx \o <<ccs, fin>>
    IN  /\ st = "WAIT_SERVERHELLODONE"
        /\ \/ /\ TRUE \in PskResults
              /\ Put(e, Advance(Enter(p3, "WAIT_CHANGECIPHERSPEC"), 1, 2))
              /\ net' = rest \cup Elems(out)
              /\ SetQueue(e, Queue(out))
              /\ offered' = offered \cup
                               {[key |-> Master(p), hash |-> p3.hs.hash]}
              /\ UNCHANGED <<used, accepted, confirmed>>
           \/ /\ FALSE \in PskResults
              /\ Fail(e, Advance(NextSec(p1, NoKey), 0, 1),
                      Queue(ckx), rest \cup Elems(ckx))

\* dtls_verify_peer() without a valid cookie.
SendHelloVerify(e, p, m, st, rest) ==
    LET own == st = "CONNECTED"
        hvr == Rec(Other(e), IF own THEN p.sec0 ELSE Sec(0, NoKey), "HVR",
                   IF own THEN p.hs.s ELSE 0, 0, m.a, 0, <<>>)
    IN  /\ m.b # m.a
        /\ Put(e, IF ~p.hs.on THEN p
                  ELSE Advance(p, 1, IF own THEN 1 ELSE 0))
        /\ net' = rest \cup {hvr}
        /\ SetQueue(e, IF p.live THEN <<>> ELSE sq[e])
        /\ UNCHANGED <<used, hist>>

\* dtls_send_server_hello_msgs()
ServerHelloFlight(e, sec, s, sr) ==
    LET hello == <<Rec(Other(e), sec, "SH", s, 0, sr, 0, <<>>)>>
        hint  == IF PskHint
                 THEN <<Rec(Other(e), sec, "SKX", s + 1, 0, 0, 0, <<>>)>> ELSE <<>>
        done  == <<Rec(Other(e), sec, "SHD", s + 1 + Len(hint), 0, 0, 0, <<>>)>>
    IN  hello \o hint \o done

\* A ClientHello with a valid cookie.  A rehandshake (st is not the state of
\* the peer) frees the connected peer and starts a new one; the caller then
\* reads the freed object and, when its contents are still there, removes the
\* new flight from the send queue.
AcceptHello(e, p, m, st, rest) ==
    LET again == p.live /\ st = "WAIT_CLIENTHELLO"
        p0    == IF p.live /\ ~again THEN p ELSE NewPeer
        h0    == IF p0.hs.on THEN p0.hs ELSE NewHs(m.seq, 1)
        sr    == used.sh + 1
        out   == ServerHelloFlight(e, p0.sec0, h0.s, sr)
        log   == [i \in DOMAIN out |-> Entry(out[i].typ, out[i].seq, out[i].a, 0)]
        h1    == [h0 EXCEPT !.cr = m.a, !.sr = sr, !.r = @ + 1, !.s = @ + Len(out),
                            !.hash = <<Entry("CH", m.seq, m.a, m.b)>> \o log]
    IN  /\ m.b = m.a
        /\ used.sh < MaxServerHello
        /\ Put(e, [p0 EXCEPT !.state = "WAIT_CLIENTKEYEXCHANGE", !.hs = h1])
        /\ net' = rest \cup Elems(out)
        /\ \E x \in IF again THEN FreedReads ELSE {"reused"} :
               SetQueue(e, IF x = "intact" THEN <<>> ELSE Queue(out))
        /\ used' = [used EXCEPT !.sh = sr]
        /\ UNCHANGED hist

ClientHello(e, p, m, st, rest) ==
    /\ IF p.live THEN st \in {"CONNECTED", "WAIT_CLIENTHELLO"}
                 ELSE st = "WAIT_CLIENTHELLO"
    /\ SendHelloVerify(e, p, m, st, rest) \/ AcceptHello(e, p, m, st, rest)

ClientKeyExchange(e, p, m, st, rest) ==
    /\ st = "WAIT_CLIENTKEYEXCHANGE"
    /\ Put(e, Advance(Enter(Hashed(p, <<Entry("CKX", m.seq, m.a, 0)>>),
                            "WAIT_CHANGECIPHERSPEC"), 1, 0))
    /\ net' = rest
    /\ SetQueue(e, <<>>)
    /\ UNCHANGED <<used, hist>>

\* Bug: the verify data does not cover the transcript.
BugFinishedMatches(p, m) == <<m.a, m.b>> = Master(p)

\* check_finished(): the verify data binds master secret and transcript.
FinishedMatches(p, m) == m.hash = p.hs.hash /\ <<m.a, m.b>> = Master(p)

\* The server answers with ChangeCipherSpec and its own Finished.  The peer
\* is CONNECTED when the handler ends, so dtls_handle_message() empties the
\* send queue again.
Finished(e, p, m, st, rest) ==
    LET p1  == IF e = "S" THEN Hashed(p, <<Entry("FIN", m.seq, 0, 0)>>) ELSE p
        p2  == IF e = "S" THEN Switch(p1) ELSE p1
        ccs == Rec(Other(e), p.sec0, "CCS", 0, 0, 0, 0, <<>>)
        fin == Rec(Other(e), p2.sec0, "FIN", p.hs.s, 0, p.hs.cr, p.hs.sr, p1.hs.hash)
        ses == [key |-> Master(p), hash |-> p1.hs.hash]
    IN  /\ st = "WAIT_FINISHED"
        /\ FinishedMatches(p, m)
        /\ Put(e, [p2 EXCEPT !.state = "CONNECTED", !.hs = NoHs])
        /\ net' = rest \cup (IF e = "S" THEN {ccs, fin} ELSE {})
        /\ SetQueue(e, <<>>)
        /\ accepted' = IF e = "S" THEN accepted \cup {ses} ELSE accepted
        /\ confirmed' = IF e = "C" THEN confirmed \cup {ses} ELSE confirmed
        /\ UNCHANGED <<used, offered>>

\* Bug: the ClientHello is not copied to the retransmit buffer.
BugStartHello(e, p, h, q, rest) ==
    LET cr == used.ch + 1
    IN  /\ used.ch < MaxClientHello
        /\ Put(e, [p EXCEPT !.state = "CLIENTHELLO",
                            !.hs = [h EXCEPT !.cr = cr, !.s = h.s + 1]])
        /\ net' = rest \cup {Rec(Other(e), p.sec0, "CH", h.s, 0, cr, 0, <<>>)}
        /\ SetQueue(e, q)
        /\ used' = [used EXCEPT !.ch = cr]
        /\ UNCHANGED hist

\* dtls_send_client_hello() without a cookie, from state CONNECTED or anew.
StartHello(e, p, h, q, rest) ==
    LET cr == used.ch + 1
        ch == Rec(Other(e), p.sec0, "CH", h.s, 0, cr, 0, <<>>)
    IN  /\ used.ch < MaxClientHello
        /\ Put(e, [p EXCEPT !.state = "CLIENTHELLO",
                            !.hs = [h EXCEPT !.cr = cr, !.s = h.s + 1]])
        /\ net' = rest \cup {ch}
        /\ SetQueue(e, q \o Queue(<<ch>>))
        /\ used' = [used EXCEPT !.ch = cr]
        /\ UNCHANGED hist

\* A HelloRequest is ignored while a handshake is under way.
HelloRequest(e, p, m, st, rest) ==
    LET h == IF p.hs.on THEN p.hs ELSE NewHs(0, 0)
    IN  IF st = "CONNECTED"
        THEN StartHello(e, p, [h EXCEPT !.r = @ + 1], <<>>, rest)
        ELSE /\ Put(e, p) /\ net' = rest
             /\ SetQueue(e, <<>>)
             /\ UNCHANGED <<used, hist>>

\* The states in which a message is not an UNEXPECTED_MESSAGE.
ExpectedIn ==
    [HVR |-> {"CLIENTHELLO"}, SH |-> {"CLIENTHELLO"},
     SKX |-> {"WAIT_SERVERHELLODONE"}, SHD |-> {"WAIT_SERVERHELLODONE"},
     CKX |-> {"WAIT_CLIENTKEYEXCHANGE"}, FIN |-> {"WAIT_FINISHED"},
     CH |-> {"CONNECTED", "WAIT_CLIENTHELLO"}, HREQ |-> State]

HandleMsg(e, p, m, st, rest) ==
    \/ m.typ = "HVR" /\ HelloVerifyRequest(e, p, m, st, rest)
    \/ m.typ = "SH" /\ ServerHello(e, p, m, st, rest)
    \/ m.typ = "SKX" /\ ServerKeyExchange(e, p, m, st, rest)
    \/ m.typ = "SHD" /\ ServerHelloDone(e, p, m, st, rest)
    \/ m.typ = "CH" /\ ClientHello(e, p, m, st, rest)
    \/ m.typ = "CKX" /\ ClientKeyExchange(e, p, m, st, rest)
    \/ m.typ = "FIN" /\ Finished(e, p, m, st, rest)
    \/ m.typ = "HREQ" /\ HelloRequest(e, p, m, st, rest)
    \/ st \notin ExpectedIn[m.typ] /\ Unexpected(e, p, rest)
    \/ /\ m.typ = "FIN" /\ st = "WAIT_FINISHED"
       /\ ~FinishedMatches(p, m)
       /\ Fail(e, p, <<>>, rest)

-----------------------------------------------------------------------------
(* handle_handshake(): sequence numbers, reorder buffer, reassembly *)

WithBuf(p, b) == [p EXCEPT !.hs = [p.hs EXCEPT !.buf = b]]
WithEarly(p, ms) == [p EXCEPT !.hs = [p.hs EXCEPT !.early = ms]]

InSequence(e, p, m, st, rest) ==
    \/ ~p.live /\ m.typ = "CH" /\ HandleMsg(e, p, m, st, rest)
    \/ ~p.live /\ m.typ # "CH" /\ Ignore(e, p, rest)
    \/ p.live /\ ~p.hs.on /\ m.typ \in {"CH", "HREQ"} /\ HandleMsg(e, p, m, st, rest)
    \/ p.live /\ ~p.hs.on /\ m.typ \notin {"CH", "HREQ"} /\ Skip(e, p, rest)
    \/ p.hs.on /\ m.seq < p.hs.r /\ Skip(e, p, rest)
    \/ /\ p.hs.on /\ m.seq > p.hs.r
       /\ Skip(e, IF \E x \in p.hs.early : x.seq = m.seq THEN p
                  ELSE WithEarly(p, p.hs.early \cup {m}), rest)
    \/ /\ p.hs.on /\ m.seq = p.hs.r
       /\ HandleMsg(e, WithBuf(p, NoBuf), m, st, rest)

\* The buffer after a fragment; content of two different messages is garbled.
Reassembled(b, m) ==
    IF m.frag = 1 THEN [n |-> 1, seq |-> m.seq, a |-> m.a]
    ELSE [b EXCEPT !.n = m.frag, !.a = IF @ = m.a THEN @ ELSE Garbled]

\* The whole message: it lies in the reassembly buffer, which is freed before
\* the handler of an expected message reads it.
WholeMessage(e, p, b, m, st, rest) ==
    LET p1 == WithBuf(p, b)
        w  == [m EXCEPT !.frag = 0, !.seq = b.seq, !.a = b.a]
    IN  \/ b.seq # p.hs.r /\ InSequence(e, p1, w, st, rest)
        \/ /\ b.seq = p.hs.r
           /\ \/ "intact" \in FreedReads /\ InSequence(e, p1, w, st, rest)
              \/ /\ "reused" \in FreedReads
                 /\ InSequence(e, p1, [w EXCEPT !.a = Garbled], st, rest)
              \/ /\ "allocator" \in FreedReads
                 /\ Unexpected(e, WithBuf(p, NoBuf), rest)

Fragment(e, p, m, st, rest) ==
    LET b == Reassembled(p.hs.buf, m)
    IN  /\ p.hs.on
        /\ \/ /\ m.frag # 1 /\ p.hs.buf.n # m.frag - 1
              /\ Fail(e, p, sq[e], rest)
           \/ /\ m.frag = 1 \/ p.hs.buf.n = m.frag - 1
              /\ IF b.n < NFrag THEN Ignore(e, WithBuf(p, b), rest)
                 ELSE WholeMessage(e, p, b, m, st, rest)

HandleHandshake(e, p, m, st, rest) ==
    IF m.frag = 0 THEN InSequence(e, p, m, st, rest)
                  ELSE Fragment(e, p, m, st, rest)

\* A fragment without handshake parameters dereferences a null pointer.
FragmentCrashes(p, m) == m.typ \in HsType /\ m.frag # 0 /\ ~p.hs.on

-----------------------------------------------------------------------------
(* dtls_handle_message() on one record *)

ExpectedEpoch(e, p) ==
    p.sec0.ep + (IF e = "S" /\ p.state = "WAIT_FINISHED" THEN 1 ELSE 0)

\* The state handle_handshake() is called with.
CallState(e, p, m) ==
    IF ~p.live THEN "WAIT_CLIENTHELLO"
    ELSE IF Opens(p, m) /\ m.ep = ExpectedEpoch(e, p) THEN p.state
    ELSE "WAIT_CLIENTHELLO"

\* The record is dropped before handle_handshake(): wrong epoch.
WrongEpoch(e, p, m) ==
    p.live /\ m.ep # ExpectedEpoch(e, p) /\ ~RehandshakeAttempt(p, m)

ChangeCipherSpec(e, p, rest) ==
    \/ /\ p.state = "WAIT_CHANGECIPHERSPEC" /\ (e = "C" \/ TRUE \in PskResults)
       /\ Put(e, Enter(IF e = "S" THEN NextSec(p, Master(p)) ELSE p, "WAIT_FINISHED"))
       /\ net' = rest /\ SetQueue(e, <<>>)
       /\ UNCHANGED <<used, hist>>
    \/ /\ p.state = "WAIT_CHANGECIPHERSPEC" /\ e = "S" /\ FALSE \in PskResults
       /\ Destroy(e, rest, {Alert(e, p, Fatal)})
    \/ /\ p.state # "WAIT_CHANGECIPHERSPEC"
       /\ Put(e, p) /\ net' = rest
       /\ SetQueue(e, IF p.live THEN <<>> ELSE sq[e])
       /\ UNCHANGED <<used, hist>>

\* handle_alert(): every alert modelled is fatal or a close_notify.
HandleAlert(e, p, m, rest) ==
    \/ ~p.live /\ Ignore(e, p, rest)
    \/ /\ p.live
       /\ Destroy(e, rest, IF m.a = CloseNotify /\ p.state # "CLOSING"
                           THEN {Alert(e, p, CloseNotify)} ELSE {})

\* decrypt_verify() fails and the record is no rehandshake attempt.
DecryptError(e, p, rest) ==
    IF p.state \in Waiting THEN Destroy(e, rest, {Alert(e, p, Fatal)})
                           ELSE Ignore(e, p, rest)

\* handle_handshake() has a buffered message it has to process before it
\* returns: nothing else happens in this endpoint until it has.
Draining(e) == pr[e].hs.on /\ \E m \in pr[e].hs.early : m.seq = pr[e].hs.r

Running(e) == (e = "S" => up) /\ ~Draining(e)

Receive(e, m) ==
    LET p    == IF pr[e].live /\ Opens(pr[e], m) THEN AfterOpen(pr[e], m) ELSE pr[e]
        rest == Take(m)
        open == ~p.live \/ Opens(pr[e], m)
    IN  /\ Running(e) /\ m \in net /\ m.dst = e
        /\ \/ ~open /\ ~RehandshakeAttempt(p, m) /\ DecryptError(e, p, rest)
           \/ open /\ m.typ = "CCS" /\ ChangeCipherSpec(e, p, rest)
           \/ open /\ m.typ = "ALERT" /\ HandleAlert(e, p, m, rest)
           \/ /\ open /\ m.typ \in HsType /\ WrongEpoch(e, p, m)
              /\ Ignore(e, p, rest)
           \/ /\ open \/ RehandshakeAttempt(p, m)
              /\ m.typ \in HsType /\ ~WrongEpoch(e, p, m) /\ ~FragmentCrashes(p, m)
              /\ HandleHandshake(e, p, m, CallState(e, pr[e], m), rest)
        /\ UNCHANGED <<up, got>>

\* Application data is handed to the user in every state of the peer.
ReceiveApp(e, m) ==
    LET p == AfterOpen(pr[e], m)
    IN  /\ Running(e) /\ m \in net /\ m.dst = e /\ m.typ = "APP"
        /\ \/ /\ pr[e].live /\ Opens(pr[e], m)
              /\ Put(e, p) /\ SetQueue(e, <<>>)
              /\ got' = [got EXCEPT ![e] = @ \cup {m.key}]
           \/ /\ ~pr[e].live
              /\ UNCHANGED <<pr, sq, got>>
        /\ net' = Take(m)
        /\ UNCHANGED <<up, used, hist>>

ReceiveCrash(e, m) ==
    /\ Running(e) /\ m \in net /\ m.dst = e
    /\ FragmentCrashes(pr[e], m) /\ ~WrongEpoch(e, pr[e], m)
    /\ pr[e].live => Opens(pr[e], m)
    /\ up' = FALSE
    /\ net' = Take(m)
    /\ UNCHANGED <<pr, sq, used, got, hist>>

\* Bug: the node stays in the reorder buffer.
BugDrain(e) ==
    /\ Draining(e)
    /\ \E m \in pr[e].hs.early :
          m.seq = pr[e].hs.r /\ HandleMsg(e, pr[e], m, pr[e].state, net)
    /\ UNCHANGED <<up, got>>

\* The loop at the end of handle_handshake() over the reorder buffer.
Drain(e) ==
    /\ Draining(e)
    /\ \E m \in pr[e].hs.early :
          /\ m.seq = pr[e].hs.r
          /\ HandleMsg(e, WithEarly(pr[e], pr[e].hs.early \ {m}), m, pr[e].state, net)
    /\ UNCHANGED <<up, got>>

-----------------------------------------------------------------------------
(* Calls of the application and the timer *)

\* dtls_connect() to a server the client has no peer for.
Connect ==
    /\ ~pr["C"].live
    /\ StartHello("C", NewPeer, NewHs(0, 0), sq["C"], net)
    /\ UNCHANGED <<up, got>>

\* dtls_renegotiate(): a client starts over, a server sends a HelloRequest.
Renegotiate(e) ==
    LET hreq == Rec(Other(e), pr[e].sec0, "HREQ", 0, 0, 0, 0, <<>>)
    IN  /\ Running(e) /\ pr[e].live /\ pr[e].state = "CONNECTED"
        /\ \/ e = "C" /\ StartHello(e, pr[e], NewHs(0, 0), sq[e], net)
           \/ /\ e = "S" /\ used.hreq < MaxHelloRequest
              /\ Put(e, [pr[e] EXCEPT !.hs = NewHs(0, 1)])
              /\ net' = net \cup {hreq}
              /\ SetQueue(e, sq[e] \o Queue(<<hreq>>))
              /\ used' = [used EXCEPT !.hreq = @ + 1]
              /\ UNCHANGED hist
        /\ UNCHANGED <<up, got>>

\* Bug: data is sent in every state of the peer.
BugWrite(e) ==
    /\ Running(e) /\ pr[e].live
    /\ net' = net \cup {Rec(Other(e), pr[e].sec0, "APP", 0, 0, 0, 0, <<>>)}
    /\ UNCHANGED <<pr, sq, up, used, got, hist>>

\* dtls_write() on an established connection.
Write(e) ==
    /\ Running(e) /\ pr[e].live /\ pr[e].state = "CONNECTED"
    /\ net' = net \cup {Rec(Other(e), pr[e].sec0, "APP", 0, 0, 0, 0, <<>>)}
    /\ UNCHANGED <<pr, sq, up, used, got, hist>>

TearDown ==
    /\ used.down < MaxTeardown
    /\ used' = [used EXCEPT !.down = @ + 1]

\* dtls_close()
Close(e) ==
    /\ Running(e) /\ pr[e].live /\ TearDown
    /\ net' = net \cup {Alert(e, pr[e], CloseNotify)}
    /\ Put(e, Enter(pr[e], "CLOSING"))
    /\ UNCHANGED <<sq, up, got, hist>>

\* dtls_reset_peer()
Reset(e) ==
    /\ Running(e) /\ pr[e].live /\ TearDown
    /\ Discard(e, net, IF pr[e].state \in {"CLOSED", "CLOSING"} THEN {}
                       ELSE {Alert(e, pr[e], CloseNotify)})
    /\ UNCHANGED <<up, got, hist>>

\* The client process dies and starts again on the same address.
ClientRestart ==
    /\ pr["C"].live /\ TearDown
    /\ Discard("C", net, {})
    /\ UNCHANGED <<up, got, hist>>

\* dtls_retransmit() of the node at the head of the send queue.  Without
\* security parameters for its epoch the record goes out as epoch 0.
Resend(p, m) ==
    LET s == SecAt(p, m.ep)
    IN  IF s = NoSec THEN [m EXCEPT !.ep = 0, !.key = NoKey]
        ELSE [m EXCEPT !.key = s.key]

Retransmit(e) ==
    LET n == Head(sq[e])
    IN  /\ Running(e) /\ sq[e] # <<>>
        /\ \/ /\ n.cnt < MaxRetransmit
              /\ SetQueue(e, Tail(sq[e]) \o <<[n EXCEPT !.cnt = @ + 1]>>)
              /\ net' = net \cup {Resend(pr[e], n.m)}
           \/ /\ n.cnt >= MaxRetransmit
              /\ SetQueue(e, Tail(sq[e]))
              /\ net' = net
        /\ UNCHANGED <<pr, up, used, got, hist>>

Lose(m) ==
    /\ m \in net /\ used.lost < MaxLoss
    /\ net' = net \ {m}
    /\ used' = [used EXCEPT !.lost = @ + 1]
    /\ UNCHANGED <<pr, sq, up, got, hist>>

-----------------------------------------------------------------------------
Init ==
    /\ pr = [e \in Endpoint |-> NoPeer]
    /\ sq = [e \in Endpoint |-> <<>>]
    /\ net = {}
    /\ up = TRUE
    /\ used = [ch |-> 0, sh |-> 0, hreq |-> 0, lost |-> 0, down |-> 0]
    /\ got = [e \in Endpoint |-> {}]
    /\ offered = {} /\ accepted = {} /\ confirmed = {}

\* The engine, driven by datagrams and by its timer.
Arrival ==
    \E e \in Endpoint :
        \/ Drain(e)
        \/ \E m \in net : Receive(e, m) \/ ReceiveApp(e, m) \/ ReceiveCrash(e, m)

Timer == \E e \in Endpoint : Retransmit(e)

\* What an application does to the engine once it has connected.
Application ==
    \/ ClientRestart
    \/ \E e \in Endpoint : Renegotiate(e) \/ Write(e) \/ Close(e) \/ Reset(e)

Network == \E m \in net : Lose(m)

Next == Connect \/ Arrival \/ Timer \/ Application \/ Network

Spec == Init /\ [][Next]_vars

-----------------------------------------------------------------------------
(* Properties *)

Key == Nat \X Nat
EntryType == [typ : HsType, seq : Nat, a : Nat, b : Nat]
SecType == [ep : Int, key : Key]
MsgRecord == [dst : Endpoint, ep : Int, key : Key, typ : MsgType, seq : Nat,
              frag : 0..NFrag, a : Nat, b : Nat, hash : Seq(EntryType)]
HsRecord == [on : BOOLEAN, r : Nat, s : Nat, cr : Nat, sr : Nat,
             hash : Seq(EntryType), early : SUBSET MsgRecord,
             buf : [n : 0..NFrag, seq : Nat, a : Nat]]
PeerRecord == [live : BOOLEAN, state : State, hs : HsRecord,
               sec0 : SecType, sec1 : SecType]
SessionRecord == [key : Key, hash : Seq(EntryType)]

\* The shape of every variable.
TypeOK ==
    /\ pr \in [Endpoint -> PeerRecord]
    /\ sq \in [Endpoint -> Seq([m : MsgRecord, cnt : Nat])]
    /\ net \subseteq MsgRecord
    /\ up \in BOOLEAN
    /\ used \in [ch : Nat, sh : Nat, hreq : Nat, lost : Nat, down : Nat]
    /\ got \in [Endpoint -> SUBSET Key]
    /\ offered \subseteq SessionRecord
    /\ accepted \subseteq SessionRecord
    /\ confirmed \subseteq SessionRecord

Keys(S) == {s.key : s \in S}

\* Agreement: the handshake implements SessionAgreement.  The Finished checks
\* of dtls.c let the server complete only a session (key and transcript) the
\* client sent its Finished for, the client only one the server completed, and
\* no key is completed twice, whatever is lost, duplicated, reordered, garbled
\* in a freed buffer, renegotiated or restarted.
Abstract ==
    INSTANCE SessionAgreement WITH
        offered <- offered, accepted <- accepted, confirmed <- confirmed
ImplementsAgreement == Abstract!Spec

\* A peer in state CONNECTED sends under a key of a session its own endpoint
\* completed: dtls_security_params_switch() ran for the session whose Finished
\* was checked, also when a late record made dtls_security_params_free_other()
\* run in between.
KeyedWhenConnected ==
    /\ pr["S"].state = "CONNECTED" => pr["S"].sec0.key \in Keys(accepted)
    /\ pr["C"].state = "CONNECTED" => pr["C"].sec0.key \in Keys(confirmed)

\* security_params[0] of a peer is never a null pointer, and the server that
\* waits for the client's Finished still holds the parameters of the next epoch.
AlwaysSecured ==
    \A e \in Endpoint :
        /\ pr[e].sec0.ep >= 0
        /\ e = "S" /\ pr[e].state = "WAIT_FINISHED" =>
              pr[e].sec1.ep = pr[e].sec0.ep + 1

\* dtls_handle_message() hands application data to the user in every state of
\* the peer; still, the data was always written under a session that the
\* sender had completed.
DataFromEstablished ==
    /\ got["S"] \subseteq Keys(confirmed)
    /\ got["C"] \subseteq Keys(accepted)

\* A node of the send queue never outlives the peer object it points to: every
\* path that frees a peer has emptied the queue (dtls_stop_retransmission).
NoDanglingTimer == \A e \in Endpoint : sq[e] # <<>> => pr[e].live

\* The reorder buffer holds only messages that are still to come, at most one
\* for each message_seq.
ReorderBufferAhead ==
    \A e \in Endpoint : \A x, y \in pr[e].hs.early :
        x.seq >= pr[e].hs.r /\ (x.seq = y.seq => x = y)

\* Each endpoint hashes each message of a side at most once and in the order
\* of message_seq, under duplication, reordering and reassembly.
FromClient(x) == x.typ \in {"CH", "CKX", "FIN"}

TranscriptInOrder ==
    \A e \in Endpoint : LET h == pr[e].hs.hash IN
        \A i, j \in DOMAIN h :
            i < j /\ FromClient(h[i]) = FromClient(h[j]) => h[i].seq < h[j].seq

\* A peer that is CLOSING (an error, or dtls_close) never comes back to life:
\* it stays CLOSING until its object is freed.
ClosingIsFinal ==
    [][\A e \in Endpoint : pr[e].state = "CLOSING" =>
          pr'[e].state = "CLOSING" \/ pr'[e] = NoPeer]_vars

-----------------------------------------------------------------------------
(* Progress.  The applications connect and do nothing else.  The timeout    *)
(* (2 s, doubled every time) is longer than the network delay: a timer      *)
(* fires when nothing is under way.  Datagrams that are not lost arrive,    *)
(* and the event loop calls dtls_check_retransmit() when a timer is due     *)
(* (contiki-support/dtls-support.c).                                        *)

PatientTimer == net = {} /\ Timer

Progress == WF_vars(Arrival) /\ WF_vars(PatientTimer)

QuietSpec ==
    /\ Init
    /\ [][Connect \/ Arrival \/ PatientTimer \/ Network]_vars
    /\ Progress

AwaitsFlight == pr["C"].live /\ pr["C"].state \in {"CLIENTHELLO", "WAIT_SERVERHELLODONE"}
AwaitsFinished == pr["C"].live /\ pr["C"].state \in {"WAIT_CHANGECIPHERSPEC", "WAIT_FINISHED"}

\* While no more datagrams are lost than a message is retransmitted, the
\* client gets past the hello exchange: either side's timer repairs it.
FirstFlightsRecover == AwaitsFlight ~> ~AwaitsFlight

\* "We have to make sure that no handshake message should get expected when we
\* still should retransmit something" (handle_handshake_msg): once the server
\* has sent its ChangeCipherSpec and Finished, the client gets them.
FinalFlightRecovers ==
    (AwaitsFinished /\ pr["S"].state = "CONNECTED") ~> ~AwaitsFinished

\* "Fragmentation is not allowed here as it would require peer state as well"
\* (the ClientHello case of handle_handshake_msg): a fragment that arrives
\* without peer state is refused, and the server keeps running.
ServerSurvives == up
=============================================================================
