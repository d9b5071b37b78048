------------------------------ MODULE Records ------------------------------
(***************************************************************************)
(* The sending half of dtls.c at the level of records: record headers and  *)
(* their sequence numbers, sealing under the parameters of an epoch,       *)
(* cutting handshake messages into fragments, the copies kept for          *)
(* retransmission and what dtls_retransmit() makes of them, for one peer   *)
(* of either role through handshakes, renegotiations and reconnections.    *)
(*                                                                         *)
(* A call of the library is a sequence of steps in todo (send a message,   *)
(* send a record, make keys, switch, ...), each an action of its own; the  *)
(* library is single-threaded, so nothing else happens at this peer until  *)
(* todo is empty.  rx is the reassembly of the other side, which here gets *)
(* every first transmission in order: Handshake has the unreliable network.*)
(***************************************************************************)
EXTENDS Integers, Sequences, Bags

CONSTANTS
    DTLS_MAX_HS_PAYLOAD, \* bytes of a message in one record (1252)
    CkxLengths,          \* lengths of a ClientKeyExchange
    MaxRetransmit,       \* DTLS_DEFAULT_MAX_RETRANSMIT (7)
    MaxKeys,             \* bound: key blocks made
    MaxConnections,      \* bound: peers created
    MaxExtra,            \* bound: application data and HelloVerifyRequests
    MaxResend            \* bound: records sent again

ASSUME PayloadAssumption == DTLS_MAX_HS_PAYLOAD \in Nat \ {0}
ASSUME LengthAssumption == CkxLengths \subseteq Nat
ASSUME RecordBounds ==
    /\ MaxRetransmit \in Nat /\ MaxKeys \in Nat
    /\ MaxConnections \in Nat /\ MaxExtra \in Nat /\ MaxResend \in Nat

VARIABLES
    peer,   \* the peer object
    todo,   \* what is left to do of the call under way
    queue,  \* ctx->sendqueue
    wire,   \* history: every record sent, as a bag
    rx,     \* the other side's handshake input
    used    \* what the bounds count; keys is also the last key made

vars == <<peer, todo, queue, wire, rx, used>>

-----------------------------------------------------------------------------
(* Data *)

NoKey == 0
NoSec == [ep |-> -1, key |-> NoKey, rseq |-> 0]

\* dtls_new_peer(); the first record of a server is the stateless
\* HelloVerifyRequest, which has number 0.
FirstNumber(role) == IF role = "S" THEN 1 ELSE 0

\* The peer: two sets of security parameters, mseq_s, the transcript, and
\* how far the handshake is.
NoPeer == [st |-> "none", role |-> "C", sec0 |-> NoSec, sec1 |-> NoSec,
           hs |-> FALSE, s |-> 0, hashed |-> <<>>]
NewPeer(role) ==
    [NoPeer EXCEPT !.role = role,
                   !.sec0 = [ep |-> 0, key |-> NoKey, rseq |-> FirstNumber(role)]]

\* Steps of a call.  hash is the argument add_hash.
Msg(kind, len, hash) ==
    [op |-> "msg", kind |-> kind, len |-> len, rem |-> len, hash |-> hash]
Step(op, kind) ==
    [op |-> op, kind |-> kind, len |-> 0, rem |-> 0, hash |-> FALSE]

Short == 1      \* length of a message that needs no fragmentation

Idle == todo = <<>>
Begin(p, steps) == peer' = p /\ todo' = steps

-----------------------------------------------------------------------------
(* dtls_prepare_record(), dtls_set_record_header() *)

\* A record made from sec.  Without parameters the header is all zero and the
\* payload is not sealed.  ses is the key the content belongs to.
Made(sec, kind, ses, off) ==
    [con |-> used.con, role |-> peer.role, ep |-> IF sec = NoSec THEN 0 ELSE sec.ep,
     rseq |-> sec.rseq, key |-> sec.key, bare |-> sec = NoSec,
     kind |-> kind, ses |-> ses, off |-> off]

Put(r) == wire' = wire (+) SetToBag({r})

\* Bug: the counter is not incremented for a sealed record.
BugCounted(sec) == IF sec.key = NoKey THEN [sec EXCEPT !.rseq = @ + 1] ELSE sec

Counted(sec) == [sec EXCEPT !.rseq = @ + 1]

\* The node kept for retransmission.  A HelloVerifyRequest is not copied.
Node(sec, r) == [ep |-> sec.ep, kind |-> r.kind, ses |-> r.ses, off |-> r.off,
                 cnt |-> 0]
Copied(kind) == kind \notin {"HVR", "APP", "ALERT"}

\* dtls_send_multi() of one record under the current parameters.
SendMulti(kind, off) ==
    LET r == Made(peer.sec0, kind, used.keys, off)
    IN  /\ Put(r)
        /\ queue' = IF Copied(kind) THEN Append(queue, Node(peer.sec0, r))
                                    ELSE queue

SendRecord ==
    /\ ~Idle /\ Head(todo).op = "rec"
    /\ SendMulti(Head(todo).kind, 0)
    /\ peer' = [peer EXCEPT !.sec0 = Counted(@)]
    /\ todo' = Tail(todo)
    /\ UNCHANGED <<rx, used>>

-----------------------------------------------------------------------------
(* The other side: handle_handshake() on fragments that arrive in order.   *)
(* got holds the header of each message as it goes into the transcript:    *)
(* for a reassembled message the rewritten header of the first fragment.   *)

NoRx == [r |-> 0, off |-> 0, seq |-> 0, ok |-> TRUE, got |-> <<>>]

Header(kind, seq, len) == [kind |-> kind, seq |-> seq, len |-> len]

\* A whole message: expected, or ignored because its number is too small.
Accept(x, kind, seq, len) ==
    IF seq # x.r THEN [x EXCEPT !.off = 0]
    ELSE [x EXCEPT !.off = 0, !.r = @ + 1,
                   !.got = Append(@, Header(kind, seq, len))]

\* One fragment: whole, first, consecutive, or out of order.
Arrive(x, kind, seq, len, off, flen) ==
    IF flen = len THEN Accept(x, kind, seq, len)
    ELSE IF off # 0 /\ x.off # off THEN [x EXCEPT !.ok = FALSE]
    ELSE LET first == IF off = 0 THEN seq ELSE x.seq
         IN  IF off + flen < len
             THEN [x EXCEPT !.off = off + flen, !.seq = first]
             ELSE Accept(x, kind, first, len)

\* The other side starts a transcript with the first hashed hello.
Listening(kind, seq) ==
    IF kind \in {"CH", "SH"} THEN [NoRx EXCEPT !.r = seq] ELSE rx

-----------------------------------------------------------------------------
(* dtls_send_handshake_msg_hash(): one turn of its loop *)

\* Bug: a full record counts as the last one only if nothing follows the next.
BugLastFragment(rem) == rem <= 2 * DTLS_MAX_HS_PAYLOAD

LastFragment(rem) == rem < DTLS_MAX_HS_PAYLOAD

SendFragment ==
    LET c    == Head(todo)
        last == LastFragment(c.rem)
        flen == IF c.rem < DTLS_MAX_HS_PAYLOAD THEN c.rem ELSE DTLS_MAX_HS_PAYLOAD
        left == IF last THEN 0 ELSE c.rem - DTLS_MAX_HS_PAYLOAD
        seq  == IF peer.hs THEN peer.s ELSE 0
    IN  /\ ~Idle /\ c.op = "msg"
        /\ SendMulti(c.kind, c.len - c.rem)
        /\ peer' = [peer EXCEPT
              !.sec0 = Counted(@),
              !.s = IF peer.hs /\ last THEN @ + 1 ELSE @,
              !.hashed = IF c.hash /\ c.rem = c.len
                         THEN Append(@, Header(c.kind, seq, c.len)) ELSE @]
        /\ rx' = IF c.hash
                 THEN Arrive(Listening(c.kind, seq), c.kind, seq, c.len,
                             c.len - c.rem, flen)
                 ELSE rx
        /\ todo' = IF left > 0 THEN <<[c EXCEPT !.rem = left]>> \o Tail(todo)
                               ELSE Tail(todo)
        /\ UNCHANGED used

-----------------------------------------------------------------------------
(* Security parameters *)

\* Bug: new parameters start in epoch 0.
BugNextSec(p, key) == [ep |-> 0, key |-> key, rseq |-> 0]

\* dtls_security_params_next()
NextSec(p, key) == [ep |-> p.sec0.ep + 1, key |-> key, rseq |-> 0]

\* calculate_key_block()
CalculateKeyBlock ==
    /\ ~Idle /\ Head(todo).op = "key" /\ used.keys < MaxKeys
    /\ peer' = [peer EXCEPT !.sec1 = NextSec(peer, used.keys + 1)]
    /\ used' = [used EXCEPT !.keys = @ + 1]
    /\ todo' = Tail(todo)
    /\ UNCHANGED <<queue, wire, rx>>

\* dtls_security_params_switch()
Switch ==
    /\ ~Idle /\ Head(todo).op = "switch"
    /\ peer' = [peer EXCEPT !.sec0 = peer.sec1, !.sec1 = peer.sec0]
    /\ todo' = Tail(todo)
    /\ UNCHANGED <<queue, wire, rx, used>>

\* dtls_security_params_free_other()
FreeOther(p) ==
    IF p.sec1 = NoSec \/ p.sec0.ep < p.sec1.ep THEN p
    ELSE [p EXCEPT !.sec1 = NoSec]

\* A sealed record of the other side opens: application data, or a late one.
RecordOpens ==
    /\ Idle
    /\ peer.sec0.key # NoKey \/ peer.sec1.key # NoKey
    /\ peer' = FreeOther(peer)
    /\ UNCHANGED <<todo, queue, wire, rx, used>>

-----------------------------------------------------------------------------
(* Calls.  Handlers of handshake messages start with                       *)
(* dtls_stop_retransmission().                                             *)

Extra ==
    /\ used.extra < MaxExtra
    /\ used' = [used EXCEPT !.extra = @ + 1]

\* dtls_connect(), or a ClientHello with a valid cookie at a server.
Connect(role) ==
    /\ Idle /\ peer.st = "none" /\ used.con < MaxConnections
    /\ Begin([NewPeer(role) EXCEPT
                 !.st = IF role = "C" THEN "hello" ELSE "flight", !.hs = TRUE,
                 !.s = IF role = "C" THEN 0 ELSE 1],
             IF role = "C" THEN <<Msg("CH1", Short, FALSE)>>
             ELSE <<Msg("SH", Short, TRUE), Msg("SHD", 0, TRUE)>>)
    /\ used' = [used EXCEPT !.con = @ + 1]
    /\ UNCHANGED <<queue, wire, rx>>

\* dtls_verify_peer() answers a server's future peer without a peer object.
StatelessVerify ==
    /\ Idle /\ peer.st = "none" /\ Extra
    /\ Put([Made(NoSec, "HVR", used.keys, 0) EXCEPT !.con = used.con + 1,
                                                    !.role = "S"])
    /\ UNCHANGED <<peer, todo, queue, rx>>

\* The client gets a HelloVerifyRequest: second ClientHello, new transcript.
HelloVerified ==
    /\ Idle /\ peer.st = "hello"
    /\ Begin([peer EXCEPT !.st = "verified", !.hashed = <<>>],
             <<Msg("CH", Short, TRUE)>>)
    /\ queue' = <<>>
    /\ UNCHANGED <<wire, rx, used>>

\* check_server_hellodone()
ServerHelloDone ==
    /\ Idle /\ peer.st = "verified" /\ used.keys < MaxKeys
    /\ \E len \in CkxLengths :
          Begin([peer EXCEPT !.st = "flight"],
                <<Msg("CKX", len, TRUE), Step("key", ""), Step("rec", "CCS"),
                  Step("switch", ""), Msg("FIN", Short, TRUE)>>)
    /\ queue' = <<>>
    /\ UNCHANGED <<wire, rx, used>>

Arrived(kind) == rx.got # <<>> /\ rx.got[Len(rx.got)].kind = kind

\* The server has the ClientKeyExchange and gets the ChangeCipherSpec.
ChangeCipherSpec ==
    /\ Idle /\ peer.role = "S" /\ peer.st = "flight" /\ Arrived("SHD")
    /\ used.keys < MaxKeys
    /\ Begin([peer EXCEPT !.st = "ccs"], <<Step("key", "")>>)
    /\ queue' = <<>>
    /\ UNCHANGED <<wire, rx, used>>

\* The Finished of the other side opens and matches.  The server answers.
Finished ==
    /\ Idle
    /\ \/ /\ peer.role = "S" /\ peer.st = "ccs"
          /\ Begin(FreeOther(peer),
                   <<Step("rec", "CCS"), Step("switch", ""),
                     Msg("FIN", Short, TRUE), Step("connected", "")>>)
       \/ /\ peer.role = "C" /\ peer.st = "flight" /\ Arrived("FIN")
          /\ Begin(FreeOther(peer), <<Step("connected", "")>>)
    /\ queue' = <<>>
    /\ UNCHANGED <<wire, rx, used>>

\* The end of the handler: the handshake parameters are freed, and
\* dtls_handle_message() stops retransmission for a connected peer.
Connected ==
    /\ ~Idle /\ Head(todo).op = "connected"
    /\ peer' = [peer EXCEPT !.st = "connected", !.hs = FALSE, !.s = 0,
                            !.hashed = <<>>]
    /\ queue' = <<>>
    /\ todo' = Tail(todo)
    /\ rx' = NoRx
    /\ UNCHANGED <<wire, used>>

\* dtls_renegotiate(), or at the client a HelloRequest.
Renegotiate ==
    /\ Idle /\ peer.st = "connected"
    /\ Begin([peer EXCEPT !.st = IF peer.role = "C" THEN "hello" ELSE "request",
                          !.hs = TRUE, !.s = 0],
             <<Msg(IF peer.role = "C" THEN "CH1" ELSE "HREQ",
                   IF peer.role = "C" THEN Short ELSE 0, FALSE)>>)
    /\ UNCHANGED <<queue, wire, rx, used>>

\* A connected server gets a ClientHello without a cookie.
OwnVerify ==
    /\ Idle /\ peer.role = "S" /\ peer.st \in {"connected", "request"} /\ Extra
    /\ Begin(peer, <<Msg("HVR", Short, FALSE)>>)
    /\ queue' = <<>>
    /\ UNCHANGED <<wire, rx>>

\* A connected server gets a ClientHello with a valid cookie.
ServerRenegotiates ==
    /\ Idle /\ peer.role = "S" /\ peer.st \in {"connected", "request"}
    /\ Begin([peer EXCEPT !.st = "flight", !.hs = TRUE, !.hashed = <<>>,
                          !.s = IF peer.hs THEN @ ELSE 1],
             <<Msg("SH", Short, TRUE), Msg("SHD", 0, TRUE)>>)
    /\ queue' = <<>>
    /\ UNCHANGED <<wire, rx, used>>

\* dtls_write()
Write ==
    /\ Idle /\ peer.st = "connected" /\ Extra
    /\ Begin(peer, <<Step("rec", "APP")>>)
    /\ UNCHANGED <<queue, wire, rx>>

\* dtls_destroy_peer(): close_notify, then the object is freed.
Destroy ==
    /\ Idle /\ peer.st # "none"
    /\ Begin(peer, <<Step("rec", "ALERT"), Step("free", "")>>)
    /\ queue' = <<>>
    /\ UNCHANGED <<wire, rx, used>>

Free ==
    /\ ~Idle /\ Head(todo).op = "free"
    /\ peer' = NoPeer
    /\ todo' = Tail(todo)
    /\ rx' = NoRx
    /\ UNCHANGED <<queue, wire, used>>

\* Bug: the parameters that are not in use are taken.
BugParamsEpoch(p, ep) == p.sec1

\* dtls_security_params_epoch()
ParamsEpoch(p, ep) ==
    IF p.sec0.ep = ep THEN p.sec0 ELSE IF p.sec1.ep = ep THEN p.sec1 ELSE NoSec

\* dtls_retransmit() of the first node: its number is taken from the
\* parameters its epoch has now.
Retransmit ==
    LET n   == Head(queue)
        sec == ParamsEpoch(peer, n.ep)
    IN  /\ Idle /\ queue # <<>>
        /\ \/ /\ n.cnt < MaxRetransmit /\ used.again < MaxResend
              /\ used' = [used EXCEPT !.again = @ + 1]
              /\ queue' = Append(Tail(queue), [n EXCEPT !.cnt = @ + 1])
              /\ Put(Made(sec, n.kind, n.ses, n.off))
              /\ peer' = IF sec = NoSec THEN peer
                         ELSE IF sec = peer.sec0
                         THEN [peer EXCEPT !.sec0 = Counted(@)]
                         ELSE [peer EXCEPT !.sec1 = Counted(@)]
           \/ /\ n.cnt >= MaxRetransmit
              /\ queue' = Tail(queue)
              /\ UNCHANGED <<wire, peer, used>>
        /\ UNCHANGED <<todo, rx>>

-----------------------------------------------------------------------------
Init ==
    /\ peer = NoPeer /\ todo = <<>> /\ queue = <<>>
    /\ wire = EmptyBag /\ rx = NoRx
    /\ used = [con |-> 0, keys |-> 0, extra |-> 0, again |-> 0]

Continue ==
    SendRecord \/ SendFragment \/ CalculateKeyBlock \/ Switch \/ Connected \/ Free

Handshaking ==
    \/ HelloVerified \/ ServerHelloDone \/ ChangeCipherSpec \/ Finished
    \/ OwnVerify \/ ServerRenegotiates \/ StatelessVerify

Next ==
    \/ Continue \/ Handshaking \/ RecordOpens \/ Retransmit
    \/ \E role \in {"C", "S"} : Connect(role)
    \/ Renegotiate \/ Write \/ Destroy

Spec == Init /\ [][Next]_vars

-----------------------------------------------------------------------------
(* Properties *)

Sent == BagToSet(wire)

\* Records of a connection that were made with parameters have different
\* numbers in every epoch, and none has the number of the stateless
\* HelloVerifyRequest that came before them.
NumbersDiffer ==
    \A r, s \in Sent :
        r.con = s.con /\ r.role = s.role /\ r.ep = s.ep /\ r.rseq = s.rseq =>
            r = s \/ (r.bare /\ r.kind # "HVR") \/ (s.bare /\ s.kind # "HVR")

\* A nonce (dtls_prepare_record: the record's epoch and number under a write
\* key) is never used for two records: not by a retransmission, which seals
\* the same message again, not across renegotiations and reconnections.
NonceOnce ==
    /\ NumbersDiffer
    /\ \A r \in Sent : r.key # NoKey =>
          /\ wire[r] = 1
          /\ \A s \in Sent : s.key = r.key /\ s.rseq = r.rseq => s = r

\* Application data and every Finished leave sealed under the key of their own
\* session, also a Finished that is retransmitted after late records have freed
\* parameters: the node remembers an epoch only, not a key.
FinishedSealed ==
    \A r \in Sent : r.kind \in {"FIN", "APP"} => r.key # NoKey /\ r.key = r.ses

\* No message of this handshake has a length that is a positive multiple of
\* the payload: such a message has no last fragment (dtls.c:1754).
HasLastFragments ==
    \A i \in DOMAIN peer.hashed :
        peer.hashed[i].len % DTLS_MAX_HS_PAYLOAD # 0 \/ peer.hashed[i].len = 0

\* What the sender hashes, message by message before it is cut, is what the
\* receiver hashes from the rewritten header of the first fragment: every
\* message arrives once, whole, with a number of its own.
TranscriptsAgree ==
    Idle /\ peer.hs /\ HasLastFragments => rx.ok /\ rx.got = peer.hashed

\* The epoch of the records that a peer sends for the first time never goes
\* back while the peer lives.
EpochAdvances ==
    [][peer'.st # "none" /\ peer.st # "none" => peer'.sec0.ep >= peer.sec0.ep]_vars
=============================================================================
