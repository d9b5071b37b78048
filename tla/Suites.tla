------------------------------- MODULE Suites -------------------------------
(***************************************************************************)
(* Negotiation and the two cipher suites of dtls.c: which suite a          *)
(* handshake uses, given the callbacks each application has registered,    *)
(* and what each side has checked when it goes on: PSK identities,         *)
(* certificates, signed key exchange, certificate verify.                  *)
(*                                                                         *)
(* A behaviour is either of a pair, client and server of this library over *)
(* an orderly network (Handshake has the unreliable one), or of a single   *)
(* endpoint whose peer sends what it likes: the calls that would send the  *)
(* server's certificate and key exchange are commented out, so only such a *)
(* peer reaches the client's handlers for them.                            *)
(*                                                                         *)
(* A signature is the pair of the key and of what it covers, a cookie the  *)
(* part of the ClientHello its HMAC covers.  A received field that is      *)
(* checked on its own, like a length or a type, is good or bad.            *)
(***************************************************************************)
EXTENDS Integers, Sequences, FiniteSets

CONSTANTS
    Hints,          \* what get_psk_info() may answer for DTLS_PSK_HINT
    Identities,     \* and for the client's identity and its key
    SuiteLists,     \* cipher suite lists of a foreign ClientHello
    MaxHello        \* bound: randoms each side draws

ASSUME SuitesAssumption ==
    /\ Hints \subseteq {"none", "some", "error"}
    /\ Identities \subseteq {"known", "unknown", "error", "keyless"}
    /\ SuiteLists \subseteq Seq(STRING)
    /\ MaxHello \in Nat

VARIABLES
    conf,   \* callbacks and answers of the applications; never changes
    pr,     \* the peer object of each endpoint
    chan,   \* messages under way to each endpoint
    drawn   \* randoms drawn by each endpoint

svars == <<conf, pr, chan, drawn>>

Endpoint == {"C", "S"}
Other(e) == IF e = "C" THEN "S" ELSE "C"

Suite == {"ECDHE", "PSK"}
Callback == {"get_psk_info", "get_ecdsa_key", "verify_ecdsa_key"}
Ext == {"curves", "client_cert", "server_cert", "formats"}
Form == {"good", "bad"}
Key == {"trusted", "stranger"}  \* verify_ecdsa_key() accepts the first

Pair == conf.mode = "pair"
Cb(e) == conf.cb[e]

NoSig == [key |-> "none", over |-> <<>>]
NoSession == [cipher |-> "NULL", master |-> <<>>]

\* tmp is a union: the randoms until calculate_key_block() writes the master
\* secret over them.
NoPeer == [live |-> FALSE, state |-> "INIT", hs |-> FALSE, cipher |-> "NULL",
           tmp |-> <<0, 0>>, id |-> "none", own |-> 0, pub |-> "none", eph |-> 0,
           auth |-> FALSE, sec |-> NoSession,
           sig |-> NoSig, cv |-> NoSig, hello |-> <<>>]  \* history: what was checked

\* dtls_handshake_new()
NewHandshake(p) ==
    [NoPeer EXCEPT !.live = TRUE, !.state = p.state, !.sec = p.sec, !.hs = TRUE]

-----------------------------------------------------------------------------
(* Which suites an application supports *)

is_psk_supported(h) == "get_psk_info" \in h

\* Bug: a server too is asked for the callback of a client.
Bugis_ecdsa_supported(h, is_client) == "verify_ecdsa_key" \in h

is_ecdsa_supported(h, is_client) ==
    IF is_client THEN "verify_ecdsa_key" \in h ELSE "get_ecdsa_key" \in h

is_ecdsa_client_auth_supported(h) == {"get_ecdsa_key", "verify_ecdsa_key"} \subseteq h

known_cipher(h, code, is_client) ==
    \/ is_psk_supported(h) /\ code = "PSK"
    \/ is_ecdsa_supported(h, is_client) /\ code = "ECDHE"

-----------------------------------------------------------------------------
(* ClientHello *)

AllExt(v) == [x \in Ext |-> v]

\* The suites of dtls_send_client_hello().
Offer(h) ==
    (IF is_ecdsa_supported(h, TRUE) THEN <<"ECDHE">> ELSE <<>>) \o
    (IF is_psk_supported(h) THEN <<"PSK">> ELSE <<>>)

OwnHello(h, cr) ==
    [cr |-> cr, list |-> TRUE, suites |-> Offer(h), comp |-> "null",
     ext |-> AllExt(IF is_ecdsa_supported(h, TRUE) THEN "good" ELSE "absent")]

NoCookie == <<>>

\* dtls_create_cookie(): an HMAC over the hello without its cookie.
dtls_create_cookie(hello) == <<hello>>

\* The first suite of the client's list that the server knows.
Chosen(p, h, hello) ==
    LET known == {i \in DOMAIN hello.suites : known_cipher(h, hello.suites[i], FALSE)}
    IN  IF ~hello.list THEN p.sec.cipher
        ELSE IF known = {} THEN "NULL"
        ELSE hello.suites[CHOOSE i \in known : \A j \in known : i <= j]

\* dtls_check_tls_extension() for a ClientHello.  (The call for a ServerHello
\* is commented out.)
dtls_check_tls_extension(cipher, ext) ==
    /\ \A x \in Ext : ext[x] # "bad"
    /\ cipher = "ECDHE" => \A x \in Ext : ext[x] = "good"

\* dtls_update_parameters() returns 0.
ParametersOk(p, h, hello) ==
    LET cipher == Chosen(p, h, hello)
    IN  /\ cipher # "NULL"
        /\ hello.list =>
               \/ hello.comp = "absent"
               \/ hello.comp = "null" /\ dtls_check_tls_extension(cipher, hello.ext)

-----------------------------------------------------------------------------
(* Messages *)

Msg(typ, body) == [typ |-> typ, body |-> body]
ClientHello(hello, cookie) == Msg("CH", [hello |-> hello, cookie |-> cookie])
HelloVerify(cookie, form) == Msg("HVR", [cookie |-> cookie, form |-> form])
ServerHello(sr, cipher, form) == Msg("SH", [sr |-> sr, cipher |-> cipher, form |-> form])
Certificate(key, form) == Msg("CERT", [key |-> key, form |-> form])
KeyExchangeEcdh(eph, sig, form) == Msg("SKX", [eph |-> eph, sig |-> sig, form |-> form])
KeyExchangeHint(form) == Msg("SKX", [eph |-> 0, sig |-> NoSig, form |-> form])
CertificateRequest(form) == Msg("CREQ", [form |-> form])
Done == Msg("SHD", [form |-> "good"])
ClientKeyExchange(id, eph, form) == Msg("CKX", [id |-> id, eph |-> eph, form |-> form])
CertificateVerify(sig, form) == Msg("CV", [sig |-> sig, form |-> form])
Ccs == Msg("CCS", [form |-> "good"])
FinishedMsg(master, form) == Msg("FIN", [master |-> master, form |-> form])
AlertMsg(level) == Msg("ALERT", [level |-> level])

-----------------------------------------------------------------------------
(* Steps *)

\* The peer becomes p and the messages out are sent; in a pair, the message
\* that is handled leaves the channel.
Become(e, p, out) ==
    /\ pr' = [pr EXCEPT ![e] = p]
    /\ chan' = IF Pair THEN [chan EXCEPT ![e] = Tail(@), ![Other(e)] = @ \o out]
               ELSE chan
    /\ UNCHANGED conf

Proceed(e, p, out) == Become(e, p, out) /\ UNCHANGED drawn

\* A negative result: dtls_alert_send_from_err() closes, whatever the level.
Closing(p) == [p EXCEPT !.state = "CLOSING"]
Fail(e, p, out) == Proceed(e, Closing(p), out \o <<AlertMsg("fatal")>>)

\* The peer is told, and destroyed.
Discard(e) == Proceed(e, NoPeer, <<AlertMsg("fatal")>>)

\* The premaster secret: the PSK of an identity, or the two ephemeral keys.
Secret(p) == IF p.cipher = "PSK" THEN {p.id} ELSE {p.own, p.eph}

\* get_psk_info(DTLS_PSK_KEY) finds a key.
HasKey(e) ==
    IF e = "C" THEN conf.identity # "keyless" ELSE conf.identity = "known"

\* Bug: an identity without a key gets the keys of an empty secret.
BugKeyBlockOk(e, p) == TRUE

KeyBlockOk(e, p) == p.cipher = "PSK" => HasKey(e)

\* calculate_key_block(): the master secret takes the place of the randoms.
Keyed(p) == [p EXCEPT !.tmp = <<Secret(p), p.tmp>>]

\* dtls_security_params_switch()
Switched(p) == [p EXCEPT !.sec = [cipher |-> p.cipher, master |-> p.tmp]]

-----------------------------------------------------------------------------
(* Client *)

\* dtls_connect() and dtls_renegotiate(): a ClientHello without cookie.
StartHello ==
    LET p  == NewHandshake(pr["C"])
        cr == drawn["C"] + 1
    IN  /\ conf.mode # "server" /\ drawn["C"] < MaxHello
        /\ pr["C"].state \in {"INIT", "CONNECTED"}
        /\ pr' = [pr EXCEPT !["C"] = [p EXCEPT !.state = "CLIENTHELLO", !.tmp = <<cr, 0>>]]
        /\ chan' = IF Pair
                   THEN [chan EXCEPT !["S"] =
                            Append(@, ClientHello(OwnHello(Cb("C"), cr), NoCookie))]
                   ELSE chan
        /\ drawn' = [drawn EXCEPT !["C"] = cr]
        /\ UNCHANGED conf

\* check_server_hello_verify_request(); a cookie that is too long is refused.
HandleHelloVerify(p, b) ==
    /\ p.state = "CLIENTHELLO"
    /\ \/ /\ b.form = "good"
          /\ Proceed("C", p, <<ClientHello(OwnHello(Cb("C"), p.tmp[1]), b.cookie)>>)
       \/ b.form = "bad" /\ Fail("C", p, <<>>)

\* check_server_hello(): version, suite, compression.
HandleServerHello(p, b) ==
    LET p1 == [p EXCEPT !.tmp = <<p.tmp[1], b.sr>>, !.cipher = b.cipher,
                        !.state = IF b.cipher = "ECDHE" THEN "WAIT_SERVERCERTIFICATE"
                                  ELSE "WAIT_SERVERHELLODONE"]
    IN  /\ p.state = "CLIENTHELLO"
        /\ \/ /\ b.form = "good" /\ known_cipher(Cb("C"), b.cipher, TRUE)
              /\ Proceed("C", p1, <<>>)
           \/ /\ b.form = "bad" \/ ~known_cipher(Cb("C"), b.cipher, TRUE)
              /\ Fail("C", p, <<>>)

\* check_server_certificate(), which the server uses for the client's too.
HandleCertificate(e, p, b) ==
    LET p1 == [p EXCEPT !.pub = b.key]
    IN  /\ p.state = IF e = "C" THEN "WAIT_SERVERCERTIFICATE" ELSE "WAIT_CLIENTCERTIFICATE"
        /\ \/ /\ b.form = "good" /\ b.key = "trusted"
              /\ Proceed(e, [p1 EXCEPT !.state = IF e = "C" THEN "WAIT_SERVERKEYEXCHANGE"
                                                 ELSE "WAIT_CLIENTKEYEXCHANGE"], <<>>)
           \/ b.form = "good" /\ b.key # "trusted" /\ Fail(e, p1, <<>>)
           \/ b.form = "bad" /\ Fail(e, p, <<>>)

\* The state a ServerKeyExchange is expected in depends on the suite.  Before
\* there is one, the state is not looked at.
ExpectsKeyExchange(p) ==
    /\ p.cipher = "ECDHE" => p.state = "WAIT_SERVERKEYEXCHANGE"
    /\ p.cipher = "PSK" => p.state = "WAIT_SERVERHELLODONE"

\* check_server_key_exchange_ecdsa(): the signature is over both randoms and
\* the ephemeral key, by the key of the certificate.
HandleKeyExchangeEcdh(p, b) ==
    LET p1 == [p EXCEPT !.eph = b.eph]
        ok == b.sig = [key |-> p.pub, over |-> <<p.tmp[1], p.tmp[2], b.eph>>]
    IN  /\ p.cipher = "ECDHE" /\ ExpectsKeyExchange(p)
        /\ \/ /\ b.form = "good" /\ ok
              /\ Proceed("C", [p1 EXCEPT !.sig = b.sig, !.state = "WAIT_SERVERHELLODONE"],
                         <<>>)
           \/ b.form = "good" /\ ~ok /\ Fail("C", p1, <<>>)
           \/ b.form = "bad" /\ Fail("C", p, <<>>)

\* check_server_key_exchange_psk(): the hint, overwritten by the identity later.
HandleKeyExchangePsk(p, b) ==
    /\ p.cipher = "PSK" /\ ExpectsKeyExchange(p)
    /\ \/ b.form = "good" /\ Proceed("C", [p EXCEPT !.id = "hint"], <<>>)
       \/ b.form = "bad" /\ Fail("C", p, <<>>)

HandleKeyExchangeNone(p) ==
    /\ p.hs /\ p.cipher = "NULL"
    /\ Proceed("C", [p EXCEPT !.state = "WAIT_SERVERHELLODONE"], <<>>)

\* check_certificate_request(): do_client_auth is set, and never used.
HandleCertificateRequest(p, b) ==
    /\ p.state = "WAIT_SERVERHELLODONE"
    /\ \/ b.form = "good" /\ Proceed("C", [p EXCEPT !.auth = TRUE], <<>>)
       \/ b.form = "bad" /\ Fail("C", p, <<>>)

\* dtls_send_client_key_exchange() has a suite and, for PSK, an identity.
KeyExchangeOk(p) == p.cipher = "ECDHE" \/ (p.cipher = "PSK" /\ conf.identity # "error")

\* Bug: the ServerKeyExchange is optional, as it is for PSK.
BugExpectsHelloDone(p) == p.state \in {"WAIT_SERVERKEYEXCHANGE", "WAIT_SERVERHELLODONE"}

ExpectsHelloDone(p) == p.state = "WAIT_SERVERHELLODONE"

\* check_server_hellodone(): ClientKeyExchange, key block, ChangeCipherSpec,
\* Finished.
HandleHelloDone(p) ==
    LET p1  == IF p.cipher = "PSK" THEN [p EXCEPT !.id = conf.identity]
               ELSE [p EXCEPT !.own = 1]
        ckx == ClientKeyExchange(p1.id, p1.own, "good")
        p2  == Keyed(p1)
    IN  /\ ExpectsHelloDone(p)
        /\ \/ ~KeyExchangeOk(p) /\ Fail("C", p, <<>>)
           \/ KeyExchangeOk(p) /\ ~KeyBlockOk("C", p1) /\ Fail("C", p1, <<ckx>>)
           \/ /\ KeyExchangeOk(p) /\ KeyBlockOk("C", p1)
              /\ Proceed("C", [Switched(p2) EXCEPT !.state = "WAIT_CHANGECIPHERSPEC"],
                         <<ckx, Ccs, FinishedMsg(p2.tmp, "good")>>)

-----------------------------------------------------------------------------
(* Server *)

\* dtls_verify_peer() answers a ClientHello without the right cookie.
SendHelloVerify(p, b) ==
    /\ p.state \in {"INIT", "CONNECTED"}
    /\ b.cookie # dtls_create_cookie(b.hello)
    /\ Proceed("S", p, <<HelloVerify(dtls_create_cookie(b.hello), "good")>>)

\* dtls_send_server_hello_msgs(): no certificate, no signed key exchange.
HelloFlight(p, sr) ==
    <<ServerHello(sr, p.cipher, "good")>> \o
    (IF p.cipher = "PSK" /\ conf.hint = "some" THEN <<KeyExchangeHint("good")>> ELSE <<>>)
    \o <<Done>>

HintFails(p) == p.cipher = "PSK" /\ conf.hint = "error"

WithHandshake(p) == IF p.hs THEN p ELSE NewHandshake(p)

\* A ClientHello with the right cookie, from a new client or to renegotiate.
AcceptHello(p, b) ==
    LET sr == drawn["S"] + 1
        h  == Cb("S")
        p1 == [WithHandshake(p) EXCEPT !.tmp = <<b.hello.cr, 0>>, !.cipher = Chosen(p, h, b.hello),
                                        !.hello = <<b.hello>>]
        p2 == [p1 EXCEPT !.tmp = <<b.hello.cr, sr>>,
                         !.state = IF p1.cipher = "ECDHE"
                                      /\ is_ecdsa_client_auth_supported(h)
                                   THEN "WAIT_CLIENTCERTIFICATE"
                                   ELSE "WAIT_CLIENTKEYEXCHANGE"]
    IN  /\ p.state \in {"INIT", "CONNECTED"}
        /\ b.cookie = dtls_create_cookie(b.hello)
        /\ \/ /\ ~ParametersOk(p, h, b.hello)
              /\ Proceed("S", Closing(p1),
                     <<AlertMsg(IF p.state = "CONNECTED" THEN "warning" ELSE "fatal")>>)
           \/ /\ ParametersOk(p, h, b.hello)
              /\ drawn["S"] < MaxHello
              /\ drawn' = [drawn EXCEPT !["S"] = sr]
              /\ IF HintFails(p1)
                 THEN Become("S", Closing(p1), <<ServerHello(sr, p1.cipher, "good"),
                                                 AlertMsg("fatal")>>)
                 ELSE Become("S", p2, HelloFlight(p1, sr))

\* Bug: the certificate verify message is not waited for.
BugAfterKeyExchange(p, h) == "WAIT_CHANGECIPHERSPEC"

AfterKeyExchange(p, h) ==
    IF p.cipher = "ECDHE" /\ is_ecdsa_client_auth_supported(h)
    THEN "WAIT_CERTIFICATEVERIFY" ELSE "WAIT_CHANGECIPHERSPEC"

\* check_client_keyexchange(): an identity, or a point.
HandleClientKeyExchange(p, b) ==
    LET p1 == IF p.cipher = "PSK" THEN [p EXCEPT !.id = b.id] ELSE [p EXCEPT !.eph = b.eph]
    IN  /\ p.state = "WAIT_CLIENTKEYEXCHANGE"
        /\ \/ /\ b.form = "good"
              /\ Proceed("S", [p1 EXCEPT !.state = AfterKeyExchange(p, Cb("S"))], <<>>)
           \/ b.form = "bad" /\ Fail("S", p, <<>>)

\* The digest a CertificateVerify signs is that of the messages so far.
Transcript(p) == <<p.tmp[1], p.tmp[2], p.eph>>

\* check_client_certificate_verify()
HandleCertificateVerify(p, b) ==
    LET ok == b.sig = [key |-> p.pub, over |-> Transcript(p)]
    IN  /\ p.state = "WAIT_CERTIFICATEVERIFY"
        /\ \/ /\ b.form = "good" /\ ok
              /\ Proceed("S", [p EXCEPT !.state = "WAIT_CHANGECIPHERSPEC", !.cv = b.sig],
                         <<>>)
           \/ (b.form = "bad" \/ ~ok) /\ Fail("S", p, <<>>)

-----------------------------------------------------------------------------
(* Both *)

\* handle_ccs(): the server calculates its keys now.
HandleCcs(e, p) ==
    \/ p.state # "WAIT_CHANGECIPHERSPEC" /\ Proceed(e, p, <<>>)
    \/ /\ p.state = "WAIT_CHANGECIPHERSPEC"
       /\ \/ e = "S" /\ ~KeyBlockOk(e, p) /\ Discard(e)
          \/ /\ e = "S" => KeyBlockOk(e, p)
             /\ Proceed(e, [(IF e = "S" THEN Keyed(p) ELSE p)
                            EXCEPT !.state = "WAIT_FINISHED"], <<>>)

\* Bug: the server goes on with the parameters it had.
BugInUse(e, p) == p

\* The client has switched when it sent its own Finished.
InUse(e, p) == IF e = "S" THEN Switched(p) ELSE p

\* The record of a Finished is sealed with the keys.
Opens(e, p, b) ==
    /\ p.state \in {"WAIT_FINISHED"} \cup IF e = "C" THEN {"WAIT_CHANGECIPHERSPEC"} ELSE {}
    /\ b.master = p.tmp

\* check_finished(), and the server's own ChangeCipherSpec and Finished; or
\* decrypt_verify() fails, which ends a handshake.
HandleFinished(e, p, b) ==
    \/ /\ Opens(e, p, b) /\ p.state = "WAIT_FINISHED" /\ b.form = "good"
       /\ Proceed(e, [InUse(e, p) EXCEPT !.state = "CONNECTED", !.hs = FALSE],
                  IF e = "S" THEN <<Ccs, FinishedMsg(p.tmp, "good")>> ELSE <<>>)
    \/ /\ Opens(e, p, b) /\ (p.state = "WAIT_FINISHED" => b.form = "bad")
       /\ Fail(e, p, <<>>)
    \/ /\ ~Opens(e, p, b)
       /\ IF p.state \in {"INIT", "CONNECTED", "CLOSING"} THEN Proceed(e, p, <<>>)
          ELSE Discard(e)

\* handle_alert(): a fatal one ends the peer.
HandleAlert(e, p, b) == Proceed(e, IF b.level = "fatal" THEN NoPeer ELSE p, <<>>)

Expected(e, p, m) ==
    CASE m.typ = "HVR" -> p.state = "CLIENTHELLO"
      [] m.typ = "SH" -> p.state = "CLIENTHELLO"
      [] m.typ = "CERT" -> p.state = IF e = "C" THEN "WAIT_SERVERCERTIFICATE"
                                     ELSE "WAIT_CLIENTCERTIFICATE"
      [] m.typ = "SKX" -> ExpectsKeyExchange(p)
      [] m.typ = "CREQ" -> p.state = "WAIT_SERVERHELLODONE"
      [] m.typ = "SHD" -> ExpectsHelloDone(p)
      [] m.typ = "CH" -> p.state \in {"INIT", "CONNECTED"}
      [] m.typ = "CKX" -> p.state = "WAIT_CLIENTKEYEXCHANGE"
      [] m.typ = "CV" -> p.state = "WAIT_CERTIFICATEVERIFY"
      [] OTHER -> TRUE

Handle(e, p, m) ==
    \/ m.typ = "HVR" /\ HandleHelloVerify(p, m.body)
    \/ m.typ = "SH" /\ HandleServerHello(p, m.body)
    \/ m.typ = "CERT" /\ HandleCertificate(e, p, m.body)
    \/ m.typ = "SKX" /\ HandleKeyExchangeEcdh(p, m.body)
    \/ m.typ = "SKX" /\ HandleKeyExchangePsk(p, m.body)
    \/ m.typ = "SKX" /\ HandleKeyExchangeNone(p)
    \/ m.typ = "CREQ" /\ HandleCertificateRequest(p, m.body)
    \/ m.typ = "SHD" /\ HandleHelloDone(p)
    \/ m.typ = "CH" /\ (SendHelloVerify(p, m.body) \/ AcceptHello(p, m.body))
    \/ m.typ = "CKX" /\ HandleClientKeyExchange(p, m.body)
    \/ m.typ = "CV" /\ HandleCertificateVerify(p, m.body)
    \/ m.typ = "CCS" /\ HandleCcs(e, p)
    \/ m.typ = "FIN" /\ HandleFinished(e, p, m.body)
    \/ m.typ = "ALERT" /\ HandleAlert(e, p, m.body)
    \/ /\ ~Expected(e, p, m)
       /\ IF p.live /\ p.hs THEN Fail(e, p, <<>>) ELSE Proceed(e, p, <<>>)

-----------------------------------------------------------------------------
(* What a foreign peer may send *)

Signatures(p, eph) ==
    [key : Key, over : {<<p.tmp[1], p.tmp[2], eph>>, <<>>}]

\* To a client.  (A CertificateRequest outside of ECDHE fails an assertion.)
FromServer(p) ==
    {HelloVerify(<<>>, f) : f \in Form} \cup
    {ServerHello(7, c, f) : c \in Suite \cup {"OTHER"}, f \in Form} \cup
    {Certificate(k, f) : k \in Key, f \in Form} \cup
    {KeyExchangeEcdh(9, s, "good") : s \in Signatures(p, 9)} \cup
    {KeyExchangeHint(f) : f \in Form} \cup
    (IF p.cipher = "ECDHE" THEN {CertificateRequest(f) : f \in Form} ELSE {}) \cup
    {Done, Ccs, FinishedMsg(p.tmp, "good"), FinishedMsg(p.tmp, "bad"),
     FinishedMsg(<<>>, "good"), AlertMsg("warning"), AlertMsg("fatal")}

ForeignExt ==
    {AllExt("good"), AllExt("absent")} \cup
    {[AllExt("good") EXCEPT ![x] = v] : x \in Ext, v \in {"absent", "bad"}} \cup
    {[AllExt("absent") EXCEPT ![x] = v] : x \in Ext, v \in {"good", "bad"}}

\* A hello may end before its suites, or after them; extensions are only
\* looked at when the compression methods are there and good.
ForeignHello ==
    [cr : {5}, list : {TRUE}, suites : SuiteLists, comp : {"null"}, ext : ForeignExt] \cup
    [cr : {5}, list : {TRUE}, suites : SuiteLists, comp : {"absent", "other"},
     ext : {AllExt("absent")}] \cup
    [cr : {5}, list : {FALSE}, suites : {<<>>}, comp : {"absent"}, ext : {AllExt("absent")}]

\* Where no hello is expected one stands for all.
HelloFor(p) ==
    IF p.state \in {"INIT", "CONNECTED"} THEN ForeignHello
    ELSE {CHOOSE h \in ForeignHello : ~h.list}

\* To a server.
FromClient(p) ==
    {ClientHello(CHOOSE h \in ForeignHello : ~h.list, NoCookie)} \cup
    {ClientHello(h, dtls_create_cookie(h)) : h \in HelloFor(p)} \cup
    {Certificate(k, f) : k \in Key, f \in Form} \cup
    {ClientKeyExchange("known", 3, f) : f \in Form} \cup
    {CertificateVerify(s, "good") : s \in Signatures(p, p.eph)} \cup
    {CertificateVerify(NoSig, "bad"), Ccs, FinishedMsg(p.tmp, "good"),
     FinishedMsg(p.tmp, "bad"), FinishedMsg(<<>>, "good"), AlertMsg("fatal")}

-----------------------------------------------------------------------------

Init ==
    /\ conf \in [mode : {"pair", "client", "server"}, cb : [Endpoint -> SUBSET Callback],
                 hint : Hints, identity : Identities]
    /\ conf.mode = "client" => conf.cb["S"] = {} /\ conf.hint = "none"
    /\ conf.mode = "server" => conf.cb["C"] = {} /\ conf.identity \in {"known", "unknown"}
    /\ pr = [e \in Endpoint |-> NoPeer]
    /\ chan = [e \in Endpoint |-> <<>>]
    /\ drawn = [e \in Endpoint |-> 0]

Deliver(e) == Pair /\ chan[e] # <<>> /\ Handle(e, pr[e], Head(chan[e]))

ForeignServer == conf.mode = "client" /\ \E m \in FromServer(pr["C"]) : Handle("C", pr["C"], m)
ForeignClient == conf.mode = "server" /\ \E m \in FromClient(pr["S"]) : Handle("S", pr["S"], m)

Next == StartHello \/ ForeignServer \/ ForeignClient \/ \E e \in Endpoint : Deliver(e)

Spec == Init /\ [][Next]_svars

\* The application connects, and a message that has arrived is handled.
Fairness == WF_svars(StartHello) /\ \A e \in Endpoint : WF_svars(Deliver(e))

FairSpec == Spec /\ Fairness

-----------------------------------------------------------------------------
(* Properties *)

\* The keys are in use, or about to be.
KeyedStates == {"WAIT_CHANGECIPHERSPEC", "WAIT_FINISHED", "CONNECTED"}

\* Whatever a client offers, with whatever extensions, the server goes on only
\* with the first suite of the list that it supports itself, or without a list
\* with that of the session it has; with ECDHE only if all extensions are there
\* unless the hello ends before them.
ServerChoice ==
    LET p == pr["S"] IN
    p.hello # <<>> /\ p.state # "CLOSING" =>
        LET h == p.hello[1] IN
        /\ p.cipher \in Suite
        /\ h.list => \E i \in DOMAIN h.suites :
               /\ h.suites[i] = p.cipher
               /\ p.cipher = "PSK" => "get_psk_info" \in Cb("S")
               /\ p.cipher = "ECDHE" => "get_ecdsa_key" \in Cb("S")
               /\ \A j \in 1..(i - 1) : ~known_cipher(Cb("S"), h.suites[j], FALSE)
        /\ ~h.list => p.cipher = p.sec.cipher
        /\ p.cipher = "ECDHE" /\ h.comp = "null" => h.ext = AllExt("good")

\* A client never answers a ServerHelloDone with ECDHE keys unless this very
\* handshake brought a certificate its application accepted and a signature
\* with that key over both randoms and the ephemeral key it uses.
ServerAuthenticated ==
    LET p == pr["C"]
        randoms == p.tmp[2]
    IN  p.cipher = "ECDHE" /\ p.state \in KeyedStates =>
            /\ "verify_ecdsa_key" \in Cb("C") /\ p.pub = "trusted"
            /\ p.tmp[1] = {p.own, p.eph}
            /\ randoms[1] \in 1..drawn["C"]
            /\ p.sig = [key |-> p.pub, over |-> <<randoms[1], randoms[2], p.eph>>]

\* A server that can authenticate clients does not use ECDHE keys before the
\* client has proved, with an accepted key, to be part of this handshake.
ClientAuthenticated ==
    LET p == pr["S"] IN
    /\ p.cipher = "ECDHE" /\ p.state \in KeyedStates
    /\ is_ecdsa_client_auth_supported(Cb("S"))
    => p.pub = "trusted" /\ p.cv.key = p.pub /\ p.cv.over[3] = p.eph

\* When a pair is connected and nothing is under way, both have the same keys
\* of the same suite, and that suite is one both applications support.
PairAgrees ==
    /\ Pair /\ chan = [e \in Endpoint |-> <<>>]
    /\ \A e \in Endpoint : pr[e].state = "CONNECTED"
    => /\ pr["C"].sec = pr["S"].sec
       /\ known_cipher(Cb("C"), pr["C"].sec.cipher, TRUE)
       /\ known_cipher(Cb("S"), pr["C"].sec.cipher, FALSE)

\* Both have the callbacks of the ECDHE suite (dtls.h:223-251); a server that
\* verifies clients needs one that has a key to show.
BothEcdhe ==
    /\ "verify_ecdsa_key" \in Cb("C") /\ "get_ecdsa_key" \in Cb("S")
    /\ "verify_ecdsa_key" \in Cb("S") => "get_ecdsa_key" \in Cb("C")

\* The first suite a client offers that the server knows is PSK.
PskIsFirst ==
    /\ \A e \in Endpoint : "get_psk_info" \in Cb(e)
    /\ ~("verify_ecdsa_key" \in Cb("C") /\ "get_ecdsa_key" \in Cb("S"))

\* What a pair of applications gets that cannot do ECDHE: a session, for good,
\* if both have PSK and a key for the identity of the client; never a session
\* in any other case, whatever else they have registered.
Outcome ==
    Pair /\ ~BothEcdhe /\ conf.hint # "error" =>
        <>[](IF PskIsFirst /\ conf.identity = "known"
             THEN \A e \in Endpoint : pr[e].state = "CONNECTED"
             ELSE \A e \in Endpoint : pr[e].sec = NoSession)

\* dtls.h:223-251: get_ecdsa_key() is what "a server providing ECDSA support"
\* implements, verify_ecdsa_key() a client "doing based ECDSA authentication".
\* Two applications that implement them get a session.
EcdheConnects ==
    Pair /\ BothEcdhe => <>(\A e \in Endpoint : pr[e].state = "CONNECTED")
=============================================================================
