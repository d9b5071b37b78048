---------------------------- MODULE SuitesProofs ----------------------------
(***************************************************************************)
(* Theorems about the negotiation and the two cipher suites (module        *)
(* Suites): whatever callbacks the applications have registered and        *)
(* whatever a foreign peer sends, neither side uses ECDHE keys before the  *)
(* checks its own configuration asks for have succeeded, and a pair of     *)
(* this library that is connected has one session.                         *)
(***************************************************************************)
EXTENDS Suites, SequenceTheorems, WellFoundedInduction, TLAPS

Fields == {"live", "state", "hs", "cipher", "tmp", "id", "own", "pub", "eph",
           "auth", "sec", "sig", "cv", "hello"}

\* A ClientHello: without a list of suites there is nothing behind it.
HelloOk(h) ==
    /\ \E n \in Nat : DOMAIN h.suites = 1..n
    /\ ~h.list => h.comp # "null"
    /\ h.ext = [x \in Ext |-> h.ext[x]]

\* What may be on its way to an endpoint.
ToClient == {"HVR", "SH", "CERT", "SKX", "CREQ", "SHD", "CCS", "FIN", "ALERT"}
ToServer == {"CH", "CERT", "CKX", "CV", "CCS", "FIN", "ALERT"}

Good(e, m) ==
    /\ m.typ \in IF e = "C" THEN ToClient ELSE ToServer
    /\ m.typ = "CH" => HelloOk(m.body.hello)

\* A sequence of such messages.
GoodSeq(e, q) == \E T : q \in Seq(T) /\ \A m \in T : Good(e, m)

\* What a client with d randoms drawn has checked in each state.
ClientInv(p, d) ==
    /\ DOMAIN p = Fields
    /\ p.state = "CLIENTHELLO" => p.tmp[1] \in 1..d
    /\ p.cipher = "ECDHE" =>
        /\ p.state \in {"WAIT_SERVERCERTIFICATE", "WAIT_SERVERKEYEXCHANGE",
                        "WAIT_SERVERHELLODONE"} =>
               "verify_ecdsa_key" \in Cb("C") /\ p.tmp[1] \in 1..d
        /\ p.state \in {"WAIT_SERVERKEYEXCHANGE", "WAIT_SERVERHELLODONE"} =>
               p.pub = "trusted"
        /\ p.state = "WAIT_SERVERHELLODONE" =>
               p.sig = [key |-> p.pub, over |-> <<p.tmp[1], p.tmp[2], p.eph>>]
        /\ p.state \in KeyedStates =>
               /\ "verify_ecdsa_key" \in Cb("C") /\ p.pub = "trusted"
               /\ p.tmp[1] = {p.own, p.eph}
               /\ p.tmp[2][1] \in 1..d
               /\ p.sig = [key |-> p.pub, over |-> <<p.tmp[2][1], p.tmp[2][2], p.eph>>]

\* What a server has checked.
ServerInv(p) ==
    /\ DOMAIN p = Fields
    /\ p.cipher \in Suite \cup {"NULL"} /\ p.sec.cipher \in Suite \cup {"NULL"}
    /\ p.cipher = "ECDHE" /\ is_ecdsa_client_auth_supported(Cb("S")) =>
        /\ p.state \in {"WAIT_CLIENTKEYEXCHANGE", "WAIT_CERTIFICATEVERIFY"} =>
               p.pub = "trusted"
        /\ p.state \in KeyedStates =>
               p.pub = "trusted" /\ p.cv.key = p.pub /\ p.cv.over[3] = p.eph

\* ServerChoice of a peer object.
Choice(p) ==
    p.hello # <<>> /\ p.state # "CLOSING" =>
        LET h == p.hello[1] IN
        /\ p.cipher \in Suite
        /\ h.list => \E i \in DOMAIN h.suites :
               /\ h.suites[i] = p.cipher
               /\ p.cipher = "PSK" => "get_psk_info" \in Cb("S")
               /\ p.cipher = "ECDHE" => "get_ecdsa_key" \in Cb("S")
               /\ \A j \in 1..(i - 1) : ~known_cipher(Cb("S"), h.suites[j], FALSE)
        /\ ~h.list => p.cipher = p.sec.cipher
        /\ p.cipher = "ECDHE" /\ h.comp = "null" => h.ext = AllExt("good")

SuitesInv ==
    /\ DOMAIN pr = Endpoint /\ DOMAIN chan = Endpoint
    /\ drawn \in [Endpoint -> Nat]
    /\ ClientInv(pr["C"], drawn["C"])
    /\ ServerInv(pr["S"]) /\ Choice(pr["S"])
    /\ \A e \in Endpoint : GoodSeq(e, chan[e])

-----------------------------------------------------------------------------
(* Peers and messages *)

LEMMA NoPeerFields == DOMAIN NoPeer = Fields
  BY DEF NoPeer, Fields

LEMMA NoPeerClient == ASSUME NEW d PROVE ClientInv(NoPeer, d)
  BY NoPeerFields DEF ClientInv, NoPeer

LEMMA Closed ==
    ASSUME NEW p, NEW d, ClientInv(p, d) PROVE ClientInv(Closing(p), d)
<1>1. DOMAIN p = Fields
  BY DEF ClientInv
<1>2. DOMAIN Closing(p) = Fields /\ Closing(p).state = "CLOSING"
  BY <1>1 DEF Closing, Fields
<1> QED BY <1>2 DEF ClientInv, KeyedStates

\* One handler of the client.
LEMMA CertificateStep ==
    ASSUME NEW p, NEW b, NEW d, ClientInv(p, d), p.state = "WAIT_SERVERCERTIFICATE",
           b.key = "trusted", NEW q,
           q = [[p EXCEPT !.pub = b.key] EXCEPT !.state = "WAIT_SERVERKEYEXCHANGE"]
    PROVE  ClientInv(q, d)
<1>1. DOMAIN p = Fields
  BY DEF ClientInv
<1>2. /\ DOMAIN q = Fields /\ q.state = "WAIT_SERVERKEYEXCHANGE" /\ q.pub = "trusted"
      /\ q.cipher = p.cipher /\ q.tmp = p.tmp
  BY <1>1 DEF Fields
<1> QED BY <1>2 DEF ClientInv, KeyedStates


LEMMA GoodFrom ==
    ASSUME NEW e, NEW q, NEW T, q \in Seq(T), \A m \in T : Good(e, m)
    PROVE  GoodSeq(e, q)
  BY DEF GoodSeq

LEMMA GoodEmpty == ASSUME NEW e PROVE GoodSeq(e, <<>>)
<1>1. <<>> \in Seq({})
  BY EmptySeq
<1> DEFINE q == <<>>
           T == {}
<1>2. q \in Seq(T) /\ \A m \in T : Good(e, m)
  BY <1>1
<1> HIDE DEF q, T
<1>3. GoodSeq(e, q)
  BY <1>2, GoodFrom
<1> QED BY <1>3 DEF q

LEMMA GoodThree ==
    ASSUME NEW e, NEW m, NEW n, NEW k, Good(e, m), Good(e, n), Good(e, k)
    PROVE  GoodSeq(e, <<m>>) /\ GoodSeq(e, <<m, n>>) /\ GoodSeq(e, <<m, n, k>>)
<1> DEFINE a == <<m>>
           b == <<m, n>>
           c == <<m, n, k>>
           T == {m, n, k}
<1>1. a \in Seq(T) /\ b \in Seq(T) /\ c \in Seq(T) /\ \A x \in T : Good(e, x)
  OBVIOUS
<1> HIDE DEF a, b, c, T
<1>2. GoodSeq(e, a) /\ GoodSeq(e, b) /\ GoodSeq(e, c)
  BY <1>1, GoodFrom
<1> QED BY <1>2 DEF a, b, c

LEMMA GoodOne == ASSUME NEW e, NEW m, Good(e, m) PROVE GoodSeq(e, <<m>>)
  BY GoodThree

LEMMA GoodConcat ==
    ASSUME NEW e, NEW a, NEW b, GoodSeq(e, a), GoodSeq(e, b)
    PROVE  GoodSeq(e, a \o b)
<1>1. PICK T : a \in Seq(T) /\ \A m \in T : Good(e, m)
  BY DEF GoodSeq
<1>2. PICK U : b \in Seq(U) /\ \A m \in U : Good(e, m)
  BY DEF GoodSeq
<1> DEFINE V == T \cup U
<1>3. T \subseteq V /\ U \subseteq V /\ \A m \in V : Good(e, m)
  BY <1>1, <1>2
<1> HIDE DEF V
<1>4. a \in Seq(V) /\ b \in Seq(V)
  BY <1>1, <1>2, <1>3, SeqMonotonic
<1>5. a \o b \in Seq(V)
  BY <1>4, ConcatProperties
<1> QED BY <1>3, <1>5 DEF GoodSeq

LEMMA GoodHead ==
    ASSUME NEW e, NEW a, GoodSeq(e, a), a # <<>>
    PROVE  Good(e, Head(a)) /\ GoodSeq(e, Tail(a))
<1>1. PICK T : a \in Seq(T) /\ \A m \in T : Good(e, m)
  BY DEF GoodSeq
<1>2. Head(a) \in T /\ Tail(a) \in Seq(T)
  BY <1>1, HeadTailProperties
<1> QED BY <1>1, <1>2 DEF GoodSeq

\* Messages that carry nothing the argument looks at.
LEMMA PlainMessages ==
    ASSUME NEW e \in Endpoint
    PROVE  /\ \A level : Good(e, AlertMsg(level))
           /\ Good(e, Ccs)
           /\ \A master, form : Good(e, FinishedMsg(master, form))
  BY DEF Good, ToClient, ToServer, AlertMsg, Ccs, FinishedMsg, Msg

LEMMA AlertAfter ==
    ASSUME NEW e \in Endpoint, NEW a, GoodSeq(e, a), NEW level
    PROVE  GoodSeq(e, a \o <<AlertMsg(level)>>)
<1>1. GoodSeq(e, <<AlertMsg(level)>>)
  BY PlainMessages, GoodOne
<1> QED BY <1>1, GoodConcat

-----------------------------------------------------------------------------
(* The client *)

\* What a handler of the client leaves behind.
ClientResult(d) ==
    \E q, out : Proceed("C", q, out) /\ ClientInv(q, d) /\ GoodSeq("S", out)

LEMMA ClientFails ==
    ASSUME NEW p, NEW d, ClientInv(p, d), NEW out, GoodSeq("S", out), Fail("C", p, out)
    PROVE  ClientResult(d)
<1>1. ClientInv(Closing(p), d) /\ GoodSeq("S", out \o <<AlertMsg("fatal")>>)
  BY Closed, AlertAfter DEF Endpoint
<1> QED BY <1>1 DEF Fail, ClientResult

LEMMA ClientStays ==
    ASSUME NEW p, NEW d, ClientInv(p, d), Proceed("C", p, <<>>) PROVE ClientResult(d)
  BY GoodEmpty DEF ClientResult

LEMMA HelloIsOk == ASSUME NEW h, NEW cr PROVE HelloOk(OwnHello(h, cr))
<1>1. Offer(h) \in Seq(Suite)
  <2>1. <<"ECDHE">> \in Seq(Suite) /\ <<"PSK">> \in Seq(Suite)
    BY DEF Suite
  <2>2. <<>> \in Seq(Suite)
    BY EmptySeq
  <2> QED BY <2>1, <2>2, ConcatProperties DEF Offer
<1>2. DOMAIN Offer(h) = 1..Len(Offer(h)) /\ Len(Offer(h)) \in Nat
  BY <1>1, LenProperties
<1>3. OwnHello(h, cr).suites = Offer(h)
  BY DEF OwnHello
<1>4. OwnHello(h, cr).ext = [x \in Ext |-> OwnHello(h, cr).ext[x]]
  BY DEF OwnHello, AllExt
<1>5. OwnHello(h, cr).list
  BY DEF OwnHello
<1> QED BY <1>2, <1>3, <1>4, <1>5 DEF HelloOk

LEMMA HelloVerifyKeeps ==
    ASSUME NEW p, NEW d, ClientInv(p, d), NEW b, HandleHelloVerify(p, b)
    PROVE  ClientResult(d)
<1>1. CASE b.form = "good"
  <2> DEFINE h == OwnHello(Cb("C"), p.tmp[1])
  <2>1. Proceed("C", p, <<ClientHello(h, b.cookie)>>)
    BY <1>1 DEF HandleHelloVerify
  <2>2. HelloOk(h)
    BY HelloIsOk
  <2> HIDE DEF h
  <2>3. Good("S", ClientHello(h, b.cookie))
    BY <2>2 DEF Good, ToServer, ClientHello, Msg
  <2> QED BY <2>1, <2>3, GoodOne DEF ClientResult
<1>2. CASE b.form # "good"
  BY <1>2, ClientFails, GoodEmpty DEF HandleHelloVerify
<1> QED BY <1>1, <1>2

LEMMA ServerHelloKeeps ==
    ASSUME NEW p, NEW d, ClientInv(p, d), NEW b, HandleServerHello(p, b)
    PROVE  ClientResult(d)
<1> DEFINE q == [p EXCEPT !.tmp = <<p.tmp[1], b.sr>>, !.cipher = b.cipher,
                          !.state = IF b.cipher = "ECDHE" THEN "WAIT_SERVERCERTIFICATE"
                                    ELSE "WAIT_SERVERHELLODONE"]
<1>1. CASE known_cipher(Cb("C"), b.cipher, TRUE) /\ Proceed("C", q, <<>>)
  <2>1. DOMAIN p = Fields /\ p.tmp[1] \in 1..d
    BY DEF ClientInv, HandleServerHello
  <2>2. /\ DOMAIN q = Fields /\ q.tmp = <<p.tmp[1], b.sr>> /\ q.cipher = b.cipher
        /\ q.state = IF b.cipher = "ECDHE" THEN "WAIT_SERVERCERTIFICATE"
                     ELSE "WAIT_SERVERHELLODONE"
    BY <2>1 DEF Fields
  <2> HIDE DEF q
  <2>3. q.tmp[1] = p.tmp[1]
    BY <2>2
  <2>4. q.cipher = "ECDHE" => "verify_ecdsa_key" \in Cb("C")
    BY <1>1, <2>2 DEF known_cipher, is_ecdsa_supported
  <2>5. ClientInv(q, d)
    BY <2>1, <2>2, <2>3, <2>4 DEF ClientInv, KeyedStates
  <2> QED BY <1>1, <2>5, GoodEmpty DEF ClientResult
<1>2. CASE Fail("C", p, <<>>)
  BY <1>2, ClientFails, GoodEmpty
<1> QED BY <1>1, <1>2 DEF HandleServerHello

LEMMA ServerCertificateKeeps ==
    ASSUME NEW p, NEW d, ClientInv(p, d), NEW b, HandleCertificate("C", p, b)
    PROVE  ClientResult(d)
<1> DEFINE p1 == [p EXCEPT !.pub = b.key]
           q == [p1 EXCEPT !.state = "WAIT_SERVERKEYEXCHANGE"]
<1>0. DOMAIN p = Fields /\ p.state = "WAIT_SERVERCERTIFICATE"
  BY DEF ClientInv, HandleCertificate
<1>1. CASE b.key = "trusted" /\ Proceed("C", q, <<>>)
  <2>1. ClientInv(q, d)
    BY <1>0, <1>1, CertificateStep
  <2> HIDE DEF q
  <2> QED BY <1>1, <2>1, GoodEmpty DEF ClientResult
<1>2. CASE Fail("C", p1, <<>>)
  <2>1. /\ DOMAIN p1 = Fields /\ p1.state = "WAIT_SERVERCERTIFICATE" /\ p1.tmp = p.tmp
        /\ p1.cipher = p.cipher
    BY <1>0 DEF Fields
  <2> HIDE DEF p1
  <2>2. ClientInv(p1, d)
    BY <1>0, <2>1 DEF ClientInv, KeyedStates
  <2> QED BY <1>2, <2>2, ClientFails, GoodEmpty
<1>3. CASE Fail("C", p, <<>>)
  BY <1>3, ClientFails, GoodEmpty
<1> QED BY <1>1, <1>2, <1>3 DEF HandleCertificate

LEMMA KeyExchangeKeeps ==
    ASSUME NEW p, NEW d, ClientInv(p, d), NEW b, HandleKeyExchangeEcdh(p, b)
    PROVE  ClientResult(d)
<1> DEFINE p1 == [p EXCEPT !.eph = b.eph]
           q == [p1 EXCEPT !.sig = b.sig, !.state = "WAIT_SERVERHELLODONE"]
           ok == b.sig = [key |-> p.pub, over |-> <<p.tmp[1], p.tmp[2], b.eph>>]
<1>0. DOMAIN p = Fields /\ p.state = "WAIT_SERVERKEYEXCHANGE" /\ p.cipher = "ECDHE"
  BY DEF ClientInv, HandleKeyExchangeEcdh, ExpectsKeyExchange
<1>1. CASE ok /\ Proceed("C", q, <<>>)
  <2>1. /\ DOMAIN q = Fields /\ q.state = "WAIT_SERVERHELLODONE" /\ q.tmp = p.tmp
        /\ q.cipher = p.cipher /\ q.pub = p.pub /\ q.eph = b.eph /\ q.sig = b.sig
    BY <1>0 DEF Fields
  <2> HIDE DEF q
  <2>2. q.sig = [key |-> q.pub, over |-> <<q.tmp[1], q.tmp[2], q.eph>>]
    BY <1>1, <2>1
  <2>3. "verify_ecdsa_key" \in Cb("C") /\ q.tmp[1] \in 1..d /\ q.pub = "trusted"
    BY <1>0, <2>1 DEF ClientInv
  <2>4. ClientInv(q, d)
    BY <2>1, <2>2, <2>3 DEF ClientInv, KeyedStates
  <2> QED BY <1>1, <2>4, GoodEmpty DEF ClientResult
<1>2. CASE Fail("C", p1, <<>>)
  <2>1. /\ DOMAIN p1 = Fields /\ p1.state = "WAIT_SERVERKEYEXCHANGE" /\ p1.tmp = p.tmp
        /\ p1.cipher = p.cipher /\ p1.pub = p.pub
    BY <1>0 DEF Fields
  <2> HIDE DEF p1
  <2>2. ClientInv(p1, d)
    BY <1>0, <2>1 DEF ClientInv, KeyedStates
  <2> QED BY <1>2, <2>2, ClientFails, GoodEmpty
<1>3. CASE Fail("C", p, <<>>)
  BY <1>3, ClientFails, GoodEmpty
<1> QED BY <1>1, <1>2, <1>3 DEF HandleKeyExchangeEcdh


\* A step that touches none of the fields the client is judged by.
LEMMA SameClient ==
    ASSUME NEW p, NEW d, ClientInv(p, d), NEW q, DOMAIN q = Fields,
           q.state = p.state, q.cipher = p.cipher, q.tmp = p.tmp, q.pub = p.pub,
           q.own = p.own, q.eph = p.eph, q.sig = p.sig
    PROVE  ClientInv(q, d)
  BY DEF ClientInv

LEMMA HintKeeps ==
    ASSUME NEW p, NEW d, ClientInv(p, d), NEW b, HandleKeyExchangePsk(p, b)
    PROVE  ClientResult(d)
<1> DEFINE q == [p EXCEPT !.id = "hint"]
<1>1. CASE Proceed("C", q, <<>>)
  <2>1. DOMAIN p = Fields
    BY DEF ClientInv
  <2>2. /\ DOMAIN q = Fields /\ q.state = p.state /\ q.cipher = p.cipher /\ q.tmp = p.tmp
        /\ q.pub = p.pub /\ q.own = p.own /\ q.eph = p.eph /\ q.sig = p.sig
    BY <2>1 DEF Fields
  <2> HIDE DEF q
  <2>3. ClientInv(q, d)
    BY <2>2, SameClient
  <2> QED BY <1>1, <2>3, GoodEmpty DEF ClientResult
<1>2. CASE Fail("C", p, <<>>)
  BY <1>2, ClientFails, GoodEmpty
<1> QED BY <1>1, <1>2 DEF HandleKeyExchangePsk

LEMMA NoSuiteKeeps ==
    ASSUME NEW p, NEW d, ClientInv(p, d), HandleKeyExchangeNone(p)
    PROVE  ClientResult(d)
<1> DEFINE q == [p EXCEPT !.state = "WAIT_SERVERHELLODONE"]
<1>1. Proceed("C", q, <<>>) /\ p.cipher = "NULL"
  BY DEF HandleKeyExchangeNone
<1>2. DOMAIN p = Fields
  BY DEF ClientInv
<1>3. DOMAIN q = Fields /\ q.state = "WAIT_SERVERHELLODONE" /\ q.cipher = "NULL"
  BY <1>1, <1>2 DEF Fields
<1> HIDE DEF q
<1>4. ClientInv(q, d)
  BY <1>3 DEF ClientInv
<1> QED BY <1>1, <1>4, GoodEmpty DEF ClientResult

LEMMA RequestKeeps ==
    ASSUME NEW p, NEW d, ClientInv(p, d), NEW b, HandleCertificateRequest(p, b)
    PROVE  ClientResult(d)
<1> DEFINE q == [p EXCEPT !.auth = TRUE]
<1>1. CASE Proceed("C", q, <<>>)
  <2>1. DOMAIN p = Fields
    BY DEF ClientInv
  <2>2. /\ DOMAIN q = Fields /\ q.state = p.state /\ q.cipher = p.cipher /\ q.tmp = p.tmp
        /\ q.pub = p.pub /\ q.own = p.own /\ q.eph = p.eph /\ q.sig = p.sig
    BY <2>1 DEF Fields
  <2> HIDE DEF q
  <2>3. ClientInv(q, d)
    BY <2>2, SameClient
  <2> QED BY <1>1, <2>3, GoodEmpty DEF ClientResult
<1>2. CASE Fail("C", p, <<>>)
  BY <1>2, ClientFails, GoodEmpty
<1> QED BY <1>1, <1>2 DEF HandleCertificateRequest

LEMMA HelloDoneKeeps ==
    ASSUME NEW p, NEW d, ClientInv(p, d), HandleHelloDone(p)
    PROVE  ClientResult(d)
<1> DEFINE p1  == IF p.cipher = "PSK" THEN [p EXCEPT !.id = conf.identity]
                  ELSE [p EXCEPT !.own = 1]
           ckx == ClientKeyExchange(p1.id, p1.own, "good")
           fin == FinishedMsg(Keyed(p1).tmp, "good")
           q   == [Switched(Keyed(p1)) EXCEPT !.state = "WAIT_CHANGECIPHERSPEC"]
<1>0. DOMAIN p = Fields /\ p.state = "WAIT_SERVERHELLODONE"
  BY DEF ClientInv, HandleHelloDone, ExpectsHelloDone
<1>1. /\ DOMAIN p1 = Fields /\ p1.state = p.state /\ p1.cipher = p.cipher
      /\ p1.tmp = p.tmp /\ p1.pub = p.pub /\ p1.eph = p.eph /\ p1.sig = p.sig
  BY <1>0 DEF Fields
<1>2. Good("S", ckx) /\ Good("S", Ccs) /\ Good("S", fin)
  <2>1. Good("S", ckx)
    BY DEF Good, ToServer, ClientKeyExchange, Msg
  <2>2. Good("S", Ccs) /\ Good("S", fin)
    BY PlainMessages DEF Endpoint
  <2> QED BY <2>1, <2>2
<1> HIDE DEF p1
<1>3. CASE Fail("C", p, <<>>)
  BY <1>3, ClientFails, GoodEmpty
<1>4. CASE KeyExchangeOk(p) /\ Fail("C", p1, <<ckx>>)
  <2>1. p.cipher = "ECDHE" => ClientInv(p1, d)
    BY <1>0, <1>1 DEF ClientInv, KeyedStates
  <2>2. p.cipher # "ECDHE" => ClientInv(p1, d)
    BY <1>0, <1>1 DEF ClientInv
  <2>3. GoodSeq("S", <<ckx>>)
    BY <1>2, GoodOne
  <2> QED BY <1>4, <2>1, <2>2, <2>3, ClientFails
<1>5. CASE Proceed("C", q, <<ckx, Ccs, fin>>)
  <2>1. /\ DOMAIN Keyed(p1) = Fields /\ Keyed(p1).tmp = <<Secret(p1), p1.tmp>>
        /\ Keyed(p1).cipher = p1.cipher /\ Keyed(p1).pub = p1.pub
        /\ Keyed(p1).eph = p1.eph /\ Keyed(p1).sig = p1.sig /\ Keyed(p1).own = p1.own
    BY <1>1 DEF Keyed, Fields
  <2> DEFINE k == Keyed(p1)
  <2> HIDE DEF k
  <2>2. /\ DOMAIN k = Fields /\ k.tmp = <<Secret(p1), p.tmp>> /\ k.cipher = p.cipher
        /\ k.pub = p.pub /\ k.eph = p.eph /\ k.sig = p.sig /\ k.own = p1.own
    BY <1>1, <2>1 DEF k
  <2> DEFINE r == [Switched(k) EXCEPT !.state = "WAIT_CHANGECIPHERSPEC"]
  <2>3. /\ DOMAIN r = Fields /\ r.tmp = k.tmp /\ r.cipher = k.cipher /\ r.pub = k.pub
        /\ r.eph = k.eph /\ r.sig = k.sig /\ r.own = k.own
        /\ r.state = "WAIT_CHANGECIPHERSPEC"
    BY <2>2 DEF Switched, Fields
  <2> HIDE DEF r
  <2>4. ASSUME p.cipher = "ECDHE" PROVE ClientInv(r, d)
    <3>1. /\ "verify_ecdsa_key" \in Cb("C") /\ p.tmp[1] \in 1..d /\ p.pub = "trusted"
          /\ p.sig = [key |-> p.pub, over |-> <<p.tmp[1], p.tmp[2], p.eph>>]
      BY <1>0, <2>4 DEF ClientInv
    <3>2. Secret(p1) = {p1.own, p1.eph}
      BY <1>1, <2>4 DEF Secret
    <3>3. r.tmp[1] = {r.own, r.eph} /\ r.tmp[2] = p.tmp
      BY <1>1, <2>2, <2>3, <3>2
    <3>4. r.tmp[2][1] \in 1..d
      BY <3>1, <3>3
    <3>5. r.sig = [key |-> r.pub, over |-> <<r.tmp[2][1], r.tmp[2][2], r.eph>>]
      BY <2>2, <2>3, <3>1, <3>3
    <3>6. r.pub = "trusted"
      BY <2>2, <2>3, <3>1
    <3>7. ClientInv(r, d)
      BY <2>3, <3>1, <3>3, <3>4, <3>5, <3>6 DEF ClientInv
    <3> QED BY <3>7
  <2>5. ASSUME p.cipher # "ECDHE" PROVE ClientInv(r, d)
    BY <2>2, <2>3, <2>5 DEF ClientInv
  <2>6. ClientInv(r, d)
    BY <2>4, <2>5
  <2>7. q = r
    BY DEF r, k
  <2>8. GoodSeq("S", <<ckx, Ccs, fin>>)
    BY <1>2, GoodThree
  <2> HIDE DEF ckx, fin, q
  <2> QED BY <1>5, <2>6, <2>7, <2>8 DEF ClientResult
<1> QED BY <1>3, <1>4, <1>5 DEF HandleHelloDone, p1

LEMMA ClientCcsKeeps ==
    ASSUME NEW p, NEW d, ClientInv(p, d), HandleCcs("C", p)
    PROVE  ClientResult(d)
<1> DEFINE q == [p EXCEPT !.state = "WAIT_FINISHED"]
<1>1. CASE Proceed("C", p, <<>>)
  BY <1>1, ClientStays
<1>2. CASE p.state = "WAIT_CHANGECIPHERSPEC" /\ Proceed("C", q, <<>>)
  <2>1. DOMAIN p = Fields
    BY DEF ClientInv
  <2>2. /\ DOMAIN q = Fields /\ q.state = "WAIT_FINISHED" /\ q.cipher = p.cipher
        /\ q.tmp = p.tmp /\ q.pub = p.pub /\ q.own = p.own /\ q.eph = p.eph
        /\ q.sig = p.sig
    BY <2>1 DEF Fields
  <2> HIDE DEF q
  <2>3. ClientInv(q, d)
    BY <1>2, <2>2 DEF ClientInv, KeyedStates
  <2> QED BY <1>2, <2>3, GoodEmpty DEF ClientResult
<1> QED BY <1>1, <1>2 DEF HandleCcs

LEMMA ClientGone ==
    ASSUME NEW d, NEW out, GoodSeq("S", out), Proceed("C", NoPeer, out)
    PROVE  ClientResult(d)
  BY NoPeerClient DEF ClientResult

LEMMA ClientDiscards == ASSUME NEW d, Discard("C") PROVE ClientResult(d)
<1>1. GoodSeq("S", <<AlertMsg("fatal")>>)
  BY PlainMessages, GoodOne DEF Endpoint
<1> QED BY <1>1, ClientGone DEF Discard

LEMMA ClientFinishedKeeps ==
    ASSUME NEW p, NEW d, ClientInv(p, d), NEW b, HandleFinished("C", p, b)
    PROVE  ClientResult(d)
<1> DEFINE q == [p EXCEPT !.state = "CONNECTED", !.hs = FALSE]
<1>1. CASE p.state = "WAIT_FINISHED" /\ Proceed("C", q, <<>>)
  <2>1. DOMAIN p = Fields
    BY DEF ClientInv
  <2>2. /\ DOMAIN q = Fields /\ q.state = "CONNECTED" /\ q.cipher = p.cipher
        /\ q.tmp = p.tmp /\ q.pub = p.pub /\ q.own = p.own /\ q.eph = p.eph
        /\ q.sig = p.sig
    BY <2>1 DEF Fields
  <2> HIDE DEF q
  <2>3. ClientInv(q, d)
    BY <1>1, <2>2 DEF ClientInv, KeyedStates
  <2> QED BY <1>1, <2>3, GoodEmpty DEF ClientResult
<1>2. CASE Fail("C", p, <<>>)
  BY <1>2, ClientFails, GoodEmpty
<1>3. CASE Proceed("C", p, <<>>)
  BY <1>3, ClientStays
<1>4. CASE Discard("C")
  BY <1>4, ClientDiscards
<1> QED BY <1>1, <1>2, <1>3, <1>4 DEF HandleFinished, InUse

\* dtls_handle_message() of a client.
LEMMA ClientHandles ==
    ASSUME NEW p, NEW d, ClientInv(p, d), NEW m, Good("C", m), Handle("C", p, m)
    PROVE  ClientResult(d)
<1>1. m.typ \in ToClient
  BY DEF Good
<1>2. m.typ # "CH" /\ m.typ # "CKX" /\ m.typ # "CV"
  BY <1>1 DEF ToClient
<1>3. CASE m.typ = "HVR" /\ HandleHelloVerify(p, m.body)
  BY <1>3, HelloVerifyKeeps
<1>4. CASE m.typ = "SH" /\ HandleServerHello(p, m.body)
  BY <1>4, ServerHelloKeeps
<1>5. CASE m.typ = "CERT" /\ HandleCertificate("C", p, m.body)
  BY <1>5, ServerCertificateKeeps
<1>6. CASE m.typ = "SKX" /\ HandleKeyExchangeEcdh(p, m.body)
  BY <1>6, KeyExchangeKeeps
<1>7. CASE m.typ = "SKX" /\ HandleKeyExchangePsk(p, m.body)
  BY <1>7, HintKeeps
<1>8. CASE m.typ = "SKX" /\ HandleKeyExchangeNone(p)
  BY <1>8, NoSuiteKeeps
<1>9. CASE m.typ = "CREQ" /\ HandleCertificateRequest(p, m.body)
  BY <1>9, RequestKeeps
<1>10. CASE m.typ = "SHD" /\ HandleHelloDone(p)
  BY <1>10, HelloDoneKeeps
<1>11. CASE m.typ = "CCS" /\ HandleCcs("C", p)
  BY <1>11, ClientCcsKeeps
<1>12. CASE m.typ = "FIN" /\ HandleFinished("C", p, m.body)
  BY <1>12, ClientFinishedKeeps
<1>13. CASE m.typ = "ALERT" /\ HandleAlert("C", p, m.body)
  BY <1>13, ClientStays, ClientGone, GoodEmpty DEF HandleAlert
<1>14. CASE Fail("C", p, <<>>) \/ Proceed("C", p, <<>>)
  BY <1>14, ClientFails, ClientStays, GoodEmpty
<1> QED BY <1>2, <1>3, <1>4, <1>5, <1>6, <1>7, <1>8, <1>9, <1>10, <1>11, <1>12, <1>13,
          <1>14 DEF Handle


-----------------------------------------------------------------------------
(* The server *)

\* What a handler of the server leaves behind.
ServerResult ==
    \E q, out :
        /\ Become("S", q, out)
        /\ ServerInv(q) /\ Choice(q) /\ GoodSeq("C", out)
        /\ UNCHANGED drawn \/ drawn' = [drawn EXCEPT !["S"] = drawn["S"] + 1]

LEMMA ServerProceeds ==
    ASSUME NEW q, ServerInv(q), Choice(q), NEW out, GoodSeq("C", out), Proceed("S", q, out)
    PROVE  ServerResult
  BY DEF Proceed, ServerResult

LEMMA ServerCloses ==
    ASSUME NEW p, DOMAIN p = Fields, p.cipher \in Suite \cup {"NULL"},
           p.sec.cipher \in Suite \cup {"NULL"}
    PROVE  ServerInv(Closing(p)) /\ Choice(Closing(p))
<1>1. /\ DOMAIN Closing(p) = Fields /\ Closing(p).state = "CLOSING"
      /\ Closing(p).cipher = p.cipher /\ Closing(p).sec = p.sec
  BY DEF Closing, Fields
<1> QED BY <1>1 DEF ServerInv, Choice, KeyedStates

LEMMA ServerFails ==
    ASSUME NEW p, DOMAIN p = Fields, p.cipher \in Suite \cup {"NULL"},
           p.sec.cipher \in Suite \cup {"NULL"}, Fail("S", p, <<>>)
    PROVE  ServerResult
<1>1. ServerInv(Closing(p)) /\ Choice(Closing(p))
  BY ServerCloses
<1>2. GoodSeq("C", <<>> \o <<AlertMsg("fatal")>>)
  BY GoodEmpty, AlertAfter DEF Endpoint
<1> QED BY <1>1, <1>2, ServerProceeds DEF Fail

LEMMA ServerStays ==
    ASSUME NEW p, ServerInv(p), Choice(p), Proceed("S", p, <<>>) PROVE ServerResult
  BY GoodEmpty, ServerProceeds

LEMMA NoPeerServer == ServerInv(NoPeer) /\ Choice(NoPeer)
  BY NoPeerFields DEF ServerInv, Choice, NoPeer, NoSession

LEMMA ClientCertificateKeeps ==
    ASSUME NEW p, ServerInv(p), Choice(p), NEW b, HandleCertificate("S", p, b)
    PROVE  ServerResult
<1> DEFINE p1 == [p EXCEPT !.pub = b.key]
           q == [p1 EXCEPT !.state = "WAIT_CLIENTKEYEXCHANGE"]
<1>0. /\ DOMAIN p = Fields /\ p.state = "WAIT_CLIENTCERTIFICATE"
      /\ p.cipher \in Suite \cup {"NULL"} /\ p.sec.cipher \in Suite \cup {"NULL"}
  BY DEF ServerInv, HandleCertificate
<1>1. CASE b.key = "trusted" /\ Proceed("S", q, <<>>)
  <2>1. /\ DOMAIN q = Fields /\ q.state = "WAIT_CLIENTKEYEXCHANGE" /\ q.pub = "trusted"
        /\ q.cipher = p.cipher /\ q.sec = p.sec /\ q.hello = p.hello
    BY <1>0, <1>1 DEF Fields
  <2> HIDE DEF q
  <2>2. ServerInv(q)
    BY <1>0, <2>1 DEF ServerInv, KeyedStates
  <2>3. Choice(q)
    BY <1>0, <2>1 DEF Choice
  <2> QED BY <1>1, <2>2, <2>3, GoodEmpty, ServerProceeds
<1>2. CASE Fail("S", p1, <<>>)
  <2>1. DOMAIN p1 = Fields /\ p1.cipher = p.cipher /\ p1.sec = p.sec
    BY <1>0 DEF Fields
  <2> HIDE DEF p1
  <2> QED BY <1>0, <1>2, <2>1, ServerFails
<1>3. CASE Fail("S", p, <<>>)
  BY <1>0, <1>3, ServerFails
<1> QED BY <1>1, <1>2, <1>3 DEF HandleCertificate

LEMMA HelloVerifyAnswers ==
    ASSUME NEW p, ServerInv(p), Choice(p), NEW b, SendHelloVerify(p, b)
    PROVE  ServerResult
<1> DEFINE m == HelloVerify(dtls_create_cookie(b.hello), "good")
<1>1. Good("C", m)
  BY DEF Good, ToClient, HelloVerify, Msg
<1>2. Proceed("S", p, <<m>>)
  BY DEF SendHelloVerify
<1> HIDE DEF m
<1> QED BY <1>1, <1>2, GoodOne, ServerProceeds

LEMMA ClientKeyExchangeKeeps ==
    ASSUME NEW p, ServerInv(p), Choice(p), NEW b, HandleClientKeyExchange(p, b)
    PROVE  ServerResult
<1> DEFINE p1 == IF p.cipher = "PSK" THEN [p EXCEPT !.id = b.id] ELSE [p EXCEPT !.eph = b.eph]
           q == [p1 EXCEPT !.state = AfterKeyExchange(p, Cb("S"))]
<1>0. /\ DOMAIN p = Fields /\ p.state = "WAIT_CLIENTKEYEXCHANGE"
      /\ p.cipher \in Suite \cup {"NULL"} /\ p.sec.cipher \in Suite \cup {"NULL"}
  BY DEF ServerInv, HandleClientKeyExchange
<1>1. CASE Proceed("S", q, <<>>)
  <2>1. /\ DOMAIN p1 = Fields /\ p1.pub = p.pub
        /\ p1.cipher = p.cipher /\ p1.sec = p.sec /\ p1.hello = p.hello
    BY <1>0 DEF Fields
  <2> HIDE DEF p1
  <2>2. /\ DOMAIN q = Fields /\ q.state = AfterKeyExchange(p, Cb("S")) /\ q.pub = p.pub
        /\ q.cipher = p.cipher /\ q.sec = p.sec /\ q.hello = p.hello
    BY <2>1 DEF Fields
  <2> HIDE DEF q
  <2>3. p.cipher = "ECDHE" /\ is_ecdsa_client_auth_supported(Cb("S")) =>
          q.state = "WAIT_CERTIFICATEVERIFY" /\ q.pub = "trusted"
    BY <1>0, <2>2 DEF AfterKeyExchange, ServerInv
  <2>4. ServerInv(q)
    BY <1>0, <2>2, <2>3 DEF ServerInv, KeyedStates
  <2>5. Choice(q)
    BY <1>0, <2>2 DEF Choice
  <2> QED BY <1>1, <2>4, <2>5, GoodEmpty, ServerProceeds
<1>2. CASE Fail("S", p, <<>>)
  BY <1>0, <1>2, ServerFails
<1> QED BY <1>1, <1>2 DEF HandleClientKeyExchange

LEMMA CertificateVerifyKeeps ==
    ASSUME NEW p, ServerInv(p), Choice(p), NEW b, HandleCertificateVerify(p, b)
    PROVE  ServerResult
<1> DEFINE q == [p EXCEPT !.state = "WAIT_CHANGECIPHERSPEC", !.cv = b.sig]
<1>0. /\ DOMAIN p = Fields /\ p.state = "WAIT_CERTIFICATEVERIFY"
      /\ p.cipher \in Suite \cup {"NULL"} /\ p.sec.cipher \in Suite \cup {"NULL"}
  BY DEF ServerInv, HandleCertificateVerify
<1>1. CASE /\ b.sig = [key |-> p.pub, over |-> Transcript(p)]
           /\ Proceed("S", q, <<>>)
  <2>1. /\ DOMAIN q = Fields /\ q.state = "WAIT_CHANGECIPHERSPEC" /\ q.cv = b.sig
        /\ q.pub = p.pub /\ q.eph = p.eph
        /\ q.cipher = p.cipher /\ q.sec = p.sec /\ q.hello = p.hello
    BY <1>0 DEF Fields
  <2> HIDE DEF q
  <2>2. q.cv.key = q.pub /\ q.cv.over[3] = q.eph
    BY <1>1, <2>1 DEF Transcript
  <2>3. p.cipher = "ECDHE" /\ is_ecdsa_client_auth_supported(Cb("S")) => q.pub = "trusted"
    BY <1>0, <2>1 DEF ServerInv
  <2>4. ServerInv(q)
    BY <1>0, <2>1, <2>2, <2>3 DEF ServerInv, KeyedStates
  <2>5. Choice(q)
    BY <1>0, <2>1 DEF Choice
  <2> QED BY <1>1, <2>4, <2>5, GoodEmpty, ServerProceeds
<1>2. CASE Fail("S", p, <<>>)
  BY <1>0, <1>2, ServerFails
<1> QED BY <1>1, <1>2 DEF HandleCertificateVerify

LEMMA ServerDiscards == ASSUME Discard("S") PROVE ServerResult
<1>1. GoodSeq("C", <<AlertMsg("fatal")>>)
  BY PlainMessages, GoodOne DEF Endpoint
<1> QED BY <1>1, NoPeerServer, ServerProceeds DEF Discard

\* A step within the states in which keys are used.
LEMMA StillKeyed ==
    ASSUME NEW p, ServerInv(p), Choice(p), p.state \in KeyedStates,
           NEW q, DOMAIN q = Fields, q.state \in KeyedStates,
           q.cipher = p.cipher, q.sec.cipher \in Suite \cup {"NULL"},
           q.sec.cipher \in {p.sec.cipher, p.cipher}, q.pub = p.pub,
           q.cv = p.cv, q.eph = p.eph, q.hello = p.hello
    PROVE  ServerInv(q) /\ Choice(q)
<1>1. p.state # "CLOSING"
  BY DEF KeyedStates
<1>2. q.state # "WAIT_CLIENTKEYEXCHANGE" /\ q.state # "WAIT_CERTIFICATEVERIFY"
  BY DEF KeyedStates
<1>3. ServerInv(q)
  BY <1>2 DEF ServerInv
<1>4. Choice(q)
  BY <1>1 DEF Choice
<1> QED BY <1>3, <1>4

LEMMA ServerCcsKeeps ==
    ASSUME NEW p, ServerInv(p), Choice(p), HandleCcs("S", p)
    PROVE  ServerResult
<1> DEFINE q == [Keyed(p) EXCEPT !.state = "WAIT_FINISHED"]
<1>1. CASE Proceed("S", p, <<>>)
  BY <1>1, ServerStays
<1>2. CASE Discard("S")
  BY <1>2, ServerDiscards
<1>3. CASE p.state = "WAIT_CHANGECIPHERSPEC" /\ Proceed("S", q, <<>>)
  <2>1. DOMAIN p = Fields /\ p.sec.cipher \in Suite \cup {"NULL"}
    BY DEF ServerInv
  <2>2. /\ DOMAIN q = Fields /\ q.state = "WAIT_FINISHED" /\ q.cipher = p.cipher
        /\ q.sec = p.sec /\ q.pub = p.pub /\ q.cv = p.cv /\ q.eph = p.eph
        /\ q.hello = p.hello
    BY <2>1 DEF Keyed, Fields
  <2> HIDE DEF q
  <2>3. p.state \in KeyedStates /\ q.state \in KeyedStates
    BY <1>3, <2>2 DEF KeyedStates
  <2>4. ServerInv(q) /\ Choice(q)
    BY <2>1, <2>2, <2>3, StillKeyed
  <2> QED BY <1>3, <2>4, GoodEmpty, ServerProceeds
<1> QED BY <1>1, <1>2, <1>3 DEF HandleCcs

LEMMA ServerFinishedKeeps ==
    ASSUME NEW p, ServerInv(p), Choice(p), NEW b, HandleFinished("S", p, b)
    PROVE  ServerResult
<1> DEFINE q == [Switched(p) EXCEPT !.state = "CONNECTED", !.hs = FALSE]
           out == <<Ccs, FinishedMsg(p.tmp, "good")>>
<1>0. /\ DOMAIN p = Fields
      /\ p.cipher \in Suite \cup {"NULL"} /\ p.sec.cipher \in Suite \cup {"NULL"}
  BY DEF ServerInv
<1>1. CASE p.state = "WAIT_FINISHED" /\ Proceed("S", q, out)
  <2>1. /\ DOMAIN q = Fields /\ q.state = "CONNECTED" /\ q.cipher = p.cipher
        /\ q.sec = [cipher |-> p.cipher, master |-> p.tmp]
        /\ q.pub = p.pub /\ q.cv = p.cv /\ q.eph = p.eph /\ q.hello = p.hello
    BY <1>0 DEF Switched, Fields
  <2> HIDE DEF q
  <2>2. q.sec.cipher \in Suite \cup {"NULL"}
    BY <1>0, <2>1
  <2>3. p.state \in KeyedStates /\ q.state \in KeyedStates
    BY <1>1, <2>1 DEF KeyedStates
  <2>4. ServerInv(q) /\ Choice(q)
    BY <2>1, <2>2, <2>3, StillKeyed
  <2>5. GoodSeq("C", out)
    BY PlainMessages, GoodThree DEF Endpoint
  <2> HIDE DEF out
  <2> QED BY <1>1, <2>4, <2>5, ServerProceeds
<1>2. CASE Fail("S", p, <<>>)
  BY <1>0, <1>2, ServerFails
<1>3. CASE Proceed("S", p, <<>>)
  BY <1>3, ServerStays
<1>4. CASE Discard("S")
  BY <1>4, ServerDiscards
<1> QED BY <1>1, <1>2, <1>3, <1>4 DEF HandleFinished, InUse


LEMMA LeastIndex ==
    ASSUME NEW T \in SUBSET Nat, T # {}
    PROVE  \E m \in T : \A n \in T : m <= n
<1> DEFINE R == OpToRel(<, Nat)
<1>1. IsWellFoundedOn(R, Nat)
  BY NatLessThanWellFounded
<1>2. \A x, y \in Nat : x < y => <<x, y>> \in R
  BY DEF OpToRel
<1> HIDE DEF R
<1>3. PICK m \in T : \A n \in T : ~(<<n, m>> \in R)
  BY <1>1, WFMin
<1>4. \A n \in T : ~(n < m)
  BY <1>2, <1>3
<1>5. \A n \in T : n \in Nat /\ m \in Nat
  OBVIOUS
<1> QED BY <1>3, <1>4, <1>5

\* dtls_update_parameters() takes the first suite of the list that it knows.
LEMMA ChosenIsFirst ==
    ASSUME NEW p, p.sec.cipher \in Suite \cup {"NULL"}, NEW h, NEW hello, HelloOk(hello)
    PROVE  /\ Chosen(p, h, hello) \in Suite \cup {"NULL"}
           /\ hello.list /\ Chosen(p, h, hello) # "NULL" =>
                \E i \in DOMAIN hello.suites :
                   /\ hello.suites[i] = Chosen(p, h, hello)
                   /\ known_cipher(h, hello.suites[i], FALSE)
                   /\ \A j \in 1..(i - 1) : ~known_cipher(h, hello.suites[j], FALSE)
<1> DEFINE known == {i \in DOMAIN hello.suites : known_cipher(h, hello.suites[i], FALSE)}
           c == Chosen(p, h, hello)
<1>1. PICK n \in Nat : DOMAIN hello.suites = 1..n
  BY DEF HelloOk
<1>2. CASE ~hello.list
  BY <1>2 DEF Chosen
<1>3. CASE hello.list /\ known = {}
  BY <1>3 DEF Chosen
<1>4. CASE hello.list /\ known # {}
  <2> DEFINE k == CHOOSE i \in known : \A j \in known : i <= j
  <2>1. c = hello.suites[k]
    <3>1. c = IF ~hello.list THEN p.sec.cipher
              ELSE IF known = {} THEN "NULL" ELSE hello.suites[k]
      BY DEF Chosen
    <3> HIDE DEF c, known, k
    <3> QED BY <1>4, <3>1
  <2>2. known \in SUBSET Nat
    <3>1. known \subseteq DOMAIN hello.suites
      OBVIOUS
    <3>2. 1..n \subseteq Nat
      OBVIOUS
    <3> HIDE DEF known
    <3> QED BY <1>1, <3>1, <3>2
  <2>3. k \in known /\ \A j \in known : k <= j
    <3> HIDE DEF known
    <3> QED BY <1>4, <2>2, LeastIndex
  <2>4. c = hello.suites[k]
    BY <2>1
  <2> HIDE DEF k, c
  <2>5. k \in 1..n /\ known_cipher(h, hello.suites[k], FALSE)
    BY <1>1, <2>3
  <2>6. \A j \in 1..(k - 1) : ~known_cipher(h, hello.suites[j], FALSE)
    <3> SUFFICES ASSUME NEW j \in 1..(k - 1), known_cipher(h, hello.suites[j], FALSE)
                 PROVE  FALSE
      OBVIOUS
    <3>1. j \in 1..n /\ ~(k <= j)
      BY <2>5
    <3>2. j \in known
      BY <1>1, <3>1
    <3> QED BY <2>3, <3>1, <3>2
  <2>7. c \in Suite
    BY <2>4, <2>5 DEF known_cipher, Suite
  <2>8. \E i \in DOMAIN hello.suites :
          /\ hello.suites[i] = c
          /\ known_cipher(h, hello.suites[i], FALSE)
          /\ \A j \in 1..(i - 1) : ~known_cipher(h, hello.suites[j], FALSE)
    BY <1>1, <2>4, <2>5, <2>6
  <2>9. c \in Suite \cup {"NULL"}
    BY <2>7
  <2> QED BY <2>8, <2>9 DEF c
<1> QED BY <1>2, <1>3, <1>4

LEMMA FlightIsGood ==
    ASSUME NEW p, NEW sr PROVE GoodSeq("C", HelloFlight(p, sr))
<1> DEFINE a == <<ServerHello(sr, p.cipher, "good")>>
           b == IF p.cipher = "PSK" /\ conf.hint = "some"
                THEN <<KeyExchangeHint("good")>> ELSE <<>>
           c == <<Done>>
<1>1. /\ Good("C", ServerHello(sr, p.cipher, "good")) /\ Good("C", KeyExchangeHint("good"))
      /\ Good("C", Done)
  BY DEF Good, ToClient, ServerHello, KeyExchangeHint, Done, Msg
<1>2. GoodSeq("C", a) /\ GoodSeq("C", b) /\ GoodSeq("C", c)
  BY <1>1, GoodOne, GoodEmpty
<1>3. HelloFlight(p, sr) = (a \o b) \o c
  BY DEF HelloFlight
<1> HIDE DEF a, b, c
<1>4. GoodSeq("C", a \o b)
  BY <1>2, GoodConcat
<1>5. GoodSeq("C", (a \o b) \o c)
  BY <1>2, <1>4, GoodConcat
<1> QED BY <1>3, <1>5

LEMMA ClientHelloKeeps ==
    ASSUME NEW p, ServerInv(p), Choice(p), p = pr["S"], NEW b, HelloOk(b.hello),
           AcceptHello(p, b)
    PROVE  ServerResult
<1> DEFINE sr == drawn["S"] + 1
           h  == Cb("S")
           w  == WithHandshake(p)
           c  == Chosen(p, h, b.hello)
           p1 == [w EXCEPT !.tmp = <<b.hello.cr, 0>>, !.cipher = c, !.hello = <<b.hello>>]
           p2 == [p1 EXCEPT !.tmp = <<b.hello.cr, sr>>,
                            !.state = IF p1.cipher = "ECDHE"
                                         /\ is_ecdsa_client_auth_supported(h)
                                      THEN "WAIT_CLIENTCERTIFICATE"
                                      ELSE "WAIT_CLIENTKEYEXCHANGE"]
<1>0. DOMAIN p = Fields /\ p.sec.cipher \in Suite \cup {"NULL"}
  BY DEF ServerInv
<1>1. DOMAIN w = Fields /\ w.sec = p.sec
  BY <1>0, NoPeerFields DEF WithHandshake, NewHandshake, Fields
<1>2. /\ c \in Suite \cup {"NULL"}
      /\ b.hello.list /\ c # "NULL" =>
            \E i \in DOMAIN b.hello.suites :
               /\ b.hello.suites[i] = c
               /\ known_cipher(h, b.hello.suites[i], FALSE)
               /\ \A j \in 1..(i - 1) : ~known_cipher(h, b.hello.suites[j], FALSE)
  BY <1>0, ChosenIsFirst
<1>3. \/ \E level : Proceed("S", Closing(p1), <<AlertMsg(level)>>)
      \/ /\ ParametersOk(p, h, b.hello)
         /\ drawn' = [drawn EXCEPT !["S"] = sr]
         /\ \/ Become("S", Closing(p1), <<ServerHello(sr, p1.cipher, "good"),
                                          AlertMsg("fatal")>>)
            \/ Become("S", p2, HelloFlight(p1, sr))
  BY DEF AcceptHello
<1>4. ParametersOk(p, h, b.hello) =>
        /\ c # "NULL"
        /\ b.hello.list => \/ b.hello.comp = "absent"
                           \/ b.hello.comp = "null" /\ dtls_check_tls_extension(c, b.hello.ext)
  BY DEF ParametersOk
<1> HIDE DEF w, c, h
<1>5. /\ DOMAIN p1 = Fields /\ p1.cipher = c /\ p1.sec = p.sec /\ p1.hello = <<b.hello>>
  BY <1>1 DEF Fields
<1> HIDE DEF p1
<1>6. ServerInv(Closing(p1)) /\ Choice(Closing(p1))
  BY <1>0, <1>2, <1>5, ServerCloses
<1>7. CASE \E level : Proceed("S", Closing(p1), <<AlertMsg(level)>>)
  <2>1. PICK level : Proceed("S", Closing(p1), <<AlertMsg(level)>>)
    BY <1>7
  <2>2. GoodSeq("C", <<AlertMsg(level)>>)
    BY PlainMessages, GoodOne DEF Endpoint
  <2> QED BY <1>6, <2>1, <2>2, ServerProceeds
<1>8. CASE /\ drawn' = [drawn EXCEPT !["S"] = sr]
           /\ Become("S", Closing(p1), <<ServerHello(sr, p1.cipher, "good"),
                                         AlertMsg("fatal")>>)
  <2>1. Good("C", ServerHello(sr, p1.cipher, "good")) /\ Good("C", AlertMsg("fatal"))
    BY PlainMessages DEF Good, ToClient, ServerHello, Msg, Endpoint
  <2>2. GoodSeq("C", <<ServerHello(sr, p1.cipher, "good"), AlertMsg("fatal")>>)
    BY <2>1, GoodThree
  <2> QED BY <1>6, <1>8, <2>2 DEF ServerResult
<1>9. CASE /\ ParametersOk(p, h, b.hello)
           /\ drawn' = [drawn EXCEPT !["S"] = sr]
           /\ Become("S", p2, HelloFlight(p1, sr))
  <2>1. /\ DOMAIN p2 = Fields /\ p2.cipher = c /\ p2.sec = p.sec /\ p2.hello = <<b.hello>>
        /\ p2.state = IF c = "ECDHE" /\ is_ecdsa_client_auth_supported(h)
                      THEN "WAIT_CLIENTCERTIFICATE" ELSE "WAIT_CLIENTKEYEXCHANGE"
    BY <1>5 DEF Fields
  <2> HIDE DEF p2
  <2>2. ServerInv(p2)
    BY <1>0, <1>2, <2>1 DEF ServerInv, KeyedStates, h
  <2>3. c \in Suite
    BY <1>2, <1>4, <1>9
  <2>4. b.hello.list => \E i \in DOMAIN b.hello.suites :
               /\ b.hello.suites[i] = c
               /\ c = "PSK" => "get_psk_info" \in Cb("S")
               /\ c = "ECDHE" => "get_ecdsa_key" \in Cb("S")
               /\ \A j \in 1..(i - 1) : ~known_cipher(Cb("S"), b.hello.suites[j], FALSE)
    <3> SUFFICES ASSUME b.hello.list
                 PROVE  \E i \in DOMAIN b.hello.suites :
               /\ b.hello.suites[i] = c
               /\ c = "PSK" => "get_psk_info" \in Cb("S")
               /\ c = "ECDHE" => "get_ecdsa_key" \in Cb("S")
               /\ \A j \in 1..(i - 1) : ~known_cipher(Cb("S"), b.hello.suites[j], FALSE)
      OBVIOUS
    <3>1. PICK i \in DOMAIN b.hello.suites :
               /\ b.hello.suites[i] = c
               /\ known_cipher(h, b.hello.suites[i], FALSE)
               /\ \A j \in 1..(i - 1) : ~known_cipher(h, b.hello.suites[j], FALSE)
      BY <1>2, <1>4, <1>9
    <3>2. /\ c = "PSK" => "get_psk_info" \in Cb("S")
          /\ c = "ECDHE" => "get_ecdsa_key" \in Cb("S")
      BY <3>1 DEF known_cipher, is_psk_supported, is_ecdsa_supported, h
    <3> QED BY <3>1, <3>2 DEF h
  <2>5. c = "ECDHE" /\ b.hello.comp = "null" => b.hello.ext = AllExt("good")
    <3> SUFFICES ASSUME c = "ECDHE", b.hello.comp = "null"
                 PROVE  b.hello.ext = AllExt("good")
      OBVIOUS
    <3>1. b.hello.list /\ b.hello.ext = [x \in Ext |-> b.hello.ext[x]]
      BY DEF HelloOk
    <3>2. \A x \in Ext : b.hello.ext[x] = "good"
      BY <1>4, <1>9, <3>1 DEF dtls_check_tls_extension
    <3> QED BY <3>1, <3>2 DEF AllExt
  <2>6. p2.hello # <<>> /\ p2.hello[1] = b.hello
    BY <2>1
  <2>9. ~b.hello.list => c = p.sec.cipher
    BY DEF c, Chosen
  <2>7. Choice(p2)
    BY <2>1, <2>3, <2>4, <2>5, <2>6, <2>9 DEF Choice
  <2>8. GoodSeq("C", HelloFlight(p1, sr))
    BY FlightIsGood
  <2> QED BY <1>9, <2>2, <2>7, <2>8 DEF ServerResult
<1> QED BY <1>3, <1>7, <1>8, <1>9

\* dtls_handle_message() of a server.
LEMMA ServerHandles ==
    ASSUME NEW p, ServerInv(p), Choice(p), p = pr["S"], NEW m, Good("S", m),
           Handle("S", p, m)
    PROVE  ServerResult
<1>1. m.typ \in ToServer /\ (m.typ = "CH" => HelloOk(m.body.hello))
  BY DEF Good
<1>2. /\ m.typ # "HVR" /\ m.typ # "SH" /\ m.typ # "SKX" /\ m.typ # "CREQ" /\ m.typ # "SHD"
  BY <1>1 DEF ToServer
<1>3. CASE m.typ = "CERT" /\ HandleCertificate("S", p, m.body)
  BY <1>3, ClientCertificateKeeps
<1>4. CASE m.typ = "CH" /\ SendHelloVerify(p, m.body)
  BY <1>4, HelloVerifyAnswers
<1>5. CASE m.typ = "CH" /\ AcceptHello(p, m.body)
  BY <1>1, <1>5, ClientHelloKeeps
<1>6. CASE m.typ = "CKX" /\ HandleClientKeyExchange(p, m.body)
  BY <1>6, ClientKeyExchangeKeeps
<1>7. CASE m.typ = "CV" /\ HandleCertificateVerify(p, m.body)
  BY <1>7, CertificateVerifyKeeps
<1>8. CASE m.typ = "CCS" /\ HandleCcs("S", p)
  BY <1>8, ServerCcsKeeps
<1>9. CASE m.typ = "FIN" /\ HandleFinished("S", p, m.body)
  BY <1>9, ServerFinishedKeeps
<1>10. CASE m.typ = "ALERT" /\ HandleAlert("S", p, m.body)
  <2>1. Proceed("S", NoPeer, <<>>) \/ Proceed("S", p, <<>>)
    BY <1>10 DEF HandleAlert
  <2> QED BY <2>1, NoPeerServer, ServerStays
<1>11. CASE Fail("S", p, <<>>) \/ Proceed("S", p, <<>>)
  BY <1>11, ServerFails, ServerStays DEF ServerInv
<1> QED BY <1>2, <1>3, <1>4, <1>5, <1>6, <1>7, <1>8, <1>9, <1>10, <1>11 DEF Handle


-----------------------------------------------------------------------------
(* The inductive invariant *)

LEMMA InitSuites == Init => SuitesInv
<1> SUFFICES ASSUME Init PROVE SuitesInv
  OBVIOUS
<1>1. /\ pr = [e \in Endpoint |-> NoPeer] /\ chan = [e \in Endpoint |-> <<>>]
      /\ drawn = [e \in Endpoint |-> 0]
  BY DEF Init
<1>2. pr["C"] = NoPeer /\ pr["S"] = NoPeer
  BY <1>1 DEF Endpoint
<1>3. \A e \in Endpoint : GoodSeq(e, chan[e])
  BY <1>1, GoodEmpty
<1> QED BY <1>1, <1>2, <1>3, NoPeerClient, NoPeerServer DEF SuitesInv

\* The channels after a message was handled.
LEMMA ChannelsKeep ==
    ASSUME SuitesInv, NEW e \in Endpoint, NEW q, NEW out, GoodSeq(Other(e), out),
           Become(e, q, out), Pair => chan[e] # <<>>
    PROVE  /\ DOMAIN pr' = Endpoint /\ pr'[e] = q /\ pr'[Other(e)] = pr[Other(e)]
           /\ DOMAIN chan' = Endpoint /\ \A x \in Endpoint : GoodSeq(x, chan'[x])
           /\ conf' = conf
<1>1. DOMAIN pr = Endpoint /\ DOMAIN chan = Endpoint /\ \A x \in Endpoint : GoodSeq(x, chan[x])
  BY DEF SuitesInv
<1>2. Other(e) \in Endpoint /\ Other(e) # e /\ \A x \in Endpoint : x = e \/ x = Other(e)
  BY DEF Endpoint, Other
<1>3. pr' = [pr EXCEPT ![e] = q] /\ conf' = conf
  BY DEF Become
<1>4. CASE Pair
  <2>1. chan' = [chan EXCEPT ![e] = Tail(@), ![Other(e)] = @ \o out]
    BY <1>4 DEF Become
  <2>2. /\ DOMAIN chan' = Endpoint /\ chan'[e] = Tail(chan[e])
        /\ chan'[Other(e)] = chan[Other(e)] \o out
    BY <1>1, <1>2, <2>1
  <2>3. GoodSeq(e, Tail(chan[e])) /\ GoodSeq(Other(e), chan[Other(e)] \o out)
    BY <1>1, <1>2, <1>4, GoodHead, GoodConcat
  <2>4. \A x \in Endpoint : GoodSeq(x, chan'[x])
    BY <1>2, <2>2, <2>3
  <2> QED BY <1>1, <1>2, <1>3, <2>2, <2>4
<1>5. CASE ~Pair
  <2>1. chan' = chan
    BY <1>5 DEF Become
  <2> QED BY <1>1, <1>2, <1>3, <2>1
<1> QED BY <1>4, <1>5

LEMMA ClientSteps ==
    ASSUME SuitesInv, ClientResult(drawn["C"]), Pair => chan["C"] # <<>>
    PROVE  SuitesInv'
<1>1. PICK q, out : /\ Proceed("C", q, out) /\ ClientInv(q, drawn["C"])
                    /\ GoodSeq("S", out)
  BY DEF ClientResult
<1>2. "C" \in Endpoint /\ Other("C") = "S"
  BY DEF Endpoint, Other
<1>3. Become("C", q, out) /\ drawn' = drawn
  BY <1>1 DEF Proceed
<1>4. /\ DOMAIN pr' = Endpoint /\ pr'["C"] = q /\ pr'["S"] = pr["S"]
      /\ DOMAIN chan' = Endpoint /\ \A x \in Endpoint : GoodSeq(x, chan'[x])
      /\ conf' = conf
  BY <1>1, <1>2, <1>3, ChannelsKeep
<1>5. ClientInv(pr["C"], drawn["C"])'
  BY <1>1, <1>3, <1>4 DEF ClientInv, Cb
<1>6. ServerInv(pr["S"])' /\ Choice(pr["S"])'
  BY <1>4 DEF SuitesInv, ServerInv, Choice, Cb
<1>7. (drawn \in [Endpoint -> Nat])'
  BY <1>3 DEF SuitesInv
<1>8. (\A e \in Endpoint : GoodSeq(e, chan[e]))'
  BY <1>4 DEF GoodSeq, Good, HelloOk
<1> QED BY <1>4, <1>5, <1>6, <1>7, <1>8 DEF SuitesInv

LEMMA ServerSteps ==
    ASSUME SuitesInv, ServerResult, Pair => chan["S"] # <<>>
    PROVE  SuitesInv'
<1>1. PICK q, out :
        /\ Become("S", q, out)
        /\ ServerInv(q) /\ Choice(q) /\ GoodSeq("C", out)
        /\ UNCHANGED drawn \/ drawn' = [drawn EXCEPT !["S"] = drawn["S"] + 1]
  BY DEF ServerResult
<1>2. "S" \in Endpoint /\ Other("S") = "C"
  BY DEF Endpoint, Other
<1>3. /\ DOMAIN pr' = Endpoint /\ pr'["S"] = q /\ pr'["C"] = pr["C"]
      /\ DOMAIN chan' = Endpoint /\ \A x \in Endpoint : GoodSeq(x, chan'[x])
      /\ conf' = conf
  BY <1>1, <1>2, ChannelsKeep
<1>4. drawn' \in [Endpoint -> Nat] /\ drawn'["C"] = drawn["C"]
  BY <1>1 DEF SuitesInv, Endpoint
<1>5. ServerInv(pr["S"])' /\ Choice(pr["S"])'
  BY <1>1, <1>3 DEF ServerInv, Choice, Cb
<1>6. ClientInv(pr["C"], drawn["C"])'
  BY <1>3, <1>4 DEF SuitesInv, ClientInv, Cb
<1>7. (\A e \in Endpoint : GoodSeq(e, chan[e]))'
  BY <1>3 DEF GoodSeq, Good, HelloOk
<1> QED BY <1>3, <1>4, <1>5, <1>6, <1>7 DEF SuitesInv

LEMMA StartHelloKeeps == ASSUME SuitesInv, StartHello PROVE SuitesInv'
<1> DEFINE cr == drawn["C"] + 1
           n  == NewHandshake(pr["C"])
           q  == [n EXCEPT !.state = "CLIENTHELLO", !.tmp = <<cr, 0>>]
           m  == ClientHello(OwnHello(Cb("C"), cr), NoCookie)
<1>1. /\ pr' = [pr EXCEPT !["C"] = q] /\ drawn' = [drawn EXCEPT !["C"] = cr]
      /\ chan' = IF Pair THEN [chan EXCEPT !["S"] = Append(@, m)] ELSE chan
      /\ conf' = conf
  BY DEF StartHello
<1>2. /\ DOMAIN pr = Endpoint /\ DOMAIN chan = Endpoint /\ drawn \in [Endpoint -> Nat]
      /\ \A e \in Endpoint : GoodSeq(e, chan[e])
      /\ ServerInv(pr["S"]) /\ Choice(pr["S"])
  BY DEF SuitesInv
<1>3. /\ DOMAIN q = Fields /\ q.state = "CLIENTHELLO" /\ q.tmp = <<cr, 0>>
      /\ q.cipher = "NULL"
  <2>1. DOMAIN n = Fields /\ n.cipher = "NULL"
    BY NoPeerFields DEF NewHandshake, Fields, NoPeer
  <2> HIDE DEF n
  <2> QED BY <2>1 DEF Fields
<1> HIDE DEF q
<1>4. cr \in Nat /\ cr >= 1
  BY <1>2 DEF Endpoint
<1>5. drawn' \in [Endpoint -> Nat] /\ drawn'["C"] = cr
  BY <1>1, <1>2, <1>4 DEF Endpoint
<1>6. DOMAIN pr' = Endpoint /\ pr'["C"] = q /\ pr'["S"] = pr["S"]
  BY <1>1, <1>2 DEF Endpoint
<1>7. ClientInv(pr["C"], drawn["C"])'
  <2>1. q.tmp[1] \in 1..cr
    BY <1>3, <1>4
  <2> QED BY <1>3, <1>5, <1>6, <2>1 DEF ClientInv, KeyedStates
<1>8. ServerInv(pr["S"])' /\ Choice(pr["S"])'
  BY <1>1, <1>2, <1>6 DEF ServerInv, Choice, Cb
<1>9. Good("S", m)
  <2> DEFINE h == OwnHello(Cb("C"), cr)
  <2>1. HelloOk(h)
    BY HelloIsOk
  <2> HIDE DEF h
  <2>2. Good("S", ClientHello(h, NoCookie))
    BY <2>1 DEF Good, ToServer, ClientHello, Msg
  <2> QED BY <2>2 DEF h
<1> HIDE DEF m
<1>10. DOMAIN chan' = Endpoint /\ \A e \in Endpoint : GoodSeq(e, chan'[e])
  <2>1. CASE Pair
    <3>1. /\ DOMAIN chan' = Endpoint /\ chan'["S"] = Append(chan["S"], m)
          /\ chan'["C"] = chan["C"]
      BY <1>1, <1>2, <2>1 DEF Endpoint
    <3>2. GoodSeq("S", chan["S"] \o <<m>>)
      BY <1>2, <1>9, GoodOne, GoodConcat DEF Endpoint
    <3>3. Append(chan["S"], m) = chan["S"] \o <<m>>
      <4>1. PICK T : chan["S"] \in Seq(T)
        BY <1>2 DEF GoodSeq, Endpoint
      <4> DEFINE V == T \cup {m}
      <4>2. T \subseteq V /\ m \in V
        OBVIOUS
      <4> HIDE DEF V
      <4>3. chan["S"] \in Seq(V)
        BY <4>1, <4>2, SeqMonotonic
      <4> QED BY <4>2, <4>3, AppendIsConcat
    <3> QED BY <1>2, <3>1, <3>2, <3>3 DEF Endpoint
  <2>2. CASE ~Pair
    BY <1>1, <1>2, <2>2
  <2> QED BY <2>1, <2>2
<1>11. (\A e \in Endpoint : GoodSeq(e, chan[e]))'
  BY <1>10 DEF GoodSeq, Good, HelloOk
<1> QED BY <1>5, <1>6, <1>7, <1>8, <1>10, <1>11 DEF SuitesInv


-----------------------------------------------------------------------------
(* What a foreign peer may send *)

LEMMA FromServerIsGood == \A m \in FromServer(pr["C"]) : Good("C", m)
<1> SUFFICES ASSUME NEW m \in FromServer(pr["C"]) PROVE Good("C", m)
  OBVIOUS
<1>1. m.typ \in ToClient
  BY DEF FromServer, HelloVerify, ServerHello, Certificate, KeyExchangeEcdh, KeyExchangeHint,
         CertificateRequest, Done, Ccs, FinishedMsg, AlertMsg, Msg, ToClient
<1>2. m.typ # "CH"
  BY <1>1 DEF ToClient
<1> QED BY <1>1, <1>2 DEF Good

LEMMA ForeignHelloIsOk == \A h \in ForeignHello : HelloOk(h)
<1> SUFFICES ASSUME NEW h \in ForeignHello PROVE HelloOk(h)
  OBVIOUS
<1>1. h.suites \in Seq(STRING) /\ (~h.list => h.comp # "null")
  <2>1. h.suites \in SuiteLists \cup {<<>>} /\ (~h.list => h.comp # "null")
    BY DEF ForeignHello
  <2>2. <<>> \in Seq(STRING)
    BY EmptySeq
  <2> QED BY <2>1, <2>2, SuitesAssumption
<1>2. \E n \in Nat : DOMAIN h.suites = 1..n
  BY <1>1, LenProperties
<1>3. h.ext \in ForeignExt
  <2>1. AllExt("absent") \in ForeignExt
    BY DEF ForeignExt
  <2>2. h.ext \in ForeignExt \cup {AllExt("absent")}
    BY DEF ForeignHello
  <2> QED BY <2>1, <2>2
<1>4. h.ext = [x \in Ext |-> h.ext[x]]
  BY <1>3 DEF ForeignExt, AllExt
<1> QED BY <1>1, <1>2, <1>4 DEF HelloOk

LEMMA FromClientIsGood == \A m \in FromClient(pr["S"]) : Good("S", m)
<1> SUFFICES ASSUME NEW m \in FromClient(pr["S"]) PROVE Good("S", m)
  OBVIOUS
<1> DEFINE h0 == CHOOSE h \in ForeignHello : ~h.list
<1>1. h0 \in ForeignHello
  <2> DEFINE h == [cr |-> 5, list |-> FALSE, suites |-> <<>>, comp |-> "absent",
                   ext |-> AllExt("absent")]
  <2>1. h \in ForeignHello /\ ~h.list
    BY DEF ForeignHello
  <2> HIDE DEF h
  <2> QED BY <2>1
<1>2. HelloFor(pr["S"]) \subseteq ForeignHello
  BY <1>1 DEF HelloFor
<1> HIDE DEF h0
<1>3. CASE m = ClientHello(h0, NoCookie)
  BY <1>1, <1>3, ForeignHelloIsOk DEF Good, ToServer, ClientHello, Msg
<1>4. CASE \E h \in HelloFor(pr["S"]) : m = ClientHello(h, dtls_create_cookie(h))
  BY <1>2, <1>4, ForeignHelloIsOk DEF Good, ToServer, ClientHello, Msg
<1>5. CASE m.typ \in ToServer \ {"CH"}
  BY <1>5 DEF Good
<1>6. \/ m = ClientHello(h0, NoCookie)
      \/ \E h \in HelloFor(pr["S"]) : m = ClientHello(h, dtls_create_cookie(h))
      \/ m.typ \in ToServer \ {"CH"}
  BY DEF FromClient, Certificate, ClientKeyExchange, CertificateVerify, Ccs, FinishedMsg,
         AlertMsg, Msg, ToServer, h0
<1> QED BY <1>3, <1>4, <1>5, <1>6

LEMMA NextSuites == SuitesInv /\ [Next]_svars => SuitesInv'
<1> SUFFICES ASSUME SuitesInv, [Next]_svars PROVE SuitesInv'
  OBVIOUS
<1>0. /\ ClientInv(pr["C"], drawn["C"]) /\ ServerInv(pr["S"]) /\ Choice(pr["S"])
      /\ \A e \in Endpoint : GoodSeq(e, chan[e])
  BY DEF SuitesInv
<1>1. CASE StartHello
  BY <1>1, StartHelloKeeps
<1>2. CASE ForeignServer
  <2>1. PICK m \in FromServer(pr["C"]) : Handle("C", pr["C"], m)
    BY <1>2 DEF ForeignServer
  <2>2. ClientResult(drawn["C"])
    BY <1>0, <2>1, FromServerIsGood, ClientHandles
  <2>3. ~Pair
    BY <1>2 DEF ForeignServer, Pair
  <2> QED BY <2>2, <2>3, ClientSteps
<1>3. CASE ForeignClient
  <2>1. PICK m \in FromClient(pr["S"]) : Handle("S", pr["S"], m)
    BY <1>3 DEF ForeignClient
  <2>2. ServerResult
    BY <1>0, <2>1, FromClientIsGood, ServerHandles
  <2>3. ~Pair
    BY <1>3 DEF ForeignClient, Pair
  <2> QED BY <2>2, <2>3, ServerSteps
<1>4. CASE Deliver("C")
  <2>1. chan["C"] # <<>> /\ Handle("C", pr["C"], Head(chan["C"]))
    BY <1>4 DEF Deliver
  <2>2. Good("C", Head(chan["C"]))
    BY <1>0, <2>1, GoodHead DEF Endpoint
  <2>3. ClientResult(drawn["C"])
    BY <1>0, <2>1, <2>2, ClientHandles
  <2> QED BY <2>1, <2>3, ClientSteps
<1>5. CASE Deliver("S")
  <2>1. chan["S"] # <<>> /\ Handle("S", pr["S"], Head(chan["S"]))
    BY <1>5 DEF Deliver
  <2>2. Good("S", Head(chan["S"]))
    BY <1>0, <2>1, GoodHead DEF Endpoint
  <2>3. ServerResult
    BY <1>0, <2>1, <2>2, ServerHandles
  <2> QED BY <2>1, <2>3, ServerSteps
<1>6. CASE UNCHANGED svars
  <2>1. pr' = pr /\ chan' = chan /\ conf' = conf /\ drawn' = drawn
    BY <1>6 DEF svars
  <2> QED BY <2>1, ZenonT(40) DEF SuitesInv, ClientInv, ServerInv, Choice, Cb, GoodSeq, Good, HelloOk
<1> QED BY <1>1, <1>2, <1>3, <1>4, <1>5, <1>6 DEF Next, Endpoint

-----------------------------------------------------------------------------
(* Theorems *)

\* dtls_handle_message() with any configuration of callbacks and any peer: each
\* state of the client and of the server stands for the checks made so far, and
\* the server has a suite of its own choice.
THEOREM SuitesInvariant == Spec => []SuitesInv
  BY InitSuites, NextSuites, PTL DEF Spec

\* check_server_certificate(), check_server_key_exchange_ecdsa() and
\* check_server_hellodone(): a client uses ECDHE keys only after a certificate
\* its application accepted has signed both randoms and the ephemeral key.
THEOREM ServerIsAuthenticated == Spec => []ServerAuthenticated
<1>1. SuitesInv => ServerAuthenticated
  BY DEF SuitesInv, ClientInv, ServerAuthenticated
<1> QED BY <1>1, SuitesInvariant, PTL

\* check_client_certificate_verify(): a server whose application can authenticate
\* clients uses ECDHE keys only after the client has signed this handshake.
THEOREM ClientIsAuthenticated == Spec => []ClientAuthenticated
<1>1. SuitesInv => ClientAuthenticated
  BY DEF SuitesInv, ServerInv, ClientAuthenticated
<1> QED BY <1>1, SuitesInvariant, PTL

\* dtls_update_parameters(): whatever list of suites and extensions a ClientHello
\* has, the server goes on only with the first suite that it supports itself.
THEOREM ServerChoosesFirst == Spec => []ServerChoice
<1>1. SuitesInv => ServerChoice
  BY DEF SuitesInv, Choice, ServerChoice
<1> QED BY <1>1, SuitesInvariant, PTL

-----------------------------------------------------------------------------
(* A pair: which random of the server each message and each key belongs to *)

Waiting == {"WAIT_SERVERCERTIFICATE", "WAIT_SERVERKEYEXCHANGE", "WAIT_SERVERHELLODONE"}
NotYet == {"WAIT_CLIENTCERTIFICATE", "WAIT_CLIENTKEYEXCHANGE", "WAIT_CERTIFICATEVERIFY",
           "WAIT_CHANGECIPHERSPEC"}
Ended == {"INIT", "CLOSING"}

\* The random of the server that a client works with; 0: none.
Sr(p) == IF p.cipher = "NULL" THEN 0
         ELSE IF p.state \in Waiting THEN p.tmp[2]
         ELSE IF p.state \in KeyedStates THEN p.tmp[2][2]
         ELSE 0

\* A client, when d randoms of the server have been drawn.
ClientPair(p, d) ==
    /\ p.cipher # "NULL" => known_cipher(Cb("C"), p.cipher, TRUE)
    /\ p.state \in KeyedStates =>
           p.cipher # "NULL" /\ p.sec = [cipher |-> p.cipher, master |-> p.tmp]
    /\ p.cipher # "NULL" /\ p.state \in Waiting \cup KeyedStates => Sr(p) \in 1..d

\* A server that has not ended works with its last random.
ServerPair(p, d) ==
    /\ p.state \in Ended \cup NotYet \cup {"WAIT_FINISHED", "CONNECTED"}
    /\ p.state \in NotYet => p.tmp[2] = d
    /\ p.state \in {"WAIT_FINISHED", "CONNECTED"} => p.tmp[2][2] = d
    /\ p.state = "CONNECTED" => p.sec = [cipher |-> p.cipher, master |-> p.tmp]
    /\ p.state \notin Ended => p.hello # <<>> /\ p.hello[1].list

\* A suite that was sent with the last random.
Agrees(cipher, s) == s.state \in Ended \/ cipher = s.cipher

\* A master secret that the server has finished with.
Claim(m, s, d) ==
    /\ m[2][2] \in 0..d
    /\ m[2][2] = d => s.state \in Ended \/ (s.state = "CONNECTED" /\ m = s.tmp)

ToClientPair(m, s, d) ==
    /\ m.typ = "SH" => m.body.sr \in 1..d /\ (m.body.sr = d => Agrees(m.body.cipher, s))
    /\ m.typ = "FIN" => Claim(m.body.master, s, d)

\* The client has seen the last random of the server, or none.
Quiet(c, cc, d) ==
    /\ Sr(c) \in {0, d}
    /\ \A i \in 1..Len(cc) : cc[i].typ # "SH"

ToServerPair(m, c, cc, d) ==
    /\ m.typ = "CH" => m.body.hello.list
    /\ m.typ = "FIN" =>
        m.body.master[2][2] \in 0..d /\ (m.body.master[2][2] = d => Quiet(c, cc, d))

\* ServerHellos arrive in the order of their randoms, after the client's.
Rising(cc, r) ==
    /\ \A i \in 1..Len(cc) : cc[i].typ = "SH" => r < cc[i].body.sr
    /\ \A i, j \in 1..Len(cc) :
           i < j /\ cc[i].typ = "SH" /\ cc[j].typ = "SH" => cc[i].body.sr < cc[j].body.sr

PairState(c, s, cc, cs, d) ==
    /\ ClientPair(c, d) /\ ServerPair(s, d)
    /\ \A i \in 1..Len(cc) : ToClientPair(cc[i], s, d)
    /\ \A i \in 1..Len(cs) : ToServerPair(cs[i], c, cc, d)
    /\ Rising(cc, Sr(c))
    /\ s.state = "CONNECTED" => Quiet(c, cc, d)
    /\ c.state = "CONNECTED" => Claim(c.tmp, s, d)
    /\ Sr(c) = d /\ d # 0 => Agrees(c.cipher, s)

PairInv == Pair => PairState(pr["C"], pr["S"], chan["C"], chan["S"], drawn["S"])

IsSeq(q) == \E T : q \in Seq(T)

LEMMA SeqOfThree ==
    ASSUME NEW a, NEW b, NEW c
    PROVE  IsSeq(<<>>) /\ IsSeq(<<a>>) /\ IsSeq(<<a, b>>) /\ IsSeq(<<a, b, c>>)
<1>1. <<>> \in Seq({}) /\ <<a>> \in Seq({a}) /\ <<a, b>> \in Seq({a, b})
  OBVIOUS
<1>2. <<a, b, c>> \in Seq({a, b, c})
  OBVIOUS
<1> QED BY <1>1, <1>2 DEF IsSeq

LEMMA TailIndex ==
    ASSUME NEW q, IsSeq(q), q # <<>>
    PROVE  /\ IsSeq(Tail(q)) /\ Len(q) \in Nat /\ 1 \in 1..Len(q) /\ Head(q) = q[1]
           /\ \A i \in 1..Len(Tail(q)) : i + 1 \in 1..Len(q) /\ Tail(q)[i] = q[i + 1]
<1>1. PICK T : q \in Seq(T)
  BY DEF IsSeq
<1>2. /\ Tail(q) \in Seq(T) /\ Head(q) = q[1] /\ Len(q) \in Nat /\ Len(q) # 0
      /\ Len(Tail(q)) = Len(q) - 1 /\ \A i \in 1..Len(Tail(q)) : Tail(q)[i] = q[i + 1]
  BY <1>1
<1> QED BY <1>2 DEF IsSeq

LEMMA ConcatIndex ==
    ASSUME NEW a, NEW b, IsSeq(a), IsSeq(b)
    PROVE  /\ IsSeq(a \o b) /\ Len(a) \in Nat
           /\ \A i \in 1..Len(a \o b) :
                \/ i \in 1..Len(a) /\ (a \o b)[i] = a[i]
                \/ i - Len(a) \in 1..Len(b) /\ (a \o b)[i] = b[i - Len(a)]
<1>1. PICK T : a \in Seq(T)
  BY DEF IsSeq
<1>2. PICK U : b \in Seq(U)
  BY DEF IsSeq
<1> DEFINE V == T \cup U
<1>3. a \in Seq(V) /\ b \in Seq(V)
  BY <1>1, <1>2, SeqMonotonic
<1> HIDE DEF V
<1>4. /\ a \o b \in Seq(V) /\ Len(a) \in Nat /\ Len(b) \in Nat
      /\ Len(a \o b) = Len(a) + Len(b)
      /\ \A i \in 1..Len(a \o b) :
            (a \o b)[i] = IF i <= Len(a) THEN a[i] ELSE b[i - Len(a)]
  BY <1>3, ConcatProperties
<1>5. \A i \in 1..Len(a \o b) : i <= Len(a) => i \in 1..Len(a)
  BY <1>4
<1>6. \A i \in 1..Len(a \o b) : ~(i <= Len(a)) => i - Len(a) \in 1..Len(b)
  BY <1>4
<1> QED BY <1>4, <1>5, <1>6 DEF IsSeq

\* Messages that are neither a hello nor a Finished.
Plain(out) == IsSeq(out) /\ \A i \in 1..Len(out) : out[i].typ \notin {"CH", "SH", "FIN"}

LEMMA PlainOne ==
    ASSUME NEW m, m.typ \notin {"CH", "SH", "FIN"} PROVE Plain(<<m>>)
<1> DEFINE a == <<m>>
<1>1. IsSeq(a)
  BY SeqOfThree
<1>2. Len(a) = 1 /\ a[1] = m
  OBVIOUS
<1> HIDE DEF a
<1>3. Plain(a)
  BY <1>1, <1>2 DEF Plain
<1> QED BY <1>3 DEF a

LEMMA PlainAlert ==
    ASSUME NEW out, Plain(out), NEW level
    PROVE  Plain(out \o <<AlertMsg(level)>>)
<1> DEFINE a == <<AlertMsg(level)>>
<1>1. AlertMsg(level).typ \notin {"CH", "SH", "FIN"}
  BY DEF AlertMsg, Msg
<1>2. Plain(a)
  BY <1>1, PlainOne
<1> HIDE DEF a
<1>3. IsSeq(out) /\ IsSeq(a)
  BY <1>2 DEF Plain
<1>4. \A i \in 1..Len(out \o a) : (out \o a)[i].typ \notin {"CH", "SH", "FIN"}
  BY <1>2, <1>3, ConcatIndex DEF Plain
<1>5. Plain(out \o a)
  BY <1>3, <1>4, ConcatIndex DEF Plain
<1> QED BY <1>5 DEF a

LEMMA PlainEmpty == Plain(<<>>)
<1>1. IsSeq(<<>>) /\ Len(<<>>) = 0
  BY SeqOfThree
<1> QED BY <1>1 DEF Plain

-----------------------------------------------------------------------------
(* The client of a pair *)

\* What the client sends while it is q.
FromPair(q, out) ==
    /\ IsSeq(out)
    /\ \A i \in 1..Len(out) :
        /\ out[i].typ = "CH" => out[i].body.hello.list
        /\ out[i].typ = "FIN" => Sr(q) # 0 /\ out[i].body.master[2][2] = Sr(q)

\* The client p becomes q when it handles m.
ClientMove(p, m, q, out, d) ==
    /\ ClientPair(q, d) /\ FromPair(q, out)
    /\ \/ Sr(q) = 0
       \/ Sr(q) = Sr(p) /\ q.cipher = p.cipher
       \/ m.typ = "SH" /\ Sr(q) = m.body.sr /\ q.cipher = m.body.cipher
    /\ q.state = "CONNECTED" =>
        \/ p.state = "CONNECTED" /\ q.tmp = p.tmp
        \/ m.typ = "FIN" /\ q.tmp = m.body.master

LEMMA ClientMoves ==
    ASSUME NEW c, NEW s, NEW cc, NEW cs, NEW d \in Nat, PairState(c, s, cc, cs, d),
           IsSeq(cc), IsSeq(cs), cc # <<>>,
           NEW q, NEW out, ClientMove(c, Head(cc), q, out, d)
    PROVE  PairState(q, s, Tail(cc), cs \o out, d)
<1> DEFINE m == Head(cc)
           tl == Tail(cc)
<1>1. /\ 1 \in 1..Len(cc) /\ m = cc[1]
      /\ \A i \in 1..Len(tl) : i + 1 \in 1..Len(cc) /\ tl[i] = cc[i + 1]
  BY TailIndex
<1>2. ToClientPair(m, s, d)
  BY <1>1 DEF PairState
<1>2a. ClientMove(c, m, q, out, d)
  OBVIOUS
<1> HIDE DEF m, tl
<1>3. Rising(tl, Sr(q))
  <2>1. \A i \in 1..Len(tl) : i \in Int /\ 1 < i + 1
    OBVIOUS
  <2>2. \A i, j \in 1..Len(tl) : i < j => i + 1 < j + 1
    OBVIOUS
  <2>3. \A i, j \in 1..Len(tl) :
            i < j /\ tl[i].typ = "SH" /\ tl[j].typ = "SH" => tl[i].body.sr < tl[j].body.sr
    BY <1>1, <2>2 DEF PairState, Rising
  <2>4. ASSUME NEW i \in 1..Len(tl), tl[i].typ = "SH" PROVE Sr(q) < tl[i].body.sr
    <3>1. i + 1 \in 1..Len(cc) /\ tl[i] = cc[i + 1] /\ cc[i + 1].typ = "SH"
      BY <1>1, <2>4
    <3>2. cc[i + 1].body.sr \in 1..d /\ Sr(c) < cc[i + 1].body.sr
      BY <3>1 DEF PairState, ToClientPair, Rising
    <3>3. CASE Sr(q) = 0
      BY <3>1, <3>2, <3>3
    <3>4. CASE Sr(q) = Sr(c)
      BY <3>1, <3>2, <3>4
    <3>5. CASE m.typ = "SH" /\ Sr(q) = m.body.sr
      BY <1>1, <2>1, <3>1, <3>5 DEF PairState, Rising
    <3> QED BY <1>2a, <3>3, <3>4, <3>5 DEF ClientMove
  <2> QED BY <2>3, <2>4 DEF Rising
<1>4. Quiet(c, cc, d) => Quiet(q, tl, d)
  BY <1>1, <1>2a DEF Quiet, ClientMove
<1>5. ASSUME Sr(q) = d, d # 0 PROVE Quiet(q, tl, d)
  <2>1. ASSUME NEW i \in 1..Len(tl), tl[i].typ = "SH" PROVE FALSE
    <3>1. tl[i].body.sr \in 1..d
      BY <1>1, <2>1 DEF PairState, ToClientPair
    <3>2. Sr(q) < tl[i].body.sr
      BY <1>3, <2>1 DEF Rising
    <3> QED BY <1>5, <3>1, <3>2
  <2> QED BY <1>5, <2>1 DEF Quiet
<1>6. \A i \in 1..Len(cs \o out) : ToServerPair((cs \o out)[i], q, tl, d)
  <2>1. \A i \in 1..Len(cs) : ToServerPair(cs[i], q, tl, d)
    BY <1>4 DEF PairState, ToServerPair
  <2>2. ASSUME NEW i \in 1..Len(out) PROVE ToServerPair(out[i], q, tl, d)
    <3>1. Sr(q) # 0 => Sr(q) \in 1..d
      BY <1>2a DEF ClientMove, ClientPair, Sr
    <3>2. out[i].typ = "FIN" => out[i].body.master[2][2] = Sr(q) /\ Sr(q) \in 1..d
      BY <1>2a, <2>2, <3>1 DEF ClientMove, FromPair
    <3>3. ASSUME out[i].typ = "FIN", out[i].body.master[2][2] = d PROVE Quiet(q, tl, d)
      BY <1>5, <3>2, <3>3
    <3>4. out[i].typ = "CH" => out[i].body.hello.list
      BY <1>2a, <2>2 DEF ClientMove, FromPair
    <3> QED BY <3>2, <3>3, <3>4 DEF ToServerPair
  <2>3. IsSeq(out)
    BY <1>2a DEF ClientMove, FromPair
  <2> QED BY <2>1, <2>2, <2>3, ConcatIndex
<1>7. \A i \in 1..Len(tl) : ToClientPair(tl[i], s, d)
  BY <1>1 DEF PairState
<1>8. q.state = "CONNECTED" => Claim(q.tmp, s, d)
  BY <1>2, <1>2a DEF PairState, ClientMove, ToClientPair
<1>9. Sr(q) = d /\ d # 0 => Agrees(q.cipher, s)
  BY <1>2, <1>2a DEF PairState, ClientMove, ToClientPair
<1>10. ClientPair(q, d) /\ ServerPair(s, d)
  BY <1>2a DEF PairState, ClientMove
<1>11. s.state = "CONNECTED" => Quiet(q, tl, d)
  BY <1>4 DEF PairState
<1> HIDE DEF m
<1>12. PairState(q, s, tl, cs \o out, d)
  BY <1>3, <1>6, <1>7, <1>8, <1>9, <1>10, <1>11 DEF PairState
<1> QED BY <1>12 DEF tl

-----------------------------------------------------------------------------
(* The server of a pair *)

\* The server p becomes q when it handles m, without a random of its own.
ServerMove(p, m, q, out, d) ==
    /\ ServerPair(q, d) /\ IsSeq(out)
    /\ \A i \in 1..Len(out) :
        /\ out[i].typ # "SH"
        /\ out[i].typ = "FIN" => q.state = "CONNECTED" /\ out[i].body.master = q.tmp
    /\ \/ q.state \in Ended
       \/ /\ p.state \notin Ended /\ q.cipher = p.cipher
          /\ p.state = "CONNECTED" => q.state = "CONNECTED" /\ q.tmp = p.tmp
          /\ p.state # "CONNECTED" /\ q.state = "CONNECTED" =>
                m.typ = "FIN" /\ m.body.master[2][2] = d

\* It accepts a hello and draws the random d + 1.
ServerAnswer(q, out, d) ==
    /\ ServerPair(q, d + 1) /\ q.state # "CONNECTED" /\ IsSeq(out)
    /\ \A i \in 1..Len(out) :
        /\ out[i].typ # "FIN"
        /\ out[i].typ = "SH" =>
              i = 1 /\ out[i].body.sr = d + 1 /\ out[i].body.cipher = q.cipher

LEMMA ServerMoves ==
    ASSUME NEW c, NEW s, NEW cc, NEW cs, NEW d \in Nat, PairState(c, s, cc, cs, d),
           IsSeq(cc), IsSeq(cs), cs # <<>>,
           NEW q, NEW out, ServerMove(s, Head(cs), q, out, d)
    PROVE  PairState(c, q, cc \o out, Tail(cs), d)
<1> DEFINE m == Head(cs)
           tl == Tail(cs)
           cx == cc \o out
<1>1. /\ 1 \in 1..Len(cs) /\ m = cs[1]
      /\ \A i \in 1..Len(tl) : i + 1 \in 1..Len(cs) /\ tl[i] = cs[i + 1]
  BY TailIndex
<1>2. ServerMove(s, m, q, out, d) /\ ToServerPair(m, c, cc, d)
  BY <1>1 DEF PairState
<1>3. \A i \in 1..Len(cx) :
        \/ i \in 1..Len(cc) /\ cx[i] = cc[i]
        \/ /\ i - Len(cc) \in 1..Len(out) /\ cx[i] = out[i - Len(cc)]
           /\ cx[i].typ # "SH"
  BY <1>2, ConcatIndex DEF ServerMove
<1> HIDE DEF m, tl, cx
<1>4. \A i \in 1..Len(cx) : cx[i].typ = "SH" => i \in 1..Len(cc) /\ cx[i] = cc[i]
  BY <1>3
<1>5. Rising(cx, Sr(c))
  BY <1>4 DEF PairState, Rising
<1>6. Quiet(c, cc, d) => Quiet(c, cx, d)
  BY <1>4 DEF Quiet
<1>7. \A cipher : Agrees(cipher, s) => Agrees(cipher, q)
  BY <1>2 DEF ServerMove, Agrees
<1>8. \A master : Claim(master, s, d) => Claim(master, q, d)
  <2> SUFFICES ASSUME NEW master, Claim(master, s, d), master[2][2] = d, q.state \notin Ended
               PROVE  q.state = "CONNECTED" /\ master = q.tmp
    BY DEF Claim
  <2>1. s.state \notin Ended
    BY <1>2 DEF ServerMove
  <2>2. s.state = "CONNECTED" /\ master = s.tmp
    BY <2>1 DEF Claim
  <2> QED BY <1>2, <2>2 DEF ServerMove
<1>9. q.state = "CONNECTED" => Claim(q.tmp, q, d)
  <2>1. q.state = "CONNECTED" => q.tmp[2][2] = d
    BY <1>2 DEF ServerMove, ServerPair
  <2> QED BY <2>1 DEF Claim
<1>10. \A i \in 1..Len(cx) : ToClientPair(cx[i], q, d)
  <2> SUFFICES ASSUME NEW i \in 1..Len(cx) PROVE ToClientPair(cx[i], q, d)
    OBVIOUS
  <2>1. CASE i \in 1..Len(cc) /\ cx[i] = cc[i]
    BY <1>7, <1>8, <2>1 DEF PairState, ToClientPair
  <2>2. CASE i - Len(cc) \in 1..Len(out) /\ cx[i] = out[i - Len(cc)] /\ cx[i].typ # "SH"
    BY <1>2, <1>9, <2>2 DEF ServerMove, ToClientPair
  <2> QED BY <1>3, <2>1, <2>2
<1>11. \A i \in 1..Len(tl) : ToServerPair(tl[i], c, cx, d)
  BY <1>1, <1>6 DEF PairState, ToServerPair
<1>12. q.state = "CONNECTED" => Quiet(c, cx, d)
  <2> SUFFICES ASSUME q.state = "CONNECTED" PROVE Quiet(c, cc, d)
    BY <1>6
  <2>1. CASE s.state = "CONNECTED"
    BY <2>1 DEF PairState
  <2>2. CASE s.state # "CONNECTED"
    <3>1. q.state \notin Ended
      BY DEF Ended
    <3>2. m.typ = "FIN" /\ m.body.master[2][2] = d
      BY <1>2, <2>2, <3>1 DEF ServerMove
    <3> QED BY <1>2, <3>2 DEF ToServerPair
  <2> QED BY <2>1, <2>2
<1>13. c.state = "CONNECTED" => Claim(c.tmp, q, d)
  BY <1>8 DEF PairState
<1>14. Sr(c) = d /\ d # 0 => Agrees(c.cipher, q)
  BY <1>7 DEF PairState
<1>15. ClientPair(c, d) /\ ServerPair(q, d)
  BY <1>2 DEF PairState, ServerMove
<1>16. PairState(c, q, cx, tl, d)
  BY <1>5, <1>10, <1>11, <1>12, <1>13, <1>14, <1>15 DEF PairState
<1> QED BY <1>16 DEF cx, tl

LEMMA SrBound ==
    ASSUME NEW c, NEW d \in Nat, ClientPair(c, d) PROVE Sr(c) \in 0..d
<1>1. c.cipher # "NULL" /\ c.state \in Waiting \cup KeyedStates => Sr(c) \in 1..d
  BY DEF ClientPair
<1>2. ~(c.cipher # "NULL" /\ c.state \in Waiting \cup KeyedStates) => Sr(c) = 0
  BY DEF Sr
<1> QED BY <1>1, <1>2

LEMMA ServerAnswers ==
    ASSUME NEW c, NEW s, NEW cc, NEW cs, NEW d \in Nat, PairState(c, s, cc, cs, d),
           IsSeq(cc), IsSeq(cs), cs # <<>>,
           NEW q, NEW out, ServerAnswer(q, out, d)
    PROVE  PairState(c, q, cc \o out, Tail(cs), d + 1)
<1> DEFINE tl == Tail(cs)
           cx == cc \o out
           e == d + 1
<1>1. \A i \in 1..Len(tl) : i + 1 \in 1..Len(cs) /\ tl[i] = cs[i + 1]
  BY TailIndex
<1>2. /\ Len(cc) \in Nat
      /\ \A i \in 1..Len(cx) :
            \/ i \in 1..Len(cc) /\ cx[i] = cc[i]
            \/ i - Len(cc) \in 1..Len(out) /\ cx[i] = out[i - Len(cc)]
  BY ConcatIndex DEF ServerAnswer
<1>3. ServerAnswer(q, out, d) /\ e = d + 1
  OBVIOUS
<1> HIDE DEF tl, cx, e
<1>4. Sr(c) \in 0..d
  BY SrBound DEF PairState
<1>5. \A i \in 1..Len(cx) : cx[i].typ = "SH" =>
        \/ i \in 1..Len(cc) /\ cx[i] = cc[i] /\ cx[i].body.sr \in 1..d
        \/ i = Len(cc) + 1 /\ cx[i].body.sr = e /\ cx[i].body.cipher = q.cipher
  <2> SUFFICES ASSUME NEW i \in 1..Len(cx), cx[i].typ = "SH",
                      ~(i \in 1..Len(cc) /\ cx[i] = cc[i])
               PROVE  i = Len(cc) + 1 /\ cx[i].body.sr = e /\ cx[i].body.cipher = q.cipher
    BY DEF PairState, ToClientPair
  <2>1. i - Len(cc) \in 1..Len(out) /\ cx[i] = out[i - Len(cc)]
    BY <1>2
  <2>2. i - Len(cc) = 1 /\ cx[i].body.sr = e /\ cx[i].body.cipher = q.cipher
    BY <1>3, <2>1 DEF ServerAnswer
  <2> QED BY <1>2, <2>2
<1>6. Rising(cx, Sr(c))
  <2>1. ASSUME NEW i \in 1..Len(cx), cx[i].typ = "SH" PROVE Sr(c) < cx[i].body.sr
    <3>1. CASE i \in 1..Len(cc) /\ cx[i] = cc[i]
      BY <2>1, <3>1 DEF PairState, Rising
    <3>2. CASE cx[i].body.sr = e
      BY <1>3, <1>4, <3>2
    <3> QED BY <1>5, <2>1, <3>1, <3>2
  <2>2. ASSUME NEW i \in 1..Len(cx), NEW j \in 1..Len(cx), i < j,
               cx[i].typ = "SH", cx[j].typ = "SH"
        PROVE  cx[i].body.sr < cx[j].body.sr
    <3>1. CASE i = Len(cc) + 1
      <4>1. j \in 1..Len(cc) \/ j = Len(cc) + 1
        BY <1>5, <2>2
      <4> QED BY <1>2, <2>2, <3>1, <4>1
    <3>2. CASE i \in 1..Len(cc) /\ cx[i] = cc[i] /\ cx[i].body.sr \in 1..d
      <4>1. CASE j \in 1..Len(cc) /\ cx[j] = cc[j]
        BY <2>2, <3>2, <4>1 DEF PairState, Rising
      <4>2. CASE cx[j].body.sr = e
        BY <1>3, <3>2, <4>2
      <4> QED BY <1>5, <2>2, <4>1, <4>2
    <3> QED BY <1>5, <2>2, <3>1, <3>2
  <2> QED BY <2>1, <2>2 DEF Rising
<1>7. \A master : Claim(master, s, d) => Claim(master, q, e)
  BY <1>3 DEF Claim
<1>8. \A i \in 1..Len(cx) : ToClientPair(cx[i], q, e)
  <2> SUFFICES ASSUME NEW i \in 1..Len(cx) PROVE ToClientPair(cx[i], q, e)
    OBVIOUS
  <2>1. ASSUME cx[i].typ = "SH"
        PROVE  cx[i].body.sr \in 1..e /\ (cx[i].body.sr = e => Agrees(cx[i].body.cipher, q))
    BY <1>3, <1>5, <2>1 DEF Agrees
  <2>2. ASSUME cx[i].typ = "FIN" PROVE Claim(cx[i].body.master, q, e)
    <3>1. i \in 1..Len(cc) /\ cx[i] = cc[i]
      BY <1>2, <1>3, <2>2 DEF ServerAnswer
    <3>2. Claim(cc[i].body.master, s, d)
      BY <2>2, <3>1 DEF PairState, ToClientPair
    <3> QED BY <1>7, <3>1, <3>2
  <2> QED BY <2>1, <2>2 DEF ToClientPair
<1>9. \A i \in 1..Len(tl) : ToServerPair(tl[i], c, cx, e)
  <2> SUFFICES ASSUME NEW i \in 1..Len(tl) PROVE ToServerPair(tl[i], c, cx, e)
    OBVIOUS
  <2>1. ToServerPair(tl[i], c, cc, d)
    BY <1>1 DEF PairState
  <2>2. tl[i].typ = "FIN" => tl[i].body.master[2][2] \in 0..d
    BY <2>1 DEF ToServerPair
  <2> QED BY <1>3, <2>1, <2>2 DEF ToServerPair
<1>10. ClientPair(c, e)
  <2>1. \A x \in 1..d : x \in 1..e
    BY <1>3
  <2>2. ClientPair(c, d)
    BY DEF PairState
  <2> QED BY <2>1, <2>2 DEF ClientPair
<1>11. ServerPair(q, e) /\ q.state # "CONNECTED"
  BY <1>3 DEF ServerAnswer
<1>12. c.state = "CONNECTED" => Claim(c.tmp, q, e)
  BY <1>7 DEF PairState
<1>13. Sr(c) # e
  BY <1>3, <1>4
<1>14. PairState(c, q, cx, tl, e)
  BY <1>6, <1>8, <1>9, <1>10, <1>11, <1>12, <1>13 DEF PairState
<1> QED BY <1>14 DEF cx, tl, e

-----------------------------------------------------------------------------
(* The handlers of the client *)

ClientPairResult(p, m, d) ==
    \E q, out : Proceed("C", q, out) /\ ClientMove(p, m, q, out, d)

LEMMA PlainFromPair == ASSUME NEW q, NEW out, Plain(out) PROVE FromPair(q, out)
  BY DEF Plain, FromPair

\* The client goes on with the random, the suite and the keys it has.
LEMMA SameSr ==
    ASSUME NEW d, NEW p, ClientPair(p, d), NEW q, q.cipher = p.cipher, q.tmp = p.tmp,
           \/ q.state = p.state /\ q.sec = p.sec
           \/ q.state \in Waiting /\ p.state \in Waiting
    PROVE  ClientPair(q, d) /\ Sr(q) = Sr(p)
<1>1. CASE q.state = p.state /\ q.sec = p.sec
  <2>1. Sr(q) = Sr(p)
    BY <1>1 DEF Sr
  <2> QED BY <1>1, <2>1 DEF ClientPair
<1>2. CASE q.state \in Waiting /\ p.state \in Waiting
  <2>1. Sr(q) = Sr(p)
    BY <1>2 DEF Sr
  <2>2. q.state \notin KeyedStates
    BY <1>2 DEF Waiting, KeyedStates
  <2> QED BY <1>2, <2>1, <2>2 DEF ClientPair
<1> QED BY <1>1, <1>2

LEMMA SamePair ==
    ASSUME NEW d, NEW p, ClientPair(p, d), NEW m, NEW q, q.cipher = p.cipher, q.tmp = p.tmp,
           \/ q.state = p.state /\ q.sec = p.sec
           \/ q.state \in Waiting /\ p.state \in Waiting,
           NEW out, Plain(out), Proceed("C", q, out)
    PROVE  ClientPairResult(p, m, d)
<1>1. ClientPair(q, d) /\ Sr(q) = Sr(p) /\ FromPair(q, out)
  BY SameSr, PlainFromPair
<1>2. q.state = "CONNECTED" => p.state = "CONNECTED"
  BY DEF Waiting
<1> QED BY <1>1, <1>2 DEF ClientMove, ClientPairResult

LEMMA ClosedPair ==
    ASSUME NEW d, NEW p, ClientPair(p, d), NEW m, NEW p1, DOMAIN p1 = Fields,
           p1.cipher = p.cipher, NEW out, Plain(out), Fail("C", p1, out)
    PROVE  ClientPairResult(p, m, d)
<1> DEFINE q == Closing(p1)
           all == out \o <<AlertMsg("fatal")>>
<1>1. q.state = "CLOSING" /\ q.cipher = p.cipher
  BY DEF Closing, Fields
<1>2. Plain(all) /\ Proceed("C", q, all)
  BY PlainAlert DEF Fail
<1> HIDE DEF q, all
<1>3. Sr(q) = 0 /\ q.state \notin Waiting \cup KeyedStates /\ q.state # "CONNECTED"
  BY <1>1 DEF Sr, Waiting, KeyedStates
<1>4. ClientPair(q, d)
  BY <1>1, <1>3 DEF ClientPair
<1> QED BY <1>2, <1>3, <1>4, PlainFromPair DEF ClientMove, ClientPairResult

LEMMA GonePair ==
    ASSUME NEW d, NEW p, NEW m, NEW out, Plain(out), Proceed("C", NoPeer, out)
    PROVE  ClientPairResult(p, m, d)
<1>1. NoPeer.cipher = "NULL" /\ NoPeer.state = "INIT"
  BY DEF NoPeer
<1>2. Sr(NoPeer) = 0 /\ NoPeer.state \notin KeyedStates /\ NoPeer.state # "CONNECTED"
  BY <1>1 DEF Sr, KeyedStates
<1>3. ClientPair(NoPeer, d)
  BY <1>1, <1>2 DEF ClientPair
<1> QED BY <1>2, <1>3, PlainFromPair DEF ClientMove, ClientPairResult

LEMMA PairHelloVerify ==
    ASSUME NEW p, NEW d, ClientPair(p, d), DOMAIN p = Fields, NEW m, NEW b,
           HandleHelloVerify(p, b)
    PROVE  ClientPairResult(p, m, d)
<1>1. CASE b.form = "good"
  <2> DEFINE h == OwnHello(Cb("C"), p.tmp[1])
             x == ClientHello(h, b.cookie)
             out == <<x>>
  <2>1. Proceed("C", p, out)
    BY <1>1 DEF HandleHelloVerify
  <2>2. x.typ = "CH" /\ x.body.hello = h /\ h.list
    BY DEF ClientHello, Msg, OwnHello
  <2> HIDE DEF x, h
  <2>3. IsSeq(out) /\ Len(out) = 1 /\ out[1] = x
    BY SeqOfThree
  <2> HIDE DEF out
  <2>4. FromPair(p, out)
    BY <2>2, <2>3 DEF FromPair
  <2> QED BY <2>1, <2>4 DEF ClientMove, ClientPairResult
<1>2. CASE Fail("C", p, <<>>)
  BY <1>2, ClosedPair, PlainEmpty
<1> QED BY <1>1, <1>2 DEF HandleHelloVerify

LEMMA PairServerHello ==
    ASSUME NEW p, NEW d, ClientPair(p, d), DOMAIN p = Fields, NEW m, m.typ = "SH",
           m.body.sr \in 1..d, HandleServerHello(p, m.body)
    PROVE  ClientPairResult(p, m, d)
<1> DEFINE b == m.body
           q == [p EXCEPT !.tmp = <<p.tmp[1], b.sr>>, !.cipher = b.cipher,
                          !.state = IF b.cipher = "ECDHE" THEN "WAIT_SERVERCERTIFICATE"
                                    ELSE "WAIT_SERVERHELLODONE"]
<1>1. CASE known_cipher(Cb("C"), b.cipher, TRUE) /\ Proceed("C", q, <<>>)
  <2>1. /\ q.tmp = <<p.tmp[1], b.sr>> /\ q.cipher = b.cipher
        /\ q.state = IF b.cipher = "ECDHE" THEN "WAIT_SERVERCERTIFICATE"
                     ELSE "WAIT_SERVERHELLODONE"
    BY DEF Fields
  <2> HIDE DEF q
  <2>2. q.tmp[2] = b.sr /\ q.state \in Waiting /\ q.cipher # "NULL"
    <3>1. b.cipher # "NULL"
      BY <1>1 DEF known_cipher
    <3>2. q.tmp[2] = b.sr
      BY <2>1
    <3> QED BY <2>1, <3>1, <3>2 DEF Waiting
  <2>3. Sr(q) = b.sr /\ q.state \notin KeyedStates /\ q.state # "CONNECTED"
    BY <2>2 DEF Sr, Waiting, KeyedStates
  <2>4. ClientPair(q, d)
    BY <1>1, <2>1, <2>3 DEF ClientPair
  <2>5. FromPair(q, <<>>)
    BY PlainFromPair, PlainEmpty
  <2>6. ClientMove(p, m, q, <<>>, d)
    BY <2>1, <2>3, <2>4, <2>5 DEF ClientMove
  <2> QED BY <1>1, <2>6 DEF ClientPairResult
<1>2. CASE Fail("C", p, <<>>)
  BY <1>2, ClosedPair, PlainEmpty
<1> QED BY <1>1, <1>2 DEF HandleServerHello

LEMMA PairCertificate ==
    ASSUME NEW p, NEW d, ClientPair(p, d), DOMAIN p = Fields, NEW m, NEW b,
           HandleCertificate("C", p, b)
    PROVE  ClientPairResult(p, m, d)
<1> DEFINE p1 == [p EXCEPT !.pub = b.key]
           q == [p1 EXCEPT !.state = "WAIT_SERVERKEYEXCHANGE"]
<1>1. DOMAIN p1 = Fields /\ p1.cipher = p.cipher /\ p1.tmp = p.tmp
  BY DEF Fields
<1>2. p.state \in Waiting
  BY DEF HandleCertificate, Waiting
<1>3. CASE Proceed("C", q, <<>>)
  <2>1. q.cipher = p.cipher /\ q.tmp = p.tmp /\ q.state \in Waiting
    BY <1>1 DEF Fields, Waiting
  <2> HIDE DEF q
  <2> QED BY <1>2, <1>3, <2>1, SamePair, PlainEmpty
<1> HIDE DEF p1
<1>4. CASE Fail("C", p1, <<>>) \/ Fail("C", p, <<>>)
  BY <1>1, <1>4, ClosedPair, PlainEmpty
<1> QED BY <1>3, <1>4 DEF HandleCertificate, p1

LEMMA PairKeyExchange ==
    ASSUME NEW p, NEW d, ClientPair(p, d), DOMAIN p = Fields, NEW m, NEW b,
           HandleKeyExchangeEcdh(p, b)
    PROVE  ClientPairResult(p, m, d)
<1> DEFINE p1 == [p EXCEPT !.eph = b.eph]
           q == [p1 EXCEPT !.sig = b.sig, !.state = "WAIT_SERVERHELLODONE"]
<1>1. DOMAIN p1 = Fields /\ p1.cipher = p.cipher /\ p1.tmp = p.tmp
  BY DEF Fields
<1>2. p.state \in Waiting
  BY DEF HandleKeyExchangeEcdh, ExpectsKeyExchange, Waiting
<1>3. CASE Proceed("C", q, <<>>)
  <2>1. q.cipher = p.cipher /\ q.tmp = p.tmp /\ q.state \in Waiting
    BY <1>1 DEF Fields, Waiting
  <2> HIDE DEF q
  <2> QED BY <1>2, <1>3, <2>1, SamePair, PlainEmpty
<1> HIDE DEF p1
<1>4. CASE Fail("C", p1, <<>>) \/ Fail("C", p, <<>>)
  BY <1>1, <1>4, ClosedPair, PlainEmpty
<1> QED BY <1>3, <1>4 DEF HandleKeyExchangeEcdh, p1

LEMMA PairHint ==
    ASSUME NEW p, NEW d, ClientPair(p, d), DOMAIN p = Fields, NEW m, NEW b,
           HandleKeyExchangePsk(p, b)
    PROVE  ClientPairResult(p, m, d)
<1> DEFINE q == [p EXCEPT !.id = "hint"]
<1>1. CASE Proceed("C", q, <<>>)
  <2>1. q.state = p.state /\ q.sec = p.sec /\ q.cipher = p.cipher /\ q.tmp = p.tmp
    BY DEF Fields
  <2> HIDE DEF q
  <2> QED BY <1>1, <2>1, SamePair, PlainEmpty
<1>2. CASE Fail("C", p, <<>>)
  BY <1>2, ClosedPair, PlainEmpty
<1> QED BY <1>1, <1>2 DEF HandleKeyExchangePsk

LEMMA PairNoSuite ==
    ASSUME NEW p, NEW d, ClientPair(p, d), DOMAIN p = Fields, NEW m,
           HandleKeyExchangeNone(p)
    PROVE  ClientPairResult(p, m, d)
<1> DEFINE q == [p EXCEPT !.state = "WAIT_SERVERHELLODONE"]
<1>1. Proceed("C", q, <<>>) /\ p.cipher = "NULL"
  BY DEF HandleKeyExchangeNone
<1>2. q.cipher = "NULL" /\ q.state = "WAIT_SERVERHELLODONE"
  BY <1>1 DEF Fields
<1> HIDE DEF q
<1>3. Sr(q) = 0 /\ q.state \notin KeyedStates /\ q.state # "CONNECTED"
  BY <1>2 DEF Sr, KeyedStates
<1>4. ClientPair(q, d) /\ FromPair(q, <<>>)
  BY <1>2, <1>3, PlainFromPair, PlainEmpty DEF ClientPair
<1> QED BY <1>1, <1>3, <1>4 DEF ClientMove, ClientPairResult

LEMMA PairRequest ==
    ASSUME NEW p, NEW d, ClientPair(p, d), DOMAIN p = Fields, NEW m, NEW b,
           HandleCertificateRequest(p, b)
    PROVE  ClientPairResult(p, m, d)
<1> DEFINE q == [p EXCEPT !.auth = TRUE]
<1>1. CASE Proceed("C", q, <<>>)
  <2>1. q.state = p.state /\ q.sec = p.sec /\ q.cipher = p.cipher /\ q.tmp = p.tmp
    BY DEF Fields
  <2> HIDE DEF q
  <2> QED BY <1>1, <2>1, SamePair, PlainEmpty
<1>2. CASE Fail("C", p, <<>>)
  BY <1>2, ClosedPair, PlainEmpty
<1> QED BY <1>1, <1>2 DEF HandleCertificateRequest

\* The flight of check_server_hellodone(): its Finished has the random of the
\* ServerHello.
LEMMA PairHelloDone ==
    ASSUME NEW p, NEW d, ClientPair(p, d), DOMAIN p = Fields, NEW m, HandleHelloDone(p)
    PROVE  ClientPairResult(p, m, d)
<1> DEFINE p1  == IF p.cipher = "PSK" THEN [p EXCEPT !.id = conf.identity]
                  ELSE [p EXCEPT !.own = 1]
           ckx == ClientKeyExchange(p1.id, p1.own, "good")
           fin == FinishedMsg(Keyed(p1).tmp, "good")
           q   == [Switched(Keyed(p1)) EXCEPT !.state = "WAIT_CHANGECIPHERSPEC"]
<1>1. /\ DOMAIN p1 = Fields /\ p1.cipher = p.cipher /\ p1.tmp = p.tmp
      /\ p.state = "WAIT_SERVERHELLODONE"
  BY DEF Fields, HandleHelloDone, ExpectsHelloDone
<1>2. ckx.typ = "CKX" /\ Ccs.typ = "CCS" /\ fin.typ = "FIN" /\ fin.body.master = Keyed(p1).tmp
  BY DEF ClientKeyExchange, Ccs, FinishedMsg, Msg
<1> HIDE DEF p1
<1>3. CASE Fail("C", p, <<>>)
  BY <1>3, ClosedPair, PlainEmpty
<1>4. CASE Fail("C", p1, <<ckx>>)
  <2>1. Plain(<<ckx>>)
    BY <1>2, PlainOne
  <2> HIDE DEF ckx
  <2> QED BY <1>1, <1>4, <2>1, ClosedPair
<1>5. CASE KeyExchangeOk(p) /\ Proceed("C", q, <<ckx, Ccs, fin>>)
  <2> DEFINE k == Keyed(p1)
             out == <<ckx, Ccs, fin>>
  <2>1. DOMAIN k = Fields /\ k.tmp = <<Secret(p1), p.tmp>> /\ k.cipher = p.cipher
    BY <1>1 DEF Keyed, Fields
  <2>2. fin.body.master = k.tmp
    BY <1>2
  <2>3. q = [Switched(k) EXCEPT !.state = "WAIT_CHANGECIPHERSPEC"]
    OBVIOUS
  <2> HIDE DEF k, q
  <2>4. /\ q.state = "WAIT_CHANGECIPHERSPEC" /\ q.cipher = p.cipher /\ q.tmp = k.tmp
        /\ q.sec = [cipher |-> q.cipher, master |-> q.tmp]
    BY <2>1, <2>3 DEF Switched, Fields
  <2>5. p.cipher # "NULL" /\ p.state \in Waiting /\ q.cipher # "NULL"
    BY <1>1, <1>5, <2>4 DEF KeyExchangeOk, Waiting
  <2>6. q.tmp[2] = p.tmp
    BY <2>1, <2>4
  <2>7. Sr(p) = p.tmp[2] /\ Sr(p) \in 1..d
    BY <2>5 DEF Sr, ClientPair
  <2>8. q.state \in KeyedStates /\ q.state \notin Waiting
    BY <2>4 DEF KeyedStates, Waiting
  <2>9. Sr(q) = Sr(p)
    BY <2>5, <2>6, <2>7, <2>8 DEF Sr
  <2>10. ClientPair(q, d)
    BY <2>4, <2>5, <2>7, <2>9 DEF ClientPair
  <2>11. fin.body.master[2][2] = Sr(q)
    BY <2>2, <2>4, <2>6, <2>7, <2>9
  <2> HIDE DEF ckx, fin
  <2>12. /\ IsSeq(out) /\ Len(out) = 3
         /\ out[1] = ckx /\ out[2] = Ccs /\ out[3] = fin
    BY SeqOfThree
  <2> HIDE DEF out
  <2>13. Sr(q) # 0
    BY <2>7, <2>9
  <2>14. FromPair(q, out)
    BY <1>2, <2>11, <2>12, <2>13 DEF FromPair
  <2>15. ClientMove(p, m, q, out, d)
    BY <2>4, <2>9, <2>10, <2>14 DEF ClientMove
  <2>16. Proceed("C", q, out)
    BY <1>5 DEF out
  <2> QED BY <2>15, <2>16 DEF ClientPairResult
<1> QED BY <1>3, <1>4, <1>5 DEF HandleHelloDone, p1

LEMMA PairClientCcs ==
    ASSUME NEW p, NEW d, ClientPair(p, d), DOMAIN p = Fields, NEW m, HandleCcs("C", p)
    PROVE  ClientPairResult(p, m, d)
<1> DEFINE q == [p EXCEPT !.state = "WAIT_FINISHED"]
<1>1. CASE Proceed("C", p, <<>>)
  BY <1>1, SamePair, PlainEmpty
<1>2. CASE p.state = "WAIT_CHANGECIPHERSPEC" /\ Proceed("C", q, <<>>)
  <2>1. q.state = "WAIT_FINISHED" /\ q.sec = p.sec /\ q.cipher = p.cipher /\ q.tmp = p.tmp
    BY DEF Fields
  <2> HIDE DEF q
  <2>2. Sr(q) = Sr(p)
    BY <1>2, <2>1 DEF Sr, KeyedStates, Waiting
  <2>3. ClientPair(q, d) /\ FromPair(q, <<>>)
    BY <1>2, <2>1, <2>2, PlainFromPair, PlainEmpty DEF ClientPair, KeyedStates
  <2> QED BY <1>2, <2>1, <2>2, <2>3 DEF ClientMove, ClientPairResult
<1> QED BY <1>1, <1>2 DEF HandleCcs

LEMMA PairClientFinished ==
    ASSUME NEW p, NEW d, ClientPair(p, d), DOMAIN p = Fields, NEW m, m.typ = "FIN",
           HandleFinished("C", p, m.body)
    PROVE  ClientPairResult(p, m, d)
<1> DEFINE q == [p EXCEPT !.state = "CONNECTED", !.hs = FALSE]
<1>1. CASE /\ p.state = "WAIT_FINISHED" /\ m.body.master = p.tmp
           /\ Proceed("C", q, <<>>)
  <2>1. q.state = "CONNECTED" /\ q.sec = p.sec /\ q.cipher = p.cipher /\ q.tmp = p.tmp
    BY DEF Fields
  <2> HIDE DEF q
  <2>2. Sr(q) = Sr(p)
    BY <1>1, <2>1 DEF Sr, KeyedStates, Waiting
  <2>3. ClientPair(q, d) /\ FromPair(q, <<>>)
    BY <1>1, <2>1, <2>2, PlainFromPair, PlainEmpty DEF ClientPair, KeyedStates
  <2> QED BY <1>1, <2>1, <2>2, <2>3 DEF ClientMove, ClientPairResult
<1>2. CASE Fail("C", p, <<>>)
  BY <1>2, ClosedPair, PlainEmpty
<1>3. CASE Proceed("C", p, <<>>)
  BY <1>3, SamePair, PlainEmpty
<1>4. CASE Discard("C")
  <2>1. Plain(<<AlertMsg("fatal")>>)
    BY PlainOne DEF AlertMsg, Msg
  <2> QED BY <1>4, <2>1, GonePair DEF Discard
<1> QED BY <1>1, <1>2, <1>3, <1>4 DEF HandleFinished, InUse, Opens

\* dtls_handle_message() of the client of a pair.
LEMMA PairClientHandles ==
    ASSUME NEW p, NEW d, ClientPair(p, d), DOMAIN p = Fields, NEW m, Good("C", m),
           m.typ = "SH" => m.body.sr \in 1..d, Handle("C", p, m)
    PROVE  ClientPairResult(p, m, d)
<1>1. m.typ \in ToClient
  BY DEF Good
<1>2. m.typ # "CH" /\ m.typ # "CKX" /\ m.typ # "CV"
  BY <1>1 DEF ToClient
<1>3. CASE m.typ = "HVR" /\ HandleHelloVerify(p, m.body)
  BY <1>3, PairHelloVerify
<1>4. CASE m.typ = "SH" /\ HandleServerHello(p, m.body)
  BY <1>4, PairServerHello
<1>5. CASE m.typ = "CERT" /\ HandleCertificate("C", p, m.body)
  BY <1>5, PairCertificate
<1>6. CASE m.typ = "SKX" /\ HandleKeyExchangeEcdh(p, m.body)
  BY <1>6, PairKeyExchange
<1>7. CASE m.typ = "SKX" /\ HandleKeyExchangePsk(p, m.body)
  BY <1>7, PairHint
<1>8. CASE m.typ = "SKX" /\ HandleKeyExchangeNone(p)
  BY <1>8, PairNoSuite
<1>9. CASE m.typ = "CREQ" /\ HandleCertificateRequest(p, m.body)
  BY <1>9, PairRequest
<1>10. CASE m.typ = "SHD" /\ HandleHelloDone(p)
  BY <1>10, PairHelloDone
<1>11. CASE m.typ = "CCS" /\ HandleCcs("C", p)
  BY <1>11, PairClientCcs
<1>12. CASE m.typ = "FIN" /\ HandleFinished("C", p, m.body)
  BY <1>12, PairClientFinished
<1>13. CASE m.typ = "ALERT" /\ HandleAlert("C", p, m.body)
  <2>1. Proceed("C", NoPeer, <<>>) \/ Proceed("C", p, <<>>)
    BY <1>13 DEF HandleAlert
  <2> QED BY <2>1, SamePair, GonePair, PlainEmpty
<1>14. CASE Fail("C", p, <<>>) \/ Proceed("C", p, <<>>)
  BY <1>14, ClosedPair, SamePair, PlainEmpty
<1> QED BY <1>2, <1>3, <1>4, <1>5, <1>6, <1>7, <1>8, <1>9, <1>10, <1>11, <1>12, <1>13,
          <1>14 DEF Handle

-----------------------------------------------------------------------------
(* The handlers of the server *)

ServerPairResult(p, m, d) ==
    \E q, out :
        \/ Proceed("S", q, out) /\ ServerMove(p, m, q, out, d)
        \/ /\ Become("S", q, out) /\ ServerAnswer(q, out, d)
           /\ drawn' = [drawn EXCEPT !["S"] = d + 1]

\* The server ends.
LEMMA EndedPair ==
    ASSUME NEW d, NEW p, NEW m, NEW q, q.state \in Ended, NEW out, Plain(out),
           Proceed("S", q, out)
    PROVE  ServerPairResult(p, m, d)
<1>1. ServerPair(q, d)
  BY DEF ServerPair, Ended, NotYet
<1> QED BY <1>1 DEF ServerMove, ServerPairResult, Plain

LEMMA EndedByFailure ==
    ASSUME NEW d, NEW p, NEW m, NEW p1, DOMAIN p1 = Fields, Fail("S", p1, <<>>)
    PROVE  ServerPairResult(p, m, d)
<1> DEFINE q == Closing(p1)
           all == <<>> \o <<AlertMsg("fatal")>>
<1>1. q.state \in Ended
  BY DEF Closing, Fields, Ended
<1>2. Plain(all) /\ Proceed("S", q, all)
  BY PlainAlert, PlainEmpty DEF Fail
<1> HIDE DEF q, all
<1> QED BY <1>1, <1>2, EndedPair

LEMMA EndedByDiscard ==
    ASSUME NEW d, NEW p, NEW m, Discard("S")
    PROVE  ServerPairResult(p, m, d)
<1>1. Plain(<<AlertMsg("fatal")>>)
  BY PlainOne DEF AlertMsg, Msg
<1>2. NoPeer.state \in Ended
  BY DEF NoPeer, Ended
<1> QED BY <1>1, <1>2, EndedPair DEF Discard

LEMMA ServerUnmoved ==
    ASSUME NEW d, NEW p, ServerPair(p, d), NEW m, NEW out, Plain(out), Proceed("S", p, out)
    PROVE  ServerPairResult(p, m, d)
  BY DEF ServerMove, ServerPairResult, Plain

\* The server waits for the next message, with the random it has.
LEMMA ServerWaits ==
    ASSUME NEW d, NEW p, ServerPair(p, d), p.state \in NotYet, NEW m,
           NEW q, q.cipher = p.cipher, q.tmp = p.tmp, q.hello = p.hello,
           q.state \in NotYet, Proceed("S", q, <<>>)
    PROVE  ServerPairResult(p, m, d)
<1>1. \A st \in NotYet : st \notin Ended /\ st # "CONNECTED" /\ st # "WAIT_FINISHED"
  BY DEF NotYet, Ended
<1>2. ServerPair(q, d)
  BY <1>1 DEF ServerPair
<1> QED BY <1>1, <1>2, PlainEmpty DEF ServerMove, ServerPairResult, Plain

LEMMA PairClientCertificate ==
    ASSUME NEW p, NEW d, ServerPair(p, d), DOMAIN p = Fields, NEW m, NEW b,
           HandleCertificate("S", p, b)
    PROVE  ServerPairResult(p, m, d)
<1> DEFINE p1 == [p EXCEPT !.pub = b.key]
           q == [p1 EXCEPT !.state = "WAIT_CLIENTKEYEXCHANGE"]
<1>1. DOMAIN p1 = Fields /\ p1.cipher = p.cipher /\ p1.tmp = p.tmp /\ p1.hello = p.hello
  BY DEF Fields
<1>2. p.state \in NotYet
  BY DEF HandleCertificate, NotYet
<1>3. CASE Proceed("S", q, <<>>)
  <2>1. q.cipher = p.cipher /\ q.tmp = p.tmp /\ q.hello = p.hello /\ q.state \in NotYet
    BY <1>1 DEF Fields, NotYet
  <2> HIDE DEF q
  <2> QED BY <1>2, <1>3, <2>1, ServerWaits
<1> HIDE DEF p1
<1>4. CASE Fail("S", p1, <<>>) \/ Fail("S", p, <<>>)
  BY <1>1, <1>4, EndedByFailure
<1> QED BY <1>3, <1>4 DEF HandleCertificate, p1

LEMMA PairVerifyAnswer ==
    ASSUME NEW p, NEW d, ServerPair(p, d), NEW m, NEW b, SendHelloVerify(p, b)
    PROVE  ServerPairResult(p, m, d)
<1> DEFINE x == HelloVerify(dtls_create_cookie(b.hello), "good")
<1>1. Plain(<<x>>)
  BY PlainOne DEF HelloVerify, Msg
<1>2. Proceed("S", p, <<x>>)
  BY DEF SendHelloVerify
<1> HIDE DEF x
<1> QED BY <1>1, <1>2, ServerUnmoved

LEMMA PairClientKeyExchange ==
    ASSUME NEW p, NEW d, ServerPair(p, d), DOMAIN p = Fields, NEW m, NEW b,
           HandleClientKeyExchange(p, b)
    PROVE  ServerPairResult(p, m, d)
<1> DEFINE p1 == IF p.cipher = "PSK" THEN [p EXCEPT !.id = b.id] ELSE [p EXCEPT !.eph = b.eph]
           q == [p1 EXCEPT !.state = AfterKeyExchange(p, Cb("S"))]
<1>1. DOMAIN p1 = Fields /\ p1.cipher = p.cipher /\ p1.tmp = p.tmp /\ p1.hello = p.hello
  BY DEF Fields
<1>2. p.state \in NotYet
  BY DEF HandleClientKeyExchange, NotYet
<1>3. CASE Proceed("S", q, <<>>)
  <2> HIDE DEF p1
  <2>1. /\ q.cipher = p.cipher /\ q.tmp = p.tmp /\ q.hello = p.hello
        /\ q.state = AfterKeyExchange(p, Cb("S"))
    BY <1>1 DEF Fields
  <2>2. AfterKeyExchange(p, Cb("S")) \in NotYet
    BY DEF AfterKeyExchange, NotYet
  <2> HIDE DEF q
  <2> QED BY <1>2, <1>3, <2>1, <2>2, ServerWaits
<1>4. CASE Fail("S", p, <<>>)
  BY <1>4, EndedByFailure
<1> QED BY <1>3, <1>4 DEF HandleClientKeyExchange

LEMMA PairCertificateVerify ==
    ASSUME NEW p, NEW d, ServerPair(p, d), DOMAIN p = Fields, NEW m, NEW b,
           HandleCertificateVerify(p, b)
    PROVE  ServerPairResult(p, m, d)
<1> DEFINE q == [p EXCEPT !.state = "WAIT_CHANGECIPHERSPEC", !.cv = b.sig]
<1>1. p.state \in NotYet
  BY DEF HandleCertificateVerify, NotYet
<1>2. CASE Proceed("S", q, <<>>)
  <2>1. q.cipher = p.cipher /\ q.tmp = p.tmp /\ q.hello = p.hello /\ q.state \in NotYet
    BY DEF Fields, NotYet
  <2> HIDE DEF q
  <2> QED BY <1>1, <1>2, <2>1, ServerWaits
<1>3. CASE Fail("S", p, <<>>)
  BY <1>3, EndedByFailure
<1> QED BY <1>2, <1>3 DEF HandleCertificateVerify

\* handle_ccs(): the master secret keeps the random.
LEMMA PairServerCcs ==
    ASSUME NEW p, NEW d, ServerPair(p, d), DOMAIN p = Fields, NEW m, HandleCcs("S", p)
    PROVE  ServerPairResult(p, m, d)
<1> DEFINE q == [Keyed(p) EXCEPT !.state = "WAIT_FINISHED"]
<1>1. CASE Proceed("S", p, <<>>)
  BY <1>1, ServerUnmoved, PlainEmpty
<1>2. CASE Discard("S")
  BY <1>2, EndedByDiscard
<1>3. CASE p.state = "WAIT_CHANGECIPHERSPEC" /\ Proceed("S", q, <<>>)
  <2>1. /\ q.state = "WAIT_FINISHED" /\ q.cipher = p.cipher /\ q.hello = p.hello
        /\ q.tmp = <<Secret(p), p.tmp>>
    BY DEF Keyed, Fields
  <2> HIDE DEF q
  <2>2. p.tmp[2] = d /\ p.hello # <<>> /\ p.hello[1].list /\ p.state \notin Ended
    BY <1>3 DEF ServerPair, NotYet, Ended
  <2>3. q.tmp[2] = p.tmp
    BY <2>1
  <2>4. q.tmp[2][2] = d
    BY <2>2, <2>3
  <2>5. ServerPair(q, d)
    BY <2>1, <2>2, <2>4 DEF ServerPair, NotYet
  <2>6. ServerMove(p, m, q, <<>>, d)
    BY <1>3, <2>1, <2>2, <2>5, PlainEmpty DEF ServerMove, Plain
  <2> QED BY <1>3, <2>6 DEF ServerPairResult
<1> QED BY <1>1, <1>2, <1>3 DEF HandleCcs

LEMMA PairServerFinished ==
    ASSUME NEW p, NEW d, ServerPair(p, d), DOMAIN p = Fields, NEW m, m.typ = "FIN",
           HandleFinished("S", p, m.body)
    PROVE  ServerPairResult(p, m, d)
<1> DEFINE q == [Switched(p) EXCEPT !.state = "CONNECTED", !.hs = FALSE]
           fin == FinishedMsg(p.tmp, "good")
           out == <<Ccs, fin>>
<1>1. CASE /\ p.state = "WAIT_FINISHED" /\ m.body.master = p.tmp
           /\ Proceed("S", q, out)
  <2>1. /\ q.state = "CONNECTED" /\ q.cipher = p.cipher /\ q.tmp = p.tmp
        /\ q.hello = p.hello /\ q.sec = [cipher |-> q.cipher, master |-> q.tmp]
    BY DEF Switched, Fields
  <2> HIDE DEF q
  <2>2. p.tmp[2][2] = d /\ p.hello # <<>> /\ p.hello[1].list /\ p.state \notin Ended
    BY <1>1 DEF ServerPair, Ended
  <2>3. ServerPair(q, d)
    BY <2>1, <2>2 DEF ServerPair, NotYet
  <2>4. Ccs.typ = "CCS" /\ fin.typ = "FIN" /\ fin.body.master = p.tmp
    BY DEF Ccs, FinishedMsg, Msg
  <2> HIDE DEF fin
  <2>5. IsSeq(out) /\ Len(out) = 2 /\ out[1] = Ccs /\ out[2] = fin
    BY SeqOfThree
  <2> HIDE DEF out
  <2>6. m.body.master[2][2] = d
    BY <1>1, <2>2
  <2>7. \A i \in 1..Len(out) :
            /\ out[i].typ # "SH"
            /\ out[i].typ = "FIN" => q.state = "CONNECTED" /\ out[i].body.master = q.tmp
    BY <2>1, <2>4, <2>5
  <2>8. ServerMove(p, m, q, out, d)
    BY <1>1, <2>1, <2>2, <2>3, <2>5, <2>6, <2>7 DEF ServerMove
  <2> QED BY <1>1, <2>8 DEF ServerPairResult
<1>2. CASE Fail("S", p, <<>>)
  BY <1>2, EndedByFailure
<1>3. CASE Proceed("S", p, <<>>)
  BY <1>3, ServerUnmoved, PlainEmpty
<1>4. CASE Discard("S")
  BY <1>4, EndedByDiscard
<1> QED BY <1>1, <1>2, <1>3, <1>4 DEF HandleFinished, InUse, Opens

\* A flight begins with its only ServerHello.
FlightFrom(out, m) ==
    /\ IsSeq(out)
    /\ \A i \in 1..Len(out) :
         out[i].typ # "FIN" /\ (out[i].typ = "SH" => i = 1 /\ out[i] = m)

LEMMA FlightOf ==
    ASSUME NEW m, m.typ = "SH", NEW x, Plain(x), NEW y, Plain(y)
    PROVE  FlightFrom((<<m>> \o x) \o y, m)
<1> DEFINE a == <<m>>
           ax == a \o x
           out == ax \o y
<1>1. IsSeq(a) /\ Len(a) = 1 /\ a[1] = m
  BY SeqOfThree
<1> HIDE DEF a
<1>3. /\ IsSeq(ax)
      /\ \A i \in 1..Len(ax) :
            \/ i = 1 /\ ax[i] = m
            \/ ax[i].typ \notin {"CH", "SH", "FIN"}
  <2>1. /\ IsSeq(ax)
        /\ \A i \in 1..Len(ax) :
            \/ i \in 1..Len(a) /\ ax[i] = a[i]
            \/ i - Len(a) \in 1..Len(x) /\ ax[i] = x[i - Len(a)]
    BY <1>1, ConcatIndex DEF Plain
  <2>2. \A i \in 1..Len(a) : i = 1
    BY <1>1
  <2> HIDE DEF ax
  <2> QED BY <1>1, <2>1, <2>2 DEF Plain
<1> HIDE DEF ax
<1>4. /\ IsSeq(out)
      /\ \A i \in 1..Len(out) :
            \/ i \in 1..Len(ax) /\ out[i] = ax[i]
            \/ i - Len(ax) \in 1..Len(y) /\ out[i] = y[i - Len(ax)]
  <2>1. IsSeq(ax) /\ IsSeq(y)
    BY <1>3 DEF Plain
  <2> QED BY <2>1, ConcatIndex
<1> HIDE DEF out
<1>5. ASSUME NEW i \in 1..Len(out)
      PROVE  out[i].typ # "FIN" /\ (out[i].typ = "SH" => i = 1 /\ out[i] = m)
  <2>1. CASE i \in 1..Len(ax) /\ out[i] = ax[i]
    BY <1>3, <2>1
  <2>2. CASE i - Len(ax) \in 1..Len(y) /\ out[i] = y[i - Len(ax)]
    BY <2>2 DEF Plain
  <2> QED BY <1>4, <2>1, <2>2
<1>6. FlightFrom(out, m)
  BY <1>4, <1>5 DEF FlightFrom
<1> QED BY <1>6 DEF out, ax, a

LEMMA FlightOfPair ==
    ASSUME NEW p, NEW sr
    PROVE  LET out == HelloFlight(p, sr)
           IN  /\ IsSeq(out)
               /\ \A i \in 1..Len(out) :
                    /\ out[i].typ # "FIN"
                    /\ out[i].typ = "SH" =>
                          i = 1 /\ out[i].body.sr = sr /\ out[i].body.cipher = p.cipher
<1> DEFINE m == ServerHello(sr, p.cipher, "good")
           k == KeyExchangeHint("good")
           x == IF p.cipher = "PSK" /\ conf.hint = "some" THEN <<k>> ELSE <<>>
           y == <<Done>>
           out == HelloFlight(p, sr)
<1>1. m.typ = "SH" /\ m.body.sr = sr /\ m.body.cipher = p.cipher
  BY DEF ServerHello, Msg
<1>2. Plain(<<k>>) /\ Plain(y)
  <2>1. k.typ = "SKX" /\ Done.typ = "SHD"
    BY DEF KeyExchangeHint, Done, Msg
  <2> HIDE DEF k
  <2> QED BY <2>1, PlainOne
<1>3. Plain(x)
  BY <1>2, PlainEmpty
<1>4. out = (<<m>> \o x) \o y
  BY DEF HelloFlight
<1> HIDE DEF m, x, y, out
<1>5. FlightFrom(out, m)
  <2>1. FlightFrom((<<m>> \o x) \o y, m)
    BY <1>1, <1>2, <1>3, FlightOf
  <2> QED BY <1>4, <2>1, Zenon
<1>6. \A i \in 1..Len(out) :
            /\ out[i].typ # "FIN"
            /\ out[i].typ = "SH" =>
                  i = 1 /\ out[i].body.sr = sr /\ out[i].body.cipher = p.cipher
  BY <1>1, <1>5 DEF FlightFrom
<1> QED BY <1>5, <1>6 DEF out, FlightFrom

LEMMA PairClientHello ==
    ASSUME NEW p, NEW d, d = drawn["S"], ServerPair(p, d), DOMAIN p = Fields, NEW m, NEW b,
           b.hello.list, AcceptHello(p, b)
    PROVE  ServerPairResult(p, m, d)
<1> DEFINE sr == drawn["S"] + 1
           h  == Cb("S")
           w  == WithHandshake(p)
           p1 == [w EXCEPT !.tmp = <<b.hello.cr, 0>>, !.cipher = Chosen(p, h, b.hello),
                           !.hello = <<b.hello>>]
           p2 == [p1 EXCEPT !.tmp = <<b.hello.cr, sr>>,
                         !.state = IF p1.cipher = "ECDHE"
                                      /\ is_ecdsa_client_auth_supported(h)
                                   THEN "WAIT_CLIENTCERTIFICATE"
                                   ELSE "WAIT_CLIENTKEYEXCHANGE"]
           level == IF p.state = "CONNECTED" THEN "warning" ELSE "fatal"
           sh == ServerHello(sr, p1.cipher, "good")
<1>1. DOMAIN w = Fields
  <2>1. DOMAIN NewHandshake(p) = Fields
    BY NoPeerFields DEF NewHandshake, Fields
  <2> QED BY <2>1 DEF WithHandshake
<1>2. DOMAIN p1 = Fields /\ p1.hello = <<b.hello>>
  <2> HIDE DEF w
  <2> QED BY <1>1 DEF Fields
<1>3. \/ Proceed("S", Closing(p1), <<AlertMsg(level)>>)
      \/ /\ drawn' = [drawn EXCEPT !["S"] = sr]
         /\ \/ Become("S", Closing(p1), <<sh, AlertMsg("fatal")>>)
            \/ Become("S", p2, HelloFlight(p1, sr))
  BY DEF AcceptHello
<1> HIDE DEF p1
<1>4. Closing(p1).state = "CLOSING" /\ Closing(p1).cipher = p1.cipher
  BY <1>2 DEF Closing, Fields
<1>5. CASE Proceed("S", Closing(p1), <<AlertMsg(level)>>)
  <2>1. Plain(<<AlertMsg(level)>>)
    BY PlainOne DEF AlertMsg, Msg
  <2>2. Closing(p1).state \in Ended
    BY <1>4 DEF Ended
  <2> DEFINE q == Closing(p1)
             out == <<AlertMsg(level)>>
  <2>3. Plain(out) /\ q.state \in Ended /\ Proceed("S", q, out)
    BY <1>5, <2>1, <2>2
  <2> HIDE DEF q, out
  <2> QED BY <2>3, EndedPair
<1>6. CASE /\ drawn' = [drawn EXCEPT !["S"] = sr]
           /\ Become("S", Closing(p1), <<sh, AlertMsg("fatal")>>)
  <2> DEFINE q == Closing(p1)
             al == AlertMsg("fatal")
             out == <<sh, al>>
  <2>1. sh.typ = "SH" /\ sh.body.sr = d + 1 /\ sh.body.cipher = q.cipher /\ al.typ = "ALERT"
    BY <1>4 DEF ServerHello, AlertMsg, Msg
  <2>2. q.state = "CLOSING" /\ Become("S", q, out)
    BY <1>4, <1>6
  <2>3. drawn' = [drawn EXCEPT !["S"] = d + 1]
    BY <1>6
  <2> HIDE DEF q, sh, al
  <2>4. IsSeq(out) /\ Len(out) = 2 /\ out[1] = sh /\ out[2] = al
    BY SeqOfThree
  <2> HIDE DEF out
  <2>5. ServerPair(q, d + 1)
    BY <2>2 DEF ServerPair, Ended, NotYet
  <2>6. \A i \in 1..Len(out) :
        /\ out[i].typ # "FIN"
        /\ out[i].typ = "SH" =>
              i = 1 /\ out[i].body.sr = d + 1 /\ out[i].body.cipher = q.cipher
    BY <2>1, <2>4
  <2>7. ServerAnswer(q, out, d)
    BY <2>2, <2>4, <2>5, <2>6 DEF ServerAnswer
  <2> QED BY <2>2, <2>3, <2>7 DEF ServerPairResult
<1>7. CASE /\ drawn' = [drawn EXCEPT !["S"] = sr]
           /\ Become("S", p2, HelloFlight(p1, sr))
  <2> DEFINE out == HelloFlight(p1, sr)
  <2>1. /\ p2.tmp = <<b.hello.cr, sr>> /\ p2.hello = p1.hello /\ p2.cipher = p1.cipher
        /\ p2.state \in {"WAIT_CLIENTCERTIFICATE", "WAIT_CLIENTKEYEXCHANGE"}
    BY <1>2 DEF Fields
  <2>2. /\ IsSeq(out)
        /\ \A i \in 1..Len(out) :
             /\ out[i].typ # "FIN"
             /\ out[i].typ = "SH" =>
                   i = 1 /\ out[i].body.sr = sr /\ out[i].body.cipher = p1.cipher
    BY FlightOfPair
  <2>3. Become("S", p2, out) /\ drawn' = [drawn EXCEPT !["S"] = d + 1] /\ sr = d + 1
    BY <1>7
  <2> HIDE DEF p2, out
  <2>4. p2.tmp[2] = d + 1
    BY <2>1, <2>3
  <2>5. p2.hello # <<>> /\ p2.hello[1].list
    BY <1>2, <2>1
  <2>6. ServerPair(p2, d + 1)
    BY <2>1, <2>4, <2>5 DEF ServerPair, NotYet
  <2> HIDE DEF sr
  <2>7. ServerAnswer(p2, out, d)
    BY <2>1, <2>2, <2>3, <2>6 DEF ServerAnswer
  <2> QED BY <2>3, <2>7 DEF ServerPairResult
<1> QED BY <1>3, <1>5, <1>6, <1>7

\* dtls_handle_message() of the server of a pair.
LEMMA PairServerHandles ==
    ASSUME NEW p, NEW d, d = drawn["S"], ServerPair(p, d), DOMAIN p = Fields,
           NEW m, Good("S", m), m.typ = "CH" => m.body.hello.list, Handle("S", p, m)
    PROVE  ServerPairResult(p, m, d)
<1>1. m.typ \in ToServer
  BY DEF Good
<1>2. m.typ # "HVR" /\ m.typ # "SH" /\ m.typ # "SKX" /\ m.typ # "CREQ" /\ m.typ # "SHD"
  BY <1>1 DEF ToServer
<1>3. CASE m.typ = "CERT" /\ HandleCertificate("S", p, m.body)
  BY <1>3, PairClientCertificate
<1>4. CASE m.typ = "CH" /\ SendHelloVerify(p, m.body)
  BY <1>4, PairVerifyAnswer
<1>5. CASE m.typ = "CH" /\ AcceptHello(p, m.body)
  BY <1>5, PairClientHello
<1>6. CASE m.typ = "CKX" /\ HandleClientKeyExchange(p, m.body)
  BY <1>6, PairClientKeyExchange
<1>7. CASE m.typ = "CV" /\ HandleCertificateVerify(p, m.body)
  BY <1>7, PairCertificateVerify
<1>8. CASE m.typ = "CCS" /\ HandleCcs("S", p)
  BY <1>8, PairServerCcs
<1>9. CASE m.typ = "FIN" /\ HandleFinished("S", p, m.body)
  BY <1>9, PairServerFinished
<1>10. CASE m.typ = "ALERT" /\ HandleAlert("S", p, m.body)
  <2>1. Proceed("S", NoPeer, <<>>) \/ Proceed("S", p, <<>>)
    BY <1>10 DEF HandleAlert
  <2>2. NoPeer.state \in Ended
    BY DEF NoPeer, Ended
  <2> QED BY <2>1, <2>2, EndedPair, ServerUnmoved, PlainEmpty
<1>11. CASE Fail("S", p, <<>>) \/ Proceed("S", p, <<>>)
  BY <1>11, EndedByFailure, ServerUnmoved, PlainEmpty
<1> QED BY <1>2, <1>3, <1>4, <1>5, <1>6, <1>7, <1>8, <1>9, <1>10, <1>11 DEF Handle

-----------------------------------------------------------------------------
(* The invariant of a pair *)

LEMMA ChannelsAreSeqs ==
    ASSUME NEW e \in Endpoint, SuitesInv PROVE IsSeq(chan[e])
  BY DEF SuitesInv, GoodSeq, IsSeq

LEMMA InitPair == Init => PairInv
<1> SUFFICES ASSUME Init PROVE PairState(pr["C"], pr["S"], chan["C"], chan["S"], drawn["S"])
  BY DEF PairInv
<1>1. /\ pr["C"] = NoPeer /\ pr["S"] = NoPeer /\ drawn["S"] = 0
      /\ chan["C"] = <<>> /\ chan["S"] = <<>>
  BY DEF Init, Endpoint
<1>2. Len(<<>>) = 0
  OBVIOUS
<1>3. NoPeer.cipher = "NULL" /\ NoPeer.state = "INIT"
  BY DEF NoPeer
<1>4. ClientPair(NoPeer, 0)
  BY <1>3 DEF ClientPair, KeyedStates
<1>5. ServerPair(NoPeer, 0)
  BY <1>3 DEF ServerPair, Ended, NotYet
<1>6. PairState(NoPeer, NoPeer, <<>>, <<>>, 0)
  BY <1>2, <1>3, <1>4, <1>5 DEF PairState, Rising
<1> QED BY <1>1, <1>6

\* The parts of a state determine the invariant, as the callbacks never change.
LEMMA PairAfter ==
    ASSUME conf' = conf,
           PairState(pr'["C"], pr'["S"], chan'["C"], chan'["S"], drawn'["S"])
    PROVE  PairInv'
<1>1. PairState(pr["C"], pr["S"], chan["C"], chan["S"], drawn["S"])'
  BY DEF PairState, ClientPair, ServerPair, ToClientPair, ToServerPair, Rising, Quiet,
         Claim, Agrees, Sr, Cb
<1> QED BY <1>1 DEF PairInv

LEMMA PairDeliverClient ==
    ASSUME SuitesInv, PairInv, Deliver("C") PROVE PairInv'
<1> DEFINE c == pr["C"]
           s == pr["S"]
           d == drawn["S"]
           m == Head(chan["C"])
<1>1. /\ Pair /\ chan["C"] # <<>> /\ Handle("C", c, m)
      /\ PairState(c, s, chan["C"], chan["S"], d)
  BY DEF Deliver, PairInv
<1>2. "C" \in Endpoint /\ "S" \in Endpoint /\ Other("C") = "S"
  BY DEF Endpoint, Other
<1>3. /\ DOMAIN pr = Endpoint /\ DOMAIN chan = Endpoint /\ d \in Nat
      /\ DOMAIN c = Fields /\ GoodSeq("C", chan["C"])
  BY <1>2 DEF SuitesInv, ClientInv
<1>4. Good("C", m)
  BY <1>1, <1>3, GoodHead
<1>5. IsSeq(chan["C"]) /\ IsSeq(chan["S"])
  BY <1>2, ChannelsAreSeqs
<1>6. ToClientPair(m, s, d)
  <2>1. 1 \in 1..Len(chan["C"]) /\ m = chan["C"][1]
    BY <1>1, <1>5, TailIndex
  <2> QED BY <1>1, <2>1 DEF PairState
<1>7. ClientPair(c, d) /\ (m.typ = "SH" => m.body.sr \in 1..d)
  BY <1>1, <1>6 DEF PairState, ToClientPair
<1> HIDE DEF c, m, d
<1>8. ClientPairResult(c, m, d)
  BY <1>1, <1>3, <1>4, <1>7, PairClientHandles
<1>9. PICK q, out : Proceed("C", q, out) /\ ClientMove(c, m, q, out, d)
  BY <1>8 DEF ClientPairResult
<1>10. /\ pr' = [pr EXCEPT !["C"] = q] /\ drawn' = drawn /\ conf' = conf
       /\ chan' = [chan EXCEPT !["C"] = Tail(@), !["S"] = @ \o out]
  BY <1>1, <1>2, <1>9 DEF Proceed, Become
<1>11. /\ pr'["C"] = q /\ pr'["S"] = s /\ drawn'["S"] = d
       /\ chan'["C"] = Tail(chan["C"]) /\ chan'["S"] = chan["S"] \o out
  BY <1>2, <1>3, <1>10 DEF d
<1>12. PairState(q, s, Tail(chan["C"]), chan["S"] \o out, d)
  BY <1>1, <1>3, <1>5, <1>9, ClientMoves DEF m
<1> QED BY <1>10, <1>11, <1>12, PairAfter

LEMMA PairDeliverServer ==
    ASSUME SuitesInv, PairInv, Deliver("S") PROVE PairInv'
<1> DEFINE c == pr["C"]
           s == pr["S"]
           d == drawn["S"]
           m == Head(chan["S"])
<1>1. /\ Pair /\ chan["S"] # <<>> /\ Handle("S", s, m)
      /\ PairState(c, s, chan["C"], chan["S"], d)
  BY DEF Deliver, PairInv
<1>2. "C" \in Endpoint /\ "S" \in Endpoint /\ Other("S") = "C"
  BY DEF Endpoint, Other
<1>3. /\ DOMAIN pr = Endpoint /\ DOMAIN chan = Endpoint /\ d \in Nat /\ d = drawn["S"]
      /\ drawn \in [Endpoint -> Nat]
      /\ DOMAIN s = Fields /\ GoodSeq("S", chan["S"])
  BY <1>2 DEF SuitesInv, ServerInv
<1>4. Good("S", m)
  BY <1>1, <1>3, GoodHead
<1>5. IsSeq(chan["C"]) /\ IsSeq(chan["S"])
  BY <1>2, ChannelsAreSeqs
<1>6. ToServerPair(m, c, chan["C"], d)
  <2>1. 1 \in 1..Len(chan["S"]) /\ m = chan["S"][1]
    BY <1>1, <1>5, TailIndex
  <2> QED BY <1>1, <2>1 DEF PairState
<1>7. ServerPair(s, d) /\ (m.typ = "CH" => m.body.hello.list)
  BY <1>1, <1>6 DEF PairState, ToServerPair
<1> HIDE DEF s, m, d
<1>8. ServerPairResult(s, m, d)
  BY <1>1, <1>3, <1>4, <1>7, PairServerHandles
<1>9. PICK q, out :
        \/ Proceed("S", q, out) /\ ServerMove(s, m, q, out, d)
        \/ /\ Become("S", q, out) /\ ServerAnswer(q, out, d)
           /\ drawn' = [drawn EXCEPT !["S"] = d + 1]
  BY <1>8 DEF ServerPairResult
<1>10. /\ pr' = [pr EXCEPT !["S"] = q] /\ conf' = conf
       /\ chan' = [chan EXCEPT !["S"] = Tail(@), !["C"] = @ \o out]
  BY <1>1, <1>2, <1>9 DEF Proceed, Become
<1>11. /\ pr'["C"] = c /\ pr'["S"] = q
       /\ chan'["S"] = Tail(chan["S"]) /\ chan'["C"] = chan["C"] \o out
  BY <1>2, <1>3, <1>10
<1>12. CASE drawn' = drawn /\ ServerMove(s, m, q, out, d)
  <2>1. PairState(c, q, chan["C"] \o out, Tail(chan["S"]), d)
    BY <1>1, <1>3, <1>5, <1>12, ServerMoves DEF m
  <2>2. drawn'["S"] = d
    BY <1>3, <1>12
  <2> QED BY <1>10, <1>11, <2>1, <2>2, PairAfter
<1>13. CASE ServerAnswer(q, out, d) /\ drawn' = [drawn EXCEPT !["S"] = d + 1]
  <2>1. PairState(c, q, chan["C"] \o out, Tail(chan["S"]), d + 1)
    BY <1>1, <1>3, <1>5, <1>13, ServerAnswers
  <2>2. drawn'["S"] = d + 1
    BY <1>2, <1>3, <1>13
  <2> QED BY <1>10, <1>11, <2>1, <2>2, PairAfter
<1> QED BY <1>9, <1>12, <1>13 DEF Proceed

\* dtls_connect() and dtls_renegotiate(): the client forgets the random it had.
LEMMA PairStarts ==
    ASSUME SuitesInv, PairInv, StartHello, Pair PROVE PairInv'
<1> DEFINE c == pr["C"]
           s == pr["S"]
           d == drawn["S"]
           cc == chan["C"]
           cs == chan["S"]
           cr == drawn["C"] + 1
           n  == NewHandshake(c)
           q  == [n EXCEPT !.state = "CLIENTHELLO", !.tmp = <<cr, 0>>]
           m  == ClientHello(OwnHello(Cb("C"), cr), NoCookie)
           out == <<m>>
<1>1. /\ pr' = [pr EXCEPT !["C"] = q] /\ drawn' = [drawn EXCEPT !["C"] = cr]
      /\ chan' = [chan EXCEPT !["S"] = Append(@, m)] /\ conf' = conf
  BY DEF StartHello
<1>2. "C" \in Endpoint /\ "S" \in Endpoint
  BY DEF Endpoint
<1>3. DOMAIN pr = Endpoint /\ DOMAIN chan = Endpoint /\ drawn \in [Endpoint -> Nat] /\ d \in Nat
  BY <1>2 DEF SuitesInv
<1>4. q.state = "CLIENTHELLO" /\ q.cipher = "NULL"
  <2>1. DOMAIN n = Fields /\ n.cipher = "NULL"
    BY NoPeerFields DEF NewHandshake, Fields, NoPeer
  <2> HIDE DEF n
  <2> QED BY <2>1 DEF Fields
<1>5. m.typ = "CH" /\ m.body.hello.list
  BY DEF ClientHello, Msg, OwnHello
<1> HIDE DEF q, m, out, n
<1>6. IsSeq(cc) /\ IsSeq(cs)
  BY <1>2, ChannelsAreSeqs
<1>7. /\ pr'["C"] = q /\ pr'["S"] = s /\ drawn'["S"] = d
      /\ chan'["C"] = cc /\ chan'["S"] = Append(cs, m)
  BY <1>1, <1>2, <1>3
<1>8. PairState(c, s, cc, cs, d)
  BY DEF PairInv
<1>9. Sr(q) = 0 /\ q.state \notin KeyedStates /\ q.state # "CONNECTED"
  BY <1>4 DEF Sr, KeyedStates
<1>10. ClientPair(q, d)
  BY <1>4, <1>9 DEF ClientPair
<1>11. Quiet(c, cc, d) => Quiet(q, cc, d)
  BY <1>9 DEF Quiet
<1>12. Rising(cc, 0)
  <2>1. \A i \in 1..Len(cc) : cc[i].typ = "SH" => 0 < cc[i].body.sr
    BY <1>3, <1>8 DEF PairState, ToClientPair
  <2> QED BY <1>8, <2>1 DEF PairState, Rising
<1>13. \A i \in 1..Len(Append(cs, m)) : ToServerPair(Append(cs, m)[i], q, cc, d)
  <2>1. \A i \in 1..Len(cs) : ToServerPair(cs[i], q, cc, d)
    BY <1>8, <1>11 DEF PairState, ToServerPair
  <2>2. ToServerPair(m, q, cc, d)
    BY <1>5 DEF ToServerPair
  <2>3. /\ Len(cs) \in Nat
        /\ \A i \in 1..Len(Append(cs, m)) :
             \/ i \in 1..Len(cs) /\ Append(cs, m)[i] = cs[i]
             \/ Append(cs, m)[i] = m
    <3>1. PICK T : cs \in Seq(T)
      BY <1>6 DEF IsSeq
    <3> DEFINE V == T \cup {m}
    <3>2. T \subseteq V /\ m \in V
      OBVIOUS
    <3> HIDE DEF V
    <3>3. cs \in Seq(V)
      BY <3>1, <3>2, SeqMonotonic
    <3> QED BY <3>2, <3>3
  <2> QED BY <2>1, <2>2, <2>3
<1> HIDE DEF c, s, d, cc, cs
<1>14. PairState(q, s, cc, Append(cs, m), d)
  BY <1>8, <1>9, <1>10, <1>11, <1>12, <1>13 DEF PairState
<1> QED BY <1>1, <1>7, <1>14, PairAfter DEF s, d, cc, cs

LEMMA NextPair == SuitesInv /\ PairInv /\ [Next]_svars => PairInv'
<1> SUFFICES ASSUME SuitesInv, PairInv, [Next]_svars PROVE PairInv'
  OBVIOUS
<1>1. CASE StartHello
  <2>1. CASE Pair
    BY <1>1, <2>1, PairStarts
  <2>2. CASE ~Pair
    <3>1. conf' = conf
      BY <1>1 DEF StartHello
    <3> QED BY <2>2, <3>1 DEF PairInv, Pair
  <2> QED BY <2>1, <2>2
<1>2. CASE ForeignServer \/ ForeignClient
  <2>1. conf' = conf
    <3>1. /\ ClientInv(pr["C"], drawn["C"]) /\ ServerInv(pr["S"]) /\ Choice(pr["S"])
      BY DEF SuitesInv
    <3>2. CASE ForeignServer
      <4>1. PICK m \in FromServer(pr["C"]) : Handle("C", pr["C"], m)
        BY <3>2 DEF ForeignServer
      <4>2. ClientResult(drawn["C"])
        BY <3>1, <4>1, FromServerIsGood, ClientHandles
      <4> QED BY <4>2 DEF ClientResult, Proceed, Become
    <3>3. CASE ForeignClient
      <4>1. PICK m \in FromClient(pr["S"]) : Handle("S", pr["S"], m)
        BY <3>3 DEF ForeignClient
      <4>2. ServerResult
        BY <3>1, <4>1, FromClientIsGood, ServerHandles
      <4> QED BY <4>2 DEF ServerResult, Become
    <3> QED BY <1>2, <3>2, <3>3
  <2>2. ~Pair
    BY <1>2 DEF ForeignServer, ForeignClient, Pair
  <2> QED BY <2>1, <2>2 DEF PairInv, Pair
<1>3. CASE Deliver("C")
  BY <1>3, PairDeliverClient
<1>4. CASE Deliver("S")
  BY <1>4, PairDeliverServer
<1>5. CASE UNCHANGED svars
  <2>1. pr' = pr /\ chan' = chan /\ conf' = conf /\ drawn' = drawn
    BY <1>5 DEF svars
  <2>2. CASE Pair
    <3>1. PairState(pr'["C"], pr'["S"], chan'["C"], chan'["S"], drawn'["S"])
      BY <2>1, <2>2 DEF PairInv
    <3> QED BY <2>1, <3>1, PairAfter
  <2>3. CASE ~Pair
    BY <2>1, <2>3 DEF PairInv, Pair
  <2> QED BY <2>2, <2>3
<1> QED BY <1>1, <1>2, <1>3, <1>4, <1>5 DEF Next, Endpoint

LEMMA PairInvariant == Spec => [](SuitesInv /\ PairInv)
<1>1. Init => SuitesInv /\ PairInv
  BY InitSuites, InitPair
<1>2. SuitesInv /\ PairInv /\ [Next]_svars => (SuitesInv /\ PairInv)'
  BY NextSuites, NextPair
<1> QED BY <1>1, <1>2, PTL DEF Spec

\* dtls_handle_message() on both sides: however many handshakes a pair has run,
\* one after the other or begun again in the middle, a connected client and a
\* connected server with nothing under way have the keys of the same handshake,
\* of one suite that both applications support.
THEOREM PairHasOneSession == Spec => []PairAgrees
<1>1. ASSUME SuitesInv, PairInv PROVE PairAgrees
  <2> DEFINE c == pr["C"]
             s == pr["S"]
             d == drawn["S"]
  <2> SUFFICES ASSUME Pair, \A e \in Endpoint : pr[e].state = "CONNECTED"
               PROVE  /\ c.sec = s.sec
                      /\ known_cipher(Cb("C"), c.sec.cipher, TRUE)
                      /\ known_cipher(Cb("S"), c.sec.cipher, FALSE)
    BY DEF PairAgrees
  <2>1. /\ PairState(c, s, chan["C"], chan["S"], d) /\ Choice(s)
        /\ c.state = "CONNECTED" /\ s.state = "CONNECTED"
    BY <1>1 DEF PairInv, SuitesInv, Endpoint
  <2> HIDE DEF c, s, d
  <2>2. /\ ClientPair(c, d) /\ ServerPair(s, d) /\ Quiet(c, chan["C"], d)
        /\ Claim(c.tmp, s, d) /\ (Sr(c) = d /\ d # 0 => Agrees(c.cipher, s))
    BY <2>1 DEF PairState
  <2>3. c.state \in KeyedStates /\ c.state \notin Waiting /\ s.state \notin Ended
    BY <2>1 DEF KeyedStates, Waiting, Ended
  <2>4. /\ c.cipher # "NULL" /\ c.sec = [cipher |-> c.cipher, master |-> c.tmp]
        /\ Sr(c) \in 1..d /\ Sr(c) = c.tmp[2][2] /\ known_cipher(Cb("C"), c.cipher, TRUE)
    BY <2>2, <2>3 DEF ClientPair, Sr
  <2>5. Sr(c) = d /\ d # 0
    BY <2>2, <2>4 DEF Quiet
  <2>6. c.tmp = s.tmp /\ c.cipher = s.cipher
    BY <2>2, <2>3, <2>4, <2>5 DEF Claim, Agrees
  <2>7. s.sec = [cipher |-> s.cipher, master |-> s.tmp]
    BY <2>1, <2>2 DEF ServerPair
  <2>8. c.sec = s.sec /\ c.sec.cipher = s.cipher
    BY <2>4, <2>6, <2>7
  <2>9. s.hello # <<>> /\ s.hello[1].list /\ s.state # "CLOSING"
    BY <2>1, <2>2, <2>3 DEF ServerPair
  <2>10. known_cipher(Cb("S"), s.cipher, FALSE)
    BY <2>1, <2>9 DEF Choice, Suite, known_cipher, is_psk_supported, is_ecdsa_supported
  <2> QED BY <2>4, <2>6, <2>8, <2>10
<1>2. SuitesInv /\ PairInv => PairAgrees
  BY <1>1
<1> QED BY <1>2, PairInvariant, PTL
=============================================================================
