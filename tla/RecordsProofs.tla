---------------------------- MODULE RecordsProofs ----------------------------
(***************************************************************************)
(* Theorems about the sending half of dtls.c (module Records): a nonce is  *)
(* used once, Finished and application data are sealed under the key of    *)
(* their session, the epoch of a living peer does not go back, and the     *)
(* receiver of the fragments has the transcript of their sender.           *)
(***************************************************************************)
EXTENDS Records, SequenceTheorems, TLAPS

-----------------------------------------------------------------------------
(* Types *)

Role == {"C", "S"}
State == {"none", "hello", "verified", "flight", "ccs", "connected", "request"}
Kind == {"CH1", "CH", "HVR", "SH", "SHD", "CKX", "FIN", "HREQ", "CCS", "APP", "ALERT", ""}
Op == {"msg", "rec", "key", "switch", "connected", "free"}
SecType == [ep : Int, key : Nat, rseq : Nat]
HeaderType == [kind : Kind, seq : Nat, len : Nat]
PeerType == [st : State, role : Role, sec0 : SecType, sec1 : SecType,
             hs : BOOLEAN, s : Nat, hashed : Seq(HeaderType)]
StepType == [op : Op, kind : Kind, len : Nat, rem : Nat, hash : BOOLEAN]
NodeType == [ep : Int, kind : Kind, ses : Nat, off : Int, cnt : Nat]
RecordType == [con : Nat, role : Role, ep : Int, rseq : Nat, key : Nat,
               bare : BOOLEAN, kind : Kind, ses : Nat, off : Int]
UsedType == [con : Nat, keys : Nat, extra : Nat, again : Nat]

\* The variables the nonces are about; TranscriptInv is about rx.
Types ==
    /\ peer \in PeerType
    /\ todo \in Seq(StepType)
    /\ queue \in Seq(NodeType)
    /\ used \in UsedType
    /\ Sent \subseteq RecordType
    /\ wire \in [Sent -> Nat]

-----------------------------------------------------------------------------
(* The scripts of todo *)

MakeKey == Step("key", "")
SendCcs == Step("rec", "CCS")
DoSwitch == Step("switch", "")
SendFin == Msg("FIN", Short, TRUE)
Done == Step("connected", "")
SendApp == Step("rec", "APP")
SendAlert == Step("rec", "ALERT")
DoFree == Step("free", "")

\* Messages of which none is a Finished or starts a script.
Plain(t) == \A i \in 1..Len(t) : t[i].op = "msg" /\ t[i].kind \notin {"FIN", "APP"}

\* The client's key exchange is under way, the key is not made.
Keying(t) ==
    \/ /\ Len(t) = 5 /\ t[1].op = "msg" /\ t[1].kind = "CKX"
       /\ Tail(t) = <<MakeKey, SendCcs, DoSwitch, SendFin>>
    \/ t = <<MakeKey, SendCcs, DoSwitch, SendFin>>

\* Either side is about to switch to the key it has made.
ClientSwitching == {<<SendCcs, DoSwitch, SendFin>>, <<DoSwitch, SendFin>>}
ServerSwitching == {<<SendCcs, DoSwitch, SendFin, Done>>, <<DoSwitch, SendFin, Done>>}

\* The key of the session is in use, or it is that of the next epoch.
Keyed(p, u) == p.sec0.key = u.keys /\ u.keys > 0
NextKeyed(p, u) == p.sec1.key = u.keys /\ u.keys > 0 /\ p.sec1.ep = p.sec0.ep + 1

\* What a peer has between two calls.
Waiting(p, u) ==
    /\ p.st = "connected" => Keyed(p, u)
    /\ p.st = "flight" /\ p.role = "C" => Keyed(p, u)
    /\ p.st = "ccs" => NextKeyed(p, u)

NoFinished(q) == \A i \in 1..Len(q) : q[i].kind # "FIN"

\* What holds of the call that is under way.
Phase(p, t, q, u) ==
    \/ Plain(t) /\ Waiting(p, u)
    \/ Keying(t) /\ NoFinished(q) /\ p.st = "flight"
    \/ t \in ClientSwitching /\ NoFinished(q) /\ p.st = "flight" /\ NextKeyed(p, u)
    \/ t = <<SendFin>> /\ p.st = "flight" /\ Keyed(p, u)
    \/ t = <<MakeKey>> /\ p.st = "ccs"
    \/ t \in ServerSwitching /\ NoFinished(q) /\ p.st = "ccs" /\ NextKeyed(p, u)
    \/ t \in {<<SendFin, Done>>, <<Done>>} /\ Keyed(p, u)
    \/ t = <<SendApp>> /\ p.st = "connected" /\ Keyed(p, u)
    \/ t \in {<<SendAlert, DoFree>>, <<DoFree>>} /\ q = <<>>

\* No node is of a later epoch, and a Finished is of the current one.
QueueInv(p, q) ==
    \A i \in 1..Len(q) :
        /\ q[i].ep >= 0 /\ q[i].ep <= p.sec0.ep /\ Copied(q[i].kind)
        /\ q[i].kind = "FIN" =>
              q[i].ep = p.sec0.ep /\ q[i].ses = p.sec0.key /\ q[i].ses # NoKey

-----------------------------------------------------------------------------
(* Parameters and the records on the wire *)

\* The HelloVerifyRequest without a peer.
Stateless(u) ==
    [con |-> u.con + 1, role |-> "S", ep |-> 0, rseq |-> 0, key |-> NoKey,
     bare |-> TRUE, kind |-> "HVR", ses |-> u.keys, off |-> 0]

Secs(p) == {p.sec0, p.sec1} \ {NoSec}

\* The records of the connection of p.
Own(p, u, S) == {r \in S : r.con = u.con /\ r.role = p.role}

\* A peer that lives has two different epochs, and their keys are its own; the
\* counters are ahead of what was sent, and nothing was sent in a later epoch.
SecInv(p, u, S) ==
    /\ p.sec0.ep >= 0 /\ p.sec0.ep # p.sec1.ep
    /\ p.sec0.key = p.sec1.key => p.sec0.key = NoKey
    /\ \A c \in Secs(p) :
          /\ c.ep >= 0 /\ c.key <= u.keys
          /\ c.ep = 0 /\ p.role = "S" => c.rseq >= 1
          /\ c.key # NoKey => \A r \in S : r.key = c.key => r \in Own(p, u, S) /\ r.ep = c.ep
          /\ \A r \in Own(p, u, S) : r.ep = c.ep /\ ~r.bare => r.rseq < c.rseq
    /\ \A r \in Own(p, u, S) : r.ep <= p.sec0.ep

PeerInv(p, t, q, u, S) ==
    IF p.st = "none" THEN p = NoPeer /\ t = <<>> /\ q = <<>> ELSE SecInv(p, u, S)

\* Every record on the wire.
SentInv(p, u, S) ==
    \A r \in S :
        /\ r.con <= u.con + 1 /\ r.key <= u.keys /\ r.ep >= 0
        /\ r.con = u.con + 1 => p.st = "none" /\ r = Stateless(u)
        /\ r.bare => r.key = NoKey
        /\ ~r.bare /\ r.role = "S" /\ r.ep = 0 => r.rseq >= 1
        /\ r.bare /\ r.kind = "HVR" => r.role = "S" /\ r.ep = 0 /\ r.rseq = 0
        /\ r.kind \in {"FIN", "APP"} => r.key # NoKey /\ r.key = r.ses

\* Two records on the wire.
PairInv(S) ==
    \A r, s \in S :
        /\ r.con = s.con /\ r.bare /\ s.bare /\ r.kind = "HVR" /\ s.kind = "HVR" => r = s
        /\ r.key # NoKey /\ r.key = s.key => r.con = s.con /\ r.role = s.role /\ r.ep = s.ep
        /\ /\ ~r.bare /\ ~s.bare
           /\ r.con = s.con /\ r.role = s.role /\ r.ep = s.ep /\ r.rseq = s.rseq
           => r = s

\* A sealed record was sent once.
OnceInv(w) == \A r \in DOMAIN w : r.key # NoKey => w[r] = 1

RecordsInv ==
    /\ Types
    /\ Phase(peer, todo, queue, used)
    /\ QueueInv(peer, queue)
    /\ PeerInv(peer, todo, queue, used, Sent)
    /\ SentInv(peer, used, Sent)
    /\ PairInv(Sent)
    /\ OnceInv(wire)

-----------------------------------------------------------------------------
(* Bags and sequences *)

LEMMA PutOne ==
    ASSUME wire \in [Sent -> Nat], NEW r, Put(r)
    PROVE  /\ Sent' = Sent \cup {r} /\ wire' \in [Sent' -> Nat]
           /\ \A x \in Sent : x # r => wire'[x] = wire[x]
           /\ r \notin Sent => wire'[r] = 1
<1> DEFINE one == SetToBag({r})
           w   == wire (+) one
<1>1. DOMAIN one = {r} /\ one[r] = 1
  BY DEF SetToBag
<1> HIDE DEF one
<1>2. /\ DOMAIN wire = Sent /\ DOMAIN w = Sent \cup {r}
      /\ \A x \in Sent \cup {r} : w[x] = (IF x \in Sent THEN wire[x] ELSE 0)
                                         + (IF x \in {r} THEN one[x] ELSE 0)
  BY <1>1 DEF Sent, BagToSet, (+)
<1>3. w = [x \in Sent \cup {r} |-> w[x]]
  BY <1>1, <1>2 DEF (+)
<1> HIDE DEF w
<1>4. \A x \in Sent \cup {r} : w[x] \in Nat
  BY <1>1, <1>2
<1>5. wire' = w
  BY DEF Put, w, one
<1>6. Sent' = Sent \cup {r}
  BY <1>2, <1>5 DEF Sent, BagToSet
<1> QED BY <1>1, <1>2, <1>3, <1>4, <1>5, <1>6

\* An element appended to a queue.
LEMMA AppendOne ==
    ASSUME NEW R, NEW q \in Seq(R), NEW x \in R
    PROVE  /\ Append(q, x) \in Seq(R)
           /\ \A i \in 1..Len(Append(q, x)) :
                 Append(q, x)[i] = x \/ \E j \in 1..Len(q) : Append(q, x)[i] = q[j]
<1>1. /\ Append(q, x) \in Seq(R) /\ Len(Append(q, x)) = Len(q) + 1 /\ Len(q) \in Nat
      /\ \A i \in 1..Len(q) : Append(q, x)[i] = q[i]
      /\ Append(q, x)[Len(q) + 1] = x
  BY AppendProperties, LenProperties
<1>2. \A i \in 1..Len(q) + 1 : i \in 1..Len(q) \/ i = Len(q) + 1
  BY <1>1
<1> QED BY <1>1, <1>2

LEMMA HeadAndTail ==
    ASSUME NEW R, NEW q \in Seq(R), q # <<>>
    PROVE  /\ Head(q) \in R /\ Head(q) = q[1] /\ Tail(q) \in Seq(R)
           /\ Len(q) \in Nat /\ 1 \in 1..Len(q) /\ Len(Tail(q)) = Len(q) - 1
           /\ \A i \in 1..Len(Tail(q)) : i + 1 \in 1..Len(q) /\ Tail(q)[i] = q[i + 1]
<1>1. /\ Head(q) \in R /\ Head(q) = q[1] /\ Tail(q) \in Seq(R)
      /\ Len(Tail(q)) = Len(q) - 1
      /\ \A i \in 1..Len(Tail(q)) : Tail(q)[i] = q[i + 1]
  BY HeadTailProperties
<1>2. Len(q) \in Nat /\ Len(q) >= 1
  BY EmptySeq, LenProperties
<1> QED BY <1>1, <1>2

\* The scripts, step by step.
LEMMA Tuples ==
    ASSUME NEW a, NEW b, NEW c, NEW d
    PROVE  /\ Len(<<a>>) = 1 /\ Head(<<a>>) = a /\ <<a>>[1] = a /\ Tail(<<a>>) = <<>>
           /\ Len(<<a, b>>) = 2 /\ Head(<<a, b>>) = a /\ <<a, b>>[1] = a
           /\ Tail(<<a, b>>) = <<b>>
           /\ Len(<<a, b, c>>) = 3 /\ Head(<<a, b, c>>) = a /\ <<a, b, c>>[1] = a
           /\ Tail(<<a, b, c>>) = <<b, c>>
           /\ Len(<<a, b, c, d>>) = 4 /\ Head(<<a, b, c, d>>) = a /\ <<a, b, c, d>>[1] = a
           /\ Tail(<<a, b, c, d>>) = <<b, c, d>>
OBVIOUS

-----------------------------------------------------------------------------
(* Parameters and records *)

LEMMA PeerFields ==
    ASSUME NEW p \in PeerType
    PROVE  /\ p.st \in State /\ p.role \in Role /\ p.hs \in BOOLEAN /\ p.s \in Nat
           /\ p.sec0 \in SecType /\ p.sec1 \in SecType /\ p.hashed \in Seq(HeaderType)
           /\ \A c \in {p.sec0, p.sec1} : c.ep \in Int /\ c.key \in Nat /\ c.rseq \in Nat
BY DEF PeerType, SecType

\* A record sent under the parameters c of a peer that lives, which count it.
LEMMA SealedRecord ==
    ASSUME NEW u \in UsedType, NEW S \in SUBSET RecordType, NEW p \in PeerType,
           NEW q \in PeerType, p.st # "none", q.st # "none", q.role = p.role,
           NEW c \in Secs(p), NEW r \in RecordType,
           \/ c = p.sec0 /\ q.sec0 = Counted(p.sec0) /\ q.sec1 = p.sec1
           \/ c = p.sec1 /\ q.sec1 = Counted(p.sec1) /\ q.sec0 = p.sec0,
           c.ep <= p.sec0.ep, r.con = u.con, r.role = p.role, r.ep = c.ep, r.rseq = c.rseq, r.key = c.key,
           ~r.bare, r.kind \in {"FIN", "APP"} => r.key # NoKey /\ r.key = r.ses,
           SecInv(p, u, S), SentInv(p, u, S), PairInv(S)
    PROVE  /\ SecInv(q, u, S \cup {r}) /\ SentInv(q, u, S \cup {r})
           /\ PairInv(S \cup {r}) /\ r \notin S
<1> DEFINE T == S \cup {r}
<1>1. /\ u.con \in Nat /\ u.keys \in Nat /\ c \in SecType
      /\ c.ep \in Int /\ c.key \in Nat /\ c.rseq \in Nat /\ c.ep >= 0
      /\ c \in {p.sec0, p.sec1} /\ p.role \in Role
  BY PeerFields DEF UsedType, Secs, SecInv, SecType
<1>2. \A x \in S : /\ x.con \in Nat /\ x.ep \in Int /\ x.rseq \in Nat /\ x.key \in Nat
                   /\ x.bare \in BOOLEAN
  BY DEF RecordType
<1>3. \A x \in S : x.con = r.con /\ x.role = r.role => x \in Own(p, u, S)
  BY DEF Own
<1>4. \A x \in S : x.con = r.con /\ x.role = r.role /\ x.ep = r.ep /\ ~x.bare =>
         x.rseq < r.rseq
  BY <1>3 DEF SecInv
<1>5. r \notin S
  BY <1>1, <1>4
<1>6. SentInv(q, u, T)
  <2>1. /\ r.con <= u.con + 1 /\ r.key <= u.keys /\ r.ep >= 0 /\ r.con # u.con + 1
        /\ r.role = "S" /\ r.ep = 0 => r.rseq >= 1
    BY <1>1 DEF SecInv
  <2>2. \A x \in S : x.con # u.con + 1
    BY DEF SentInv
  <2> QED BY <1>1, <2>1, <2>2 DEF SentInv
<1>7. PairInv(T)
  <2>1. ASSUME NEW x \in S
        PROVE  /\ r.key # NoKey /\ r.key = x.key =>
                     r.con = x.con /\ r.role = x.role /\ r.ep = x.ep
               /\ ~(~x.bare /\ r.con = x.con /\ r.role = x.role /\ r.ep = x.ep
                    /\ r.rseq = x.rseq)
    <3>1. r.key # NoKey /\ r.key = x.key => x \in Own(p, u, S) /\ x.ep = c.ep
      BY DEF SecInv
    <3>2. r.key # NoKey /\ r.key = x.key =>
             r.con = x.con /\ r.role = x.role /\ r.ep = x.ep
      BY <3>1 DEF Own
    <3> QED BY <1>1, <1>2, <1>4, <3>2
  <2>2. ASSUME NEW x \in T, NEW y \in T
        PROVE  /\ x.con = y.con /\ x.bare /\ y.bare /\ x.kind = "HVR" /\ y.kind = "HVR"
                     => x = y
               /\ x.key # NoKey /\ x.key = y.key =>
                     x.con = y.con /\ x.role = y.role /\ x.ep = y.ep
               /\ /\ ~x.bare /\ ~y.bare
                  /\ x.con = y.con /\ x.role = y.role /\ x.ep = y.ep /\ x.rseq = y.rseq
                  => x = y
    <3>1. CASE x \in S /\ y \in S
      BY <3>1 DEF PairInv
    <3>2. CASE x = r /\ y \in S
      BY <2>1, <3>2
    <3>3. CASE x \in S /\ y = r
      BY <2>1, <3>3
    <3>4. CASE x = r /\ y = r
      BY <3>4
    <3> QED BY <3>1, <3>2, <3>3, <3>4
  <2> QED BY <2>2 DEF PairInv
<1>8. SecInv(q, u, T)
  <2> DEFINE n == Counted(c)
  <2>1. n \in SecType /\ n.ep = c.ep /\ n.key = c.key /\ n.rseq = c.rseq + 1
    BY <1>1 DEF Counted, SecType
  <2>2. n # NoSec
    BY <1>1, <2>1 DEF NoSec
  <2> HIDE DEF n
  <2>3. \/ c = p.sec0 /\ q.sec0 = n /\ q.sec1 = p.sec1
        \/ c = p.sec1 /\ q.sec1 = n /\ q.sec0 = p.sec0
    BY DEF n
  <2>4. /\ q.sec0.ep = p.sec0.ep /\ q.sec1.ep = p.sec1.ep
        /\ q.sec0.key = p.sec0.key /\ q.sec1.key = p.sec1.key
    BY <2>1, <2>3
  <2>5. Own(q, u, T) = Own(p, u, S) \cup {r}
    BY DEF Own
  <2>6. \A d \in Secs(q) : d = n \/ (d \in Secs(p) /\ d.ep # c.ep
                                       /\ (d.key = c.key => c.key = NoKey))
    BY <2>1, <2>3 DEF Secs, SecInv
  <2>7. \A x \in Own(p, u, S) : x.ep <= p.sec0.ep
    BY DEF SecInv
  <2>8. ASSUME NEW d \in Secs(q)
        PROVE  /\ d.ep >= 0 /\ d.key <= u.keys
               /\ d.ep = 0 /\ q.role = "S" => d.rseq >= 1
               /\ d.key # NoKey => \A x \in T : x.key = d.key =>
                                       x \in Own(q, u, T) /\ x.ep = d.ep
               /\ \A x \in Own(q, u, T) : x.ep = d.ep /\ ~x.bare => x.rseq < d.rseq
    <3>1. CASE d = n
      <4>1. \A x \in S : x.key = c.key /\ c.key # NoKey => x \in Own(p, u, S) /\ x.ep = c.ep
        BY DEF SecInv
      <4>2. \A x \in Own(p, u, S) : x.ep = c.ep /\ ~x.bare => x.rseq < c.rseq
        BY DEF SecInv
      <4>3. \A x \in Own(p, u, S) : x.rseq \in Nat
        BY <1>2 DEF Own
      <4>4. c.key <= u.keys /\ (c.ep = 0 /\ p.role = "S" => c.rseq >= 1)
        BY DEF SecInv
      <4>5. \A x \in Own(q, u, T) : x.ep = d.ep /\ ~x.bare => x.rseq < d.rseq
        <5>1. \A x \in Own(p, u, S) : x.ep = d.ep /\ ~x.bare => x.rseq < d.rseq
          BY <1>1, <2>1, <3>1, <4>2, <4>3
        <5>2. r.rseq < d.rseq
          BY <1>1, <2>1, <3>1
        <5> QED BY <2>5, <5>1, <5>2
      <4>6. d.key # NoKey => \A x \in T : x.key = d.key => x \in Own(q, u, T) /\ x.ep = d.ep
        <5>1. r \in Own(q, u, T) /\ r.ep = d.ep
          BY <2>1, <2>5, <3>1
        <5> QED BY <2>1, <2>5, <3>1, <4>1, <5>1
      <4>7. /\ d.ep >= 0 /\ d.key <= u.keys
            /\ d.ep = 0 /\ q.role = "S" => d.rseq >= 1
        BY <1>1, <2>1, <3>1, <4>4
      <4> QED BY <4>5, <4>6, <4>7
    <3>2. CASE d \in Secs(p) /\ d.ep # c.ep /\ (d.key = c.key => c.key = NoKey)
      BY <2>5, <3>2 DEF SecInv
    <3> QED BY <2>6, <3>1, <3>2
  <2>9. \A x \in Own(q, u, T) : x.ep <= q.sec0.ep
    BY <2>4, <2>5, <2>7
  <2>10. /\ q.sec0.ep >= 0 /\ q.sec0.ep # q.sec1.ep
         /\ q.sec0.key = q.sec1.key => q.sec0.key = NoKey
    BY <2>4 DEF SecInv
  <2> HIDE DEF T
  <2> QED BY <2>8, <2>9, <2>10 DEF SecInv
<1> QED BY <1>5, <1>6, <1>7, <1>8


\* A copy of a record without parameters is sent by a peer that lives.
LEMMA BareRecord ==
    ASSUME NEW u \in UsedType, NEW S \in SUBSET RecordType, NEW p \in PeerType,
           p.st # "none", NEW r \in RecordType, r.con = u.con, r.role = p.role,
           r.ep = 0, r.key = NoKey, r.bare, r.kind \notin {"HVR", "FIN", "APP"},
           SecInv(p, u, S), SentInv(p, u, S), PairInv(S)
    PROVE  /\ SecInv(p, u, S \cup {r}) /\ SentInv(p, u, S \cup {r})
           /\ PairInv(S \cup {r})
<1> DEFINE T == S \cup {r}
<1>1. /\ u.con \in Nat /\ u.keys \in Nat /\ p.sec0.ep >= 0 /\ NoKey = 0
      /\ Own(p, u, T) = Own(p, u, S) \cup {r}
  BY DEF UsedType, SecInv, Own, NoKey
<1>2. SentInv(p, u, T)
  BY <1>1 DEF SentInv
<1>3. PairInv(T)
  BY DEF PairInv
<1>4. SecInv(p, u, T)
  <2> HIDE DEF T
  <2>1. \A x \in T : x \in S \/ x = r
    BY DEF T
  <2>2. \A d \in Secs(p) : d.key # NoKey =>
           \A x \in T : x.key = d.key => x \in Own(p, u, T) /\ x.ep = d.ep
    BY <1>1, <2>1 DEF SecInv
  <2>3. \A d \in Secs(p) : \A x \in Own(p, u, T) : x.ep = d.ep /\ ~x.bare => x.rseq < d.rseq
    BY <1>1 DEF SecInv
  <2>4. \A x \in Own(p, u, T) : x.ep <= p.sec0.ep
    BY <1>1 DEF SecInv
  <2> QED BY <2>2, <2>3, <2>4 DEF SecInv
<1> QED BY <1>2, <1>3, <1>4

\* Before there is a peer, the HelloVerifyRequest of the next connection.
LEMMA StatelessRecord ==
    ASSUME NEW u \in UsedType, NEW S \in SUBSET RecordType, NEW p \in PeerType,
           p.st = "none", SentInv(p, u, S), PairInv(S)
    PROVE  /\ Stateless(u) \in RecordType
           /\ SentInv(p, u, S \cup {Stateless(u)}) /\ PairInv(S \cup {Stateless(u)})
<1> DEFINE r == Stateless(u)
           T == S \cup {r}
<1>1. u.con \in Nat /\ u.keys \in Nat /\ NoKey = 0
  BY DEF UsedType, NoKey
<1>2. r \in RecordType
  <2>1. u.con + 1 \in Nat
    BY <1>1
  <2>2. "S" \in Role /\ "HVR" \in Kind
    BY DEF Role, Kind
  <2> QED BY <1>1, <2>1, <2>2 DEF RecordType, Stateless
<1>3. /\ r.con = u.con + 1 /\ r.role = "S" /\ r.ep = 0 /\ r.rseq = 0
      /\ r.key = NoKey /\ r.bare /\ r.kind = "HVR"
  BY DEF Stateless
<1>4. \A x \in S : x.con = u.con + 1 => x = r
  BY DEF SentInv
<1> HIDE DEF r
<1>5. SentInv(p, u, T)
  <2>1. r = Stateless(u)
    BY DEF r
  <2> QED BY <1>1, <1>3, <2>1 DEF SentInv
<1>6. PairInv(T)
  BY <1>3, <1>4 DEF PairInv
<1> QED BY <1>2, <1>5, <1>6 DEF r

\* A step that sends nothing and keeps the parameters, or frees the other ones.
LEMMA KeepParameters ==
    ASSUME NEW u \in UsedType, NEW v \in UsedType, v.con = u.con, v.keys = u.keys,
           NEW S \in SUBSET RecordType, NEW p \in PeerType, NEW q \in PeerType,
           p.st # "none", q.st # "none", q.role = p.role, q.sec0 = p.sec0,
           q.sec1 \in {p.sec1, NoSec}, SecInv(p, u, S), SentInv(p, u, S)
    PROVE  SecInv(q, v, S) /\ SentInv(q, v, S)
<1>1. SentInv(q, v, S)
  BY DEF SentInv, Stateless
<1>2. Own(q, v, S) = Own(p, u, S) /\ Secs(q) \subseteq Secs(p)
  BY DEF Own, Secs
<1>3. /\ q.sec0.ep >= 0 /\ q.sec0.ep # q.sec1.ep
      /\ q.sec0.key = q.sec1.key => q.sec0.key = NoKey
  BY DEF SecInv, NoSec, NoKey
<1>4. \A c \in Secs(q) :
          /\ c.ep >= 0 /\ c.key <= v.keys
          /\ c.ep = 0 /\ q.role = "S" => c.rseq >= 1
          /\ c.key # NoKey => \A r \in S : r.key = c.key => r \in Own(q, v, S) /\ r.ep = c.ep
          /\ \A r \in Own(q, v, S) : r.ep = c.ep /\ ~r.bare => r.rseq < c.rseq
  BY <1>2 DEF SecInv
<1>5. \A r \in Own(q, v, S) : r.ep <= q.sec0.ep
  BY <1>2 DEF SecInv
<1> QED BY <1>1, <1>3, <1>4, <1>5 DEF SecInv

-----------------------------------------------------------------------------
(* A record on the wire *)

\* Made() under c: the parameters of the peer, or none.
LEMMA MadeRecord ==
    ASSUME Types, NEW c \in SecType, NEW kind \in Kind, NEW ses \in Nat, NEW off \in Int
    PROVE  /\ Made(c, kind, ses, off) \in RecordType
           /\ Made(c, kind, ses, off).con = used.con
           /\ Made(c, kind, ses, off).role = peer.role
           /\ Made(c, kind, ses, off).rseq = c.rseq /\ Made(c, kind, ses, off).key = c.key
           /\ Made(c, kind, ses, off).kind = kind /\ Made(c, kind, ses, off).ses = ses
           /\ Made(c, kind, ses, off).off = off
           /\ c # NoSec => Made(c, kind, ses, off).ep = c.ep /\ ~Made(c, kind, ses, off).bare
           /\ c = NoSec => Made(c, kind, ses, off).ep = 0 /\ Made(c, kind, ses, off).bare
<1>1. used.con \in Nat /\ peer.role \in Role /\ c.ep \in Int /\ c.rseq \in Nat /\ c.key \in Nat
  BY PeerFields DEF Types, UsedType, SecType
<1>2. (IF c = NoSec THEN 0 ELSE c.ep) \in Int
  BY <1>1
<1>3. Made(c, kind, ses, off) \in RecordType
  BY <1>1, <1>2 DEF Made, RecordType
<1> QED BY <1>3 DEF Made

\* dtls_send_multi() of one record under parameters the peer counts.
LEMMA SendSealed ==
    ASSUME RecordsInv, peer.st # "none", NEW c \in Secs(peer), c.ep <= peer.sec0.ep,
           NEW kind \in Kind, NEW ses \in Nat, NEW off \in Int,
           kind \in {"FIN", "APP"} => c.key # NoKey /\ c.key = ses,
           Put(Made(c, kind, ses, off)),
           NEW q \in PeerType, q.st # "none", q.role = peer.role,
           \/ c = peer.sec0 /\ q.sec0 = Counted(peer.sec0) /\ q.sec1 = peer.sec1
           \/ c = peer.sec1 /\ q.sec1 = Counted(peer.sec1) /\ q.sec0 = peer.sec0
    PROVE  /\ Sent' \subseteq RecordType /\ wire' \in [Sent' -> Nat]
           /\ SecInv(q, used, Sent') /\ SentInv(q, used, Sent')
           /\ PairInv(Sent') /\ OnceInv(wire')
<1> DEFINE r == Made(c, kind, ses, off)
<1>1. /\ peer \in PeerType /\ used \in UsedType /\ Sent \in SUBSET RecordType
      /\ wire \in [Sent -> Nat]
  BY DEF RecordsInv, Types
<1>2. c \in SecType /\ c # NoSec
  BY <1>1, PeerFields DEF Secs
<1>3. /\ r \in RecordType /\ r.con = used.con /\ r.role = peer.role /\ r.ep = c.ep
      /\ r.rseq = c.rseq /\ r.key = c.key /\ ~r.bare /\ r.kind = kind /\ r.ses = ses
  <2>1. Types
    BY DEF RecordsInv
  <2>2. r \in RecordType
    BY ONLY <1>2, <2>1, MadeRecord, kind \in Kind, ses \in Nat, off \in Int
  <2>3. r.con = used.con /\ r.role = peer.role /\ r.rseq = c.rseq /\ r.key = c.key
    BY DEF Made
  <2>4. r.ep = c.ep /\ ~r.bare /\ r.kind = kind /\ r.ses = ses
    BY <1>2 DEF Made
  <2> QED BY <2>2, <2>3, <2>4
<1>4. SecInv(peer, used, Sent) /\ SentInv(peer, used, Sent) /\ PairInv(Sent)
  BY DEF RecordsInv, PeerInv
<1>5. Put(r)
  OBVIOUS
<1> HIDE DEF r
<1>6. /\ SecInv(q, used, Sent \cup {r}) /\ SentInv(q, used, Sent \cup {r})
      /\ PairInv(Sent \cup {r}) /\ r \notin Sent
  BY <1>1, <1>3, <1>4, SealedRecord
<1>7. /\ Sent' = Sent \cup {r} /\ wire' \in [Sent' -> Nat]
      /\ \A x \in Sent : x # r => wire'[x] = wire[x]
      /\ r \notin Sent => wire'[r] = 1
  BY <1>1, <1>5, PutOne
<1>8. OnceInv(wire')
  <2>1. DOMAIN wire' = Sent \cup {r} /\ DOMAIN wire = Sent
    BY <1>1, <1>7
  <2> QED BY <1>6, <1>7, <2>1 DEF RecordsInv, OnceInv
<1> QED BY <1>1, <1>3, <1>6, <1>7, <1>8

\* A record that is not sealed and comes from no parameters.
LEMMA SendBare ==
    ASSUME RecordsInv, NEW r \in RecordType, r.key = NoKey, Put(r)
    PROVE  /\ Sent' = Sent \cup {r} /\ Sent' \subseteq RecordType
           /\ wire' \in [Sent' -> Nat] /\ OnceInv(wire')
<1>1. Sent \in SUBSET RecordType /\ wire \in [Sent -> Nat]
  BY DEF RecordsInv, Types
<1>2. /\ Sent' = Sent \cup {r} /\ wire' \in [Sent' -> Nat]
      /\ \A x \in Sent : x # r => wire'[x] = wire[x]
  BY <1>1, PutOne
<1>3. DOMAIN wire' = Sent \cup {r} /\ DOMAIN wire = Sent
  BY <1>1, <1>2
<1> QED BY <1>1, <1>2, <1>3 DEF RecordsInv, OnceInv


-----------------------------------------------------------------------------
(* The steps of a call *)

LEMMA StepFields ==
    /\ \A op \in Op, kind \in Kind :
          /\ Step(op, kind) \in StepType
          /\ Step(op, kind).op = op /\ Step(op, kind).kind = kind
    /\ \A kind \in Kind, len \in Nat, hash \in BOOLEAN :
          /\ Msg(kind, len, hash) \in StepType
          /\ Msg(kind, len, hash).op = "msg" /\ Msg(kind, len, hash).kind = kind
<1>1. "msg" \in Op /\ 0 \in Nat
  BY DEF Op
<1>2. ASSUME NEW op \in Op, NEW kind \in Kind
      PROVE  /\ Step(op, kind) \in StepType
             /\ Step(op, kind).op = op /\ Step(op, kind).kind = kind
  BY <1>1 DEF Step, StepType
<1>3. ASSUME NEW kind \in Kind, NEW len \in Nat, NEW hash \in BOOLEAN
      PROVE  /\ Msg(kind, len, hash) \in StepType
             /\ Msg(kind, len, hash).op = "msg" /\ Msg(kind, len, hash).kind = kind
  BY <1>1 DEF Msg, StepType
<1> QED BY <1>2, <1>3

LEMMA NamedSteps ==
    /\ {MakeKey, SendCcs, DoSwitch, SendFin, Done, SendApp, SendAlert, DoFree}
         \subseteq StepType
    /\ MakeKey.op = "key" /\ DoSwitch.op = "switch" /\ Done.op = "connected"
    /\ DoFree.op = "free" /\ SendFin.op = "msg" /\ SendFin.kind = "FIN"
    /\ SendCcs.op = "rec" /\ SendCcs.kind = "CCS"
    /\ SendApp.op = "rec" /\ SendApp.kind = "APP"
    /\ SendAlert.op = "rec" /\ SendAlert.kind = "ALERT"
    /\ SendFin.len = 1 /\ SendFin.rem = 1
<1>1. /\ "msg" \in Op /\ "rec" \in Op /\ "key" \in Op /\ "switch" \in Op
      /\ "connected" \in Op /\ "free" \in Op
      /\ "FIN" \in Kind /\ "CCS" \in Kind /\ "APP" \in Kind /\ "ALERT" \in Kind
      /\ "" \in Kind /\ Short \in Nat /\ TRUE \in BOOLEAN
  BY DEF Op, Kind, Short
<1>2. MakeKey \in StepType /\ MakeKey.op = "key"
  BY <1>1, StepFields DEF MakeKey
<1>3. SendCcs \in StepType /\ SendCcs.op = "rec" /\ SendCcs.kind = "CCS"
  BY <1>1, StepFields, ZenonT(40) DEF SendCcs
<1>4. DoSwitch \in StepType /\ DoSwitch.op = "switch"
  BY <1>1, StepFields DEF DoSwitch
<1>5. SendFin \in StepType /\ SendFin.op = "msg" /\ SendFin.kind = "FIN"
  BY <1>1, StepFields DEF SendFin
<1>6. Done \in StepType /\ Done.op = "connected"
  BY <1>1, StepFields DEF Done
<1>7. SendApp \in StepType /\ SendApp.op = "rec" /\ SendApp.kind = "APP"
  BY <1>1, StepFields, ZenonT(40) DEF SendApp
<1>8. SendAlert \in StepType /\ SendAlert.op = "rec" /\ SendAlert.kind = "ALERT"
  BY <1>1, StepFields, ZenonT(40) DEF SendAlert
<1>9. DoFree \in StepType /\ DoFree.op = "free"
  BY <1>1, StepFields DEF DoFree
<1>10. SendFin.len = 1 /\ SendFin.rem = 1
  BY DEF SendFin, Msg, Short
<1> QED BY <1>2, <1>3, <1>4, <1>5, <1>6, <1>7, <1>8, <1>9, <1>10

\* Which script is under way, from its first step.
LEMMA PhaseAt ==
    ASSUME NEW p, NEW t \in Seq(StepType), NEW q, NEW u, Phase(p, t, q, u)
    PROVE  /\ t = <<>> => Waiting(p, u)
           /\ t # <<>> /\ Head(t).op = "rec" =>
                 \/ /\ t = <<SendCcs, DoSwitch, SendFin>> /\ NoFinished(q)
                    /\ p.st = "flight" /\ NextKeyed(p, u)
                 \/ /\ t = <<SendCcs, DoSwitch, SendFin, Done>> /\ NoFinished(q)
                    /\ p.st = "ccs" /\ NextKeyed(p, u)
                 \/ t = <<SendApp>> /\ p.st = "connected" /\ Keyed(p, u)
                 \/ t = <<SendAlert, DoFree>> /\ q = <<>>
           /\ t # <<>> /\ Head(t).op = "msg" =>
                 \/ Plain(t) /\ Waiting(p, u)
                 \/ /\ Len(t) = 5 /\ t[1].kind = "CKX"
                    /\ Tail(t) = <<MakeKey, SendCcs, DoSwitch, SendFin>>
                    /\ NoFinished(q) /\ p.st = "flight"
                 \/ t = <<SendFin>> /\ p.st = "flight" /\ Keyed(p, u)
                 \/ t = <<SendFin, Done>> /\ Keyed(p, u)
           /\ t # <<>> /\ Head(t).op = "key" =>
                 \/ /\ t = <<MakeKey, SendCcs, DoSwitch, SendFin>> /\ NoFinished(q)
                    /\ p.st = "flight"
                 \/ t = <<MakeKey>> /\ p.st = "ccs"
           /\ t # <<>> /\ Head(t).op = "switch" =>
                 \/ /\ t = <<DoSwitch, SendFin>> /\ NoFinished(q)
                    /\ p.st = "flight" /\ NextKeyed(p, u)
                 \/ /\ t = <<DoSwitch, SendFin, Done>> /\ NoFinished(q)
                    /\ p.st = "ccs" /\ NextKeyed(p, u)
           /\ t # <<>> /\ Head(t).op = "connected" => t = <<Done>> /\ Keyed(p, u)
           /\ t # <<>> /\ Head(t).op = "free" => t = <<DoFree>> /\ q = <<>>
<1> USE NamedSteps, Tuples
<1>0. t # <<>> => Head(t) = t[1] /\ 1 \in 1..Len(t)
  BY HeadAndTail
<1>1. CASE Plain(t) /\ Waiting(p, u)
  BY <1>0, <1>1 DEF Plain
<1>2. CASE Keying(t) /\ NoFinished(q) /\ p.st = "flight"
  <2>1. CASE Len(t) = 5 /\ t[1].op = "msg" /\ t[1].kind = "CKX"
             /\ Tail(t) = <<MakeKey, SendCcs, DoSwitch, SendFin>>
    BY <1>0, <1>2, <2>1, SMTT(30)
  <2>2. CASE t = <<MakeKey, SendCcs, DoSwitch, SendFin>>
    BY <1>2, <2>2
  <2> QED BY <1>2, <2>1, <2>2 DEF Keying
<1>3. CASE t \in ClientSwitching /\ NoFinished(q) /\ p.st = "flight" /\ NextKeyed(p, u)
  BY <1>3 DEF ClientSwitching
<1>4. CASE t = <<SendFin>> /\ p.st = "flight" /\ Keyed(p, u)
  BY <1>4
<1>5. CASE t = <<MakeKey>> /\ p.st = "ccs"
  BY <1>5
<1>6. CASE t \in ServerSwitching /\ NoFinished(q) /\ p.st = "ccs" /\ NextKeyed(p, u)
  BY <1>6 DEF ServerSwitching
<1>7. CASE t \in {<<SendFin, Done>>, <<Done>>} /\ Keyed(p, u)
  <2>1. CASE t = <<SendFin, Done>>
    BY <1>7, <2>1
  <2>2. CASE t = <<Done>>
    BY <1>7, <2>2
  <2> QED BY <1>7, <2>1, <2>2
<1>8. CASE t = <<SendApp>> /\ p.st = "connected" /\ Keyed(p, u)
  BY <1>8
<1>9. CASE t \in {<<SendAlert, DoFree>>, <<DoFree>>} /\ q = <<>>
  <2>1. CASE t = <<SendAlert, DoFree>>
    BY <1>9, <2>1
  <2>2. CASE t = <<DoFree>>
    BY <1>9, <2>2
  <2> QED BY <1>9, <2>1, <2>2
<1> QED BY <1>1, <1>2, <1>3, <1>4, <1>5, <1>6, <1>7, <1>8, <1>9 DEF Phase


-----------------------------------------------------------------------------
(* Steps in general *)

LEMMA Alive ==
    ASSUME RecordsInv, todo # <<>> \/ peer.st # "none"
    PROVE  /\ peer \in PeerType /\ used \in UsedType /\ Sent \in SUBSET RecordType
           /\ todo \in Seq(StepType) /\ queue \in Seq(NodeType) /\ wire \in [Sent -> Nat]
           /\ peer.st # "none" /\ peer.sec0 \in Secs(peer)
           /\ peer.sec0 \in SecType /\ peer.sec1 \in SecType
           /\ SecInv(peer, used, Sent) /\ SentInv(peer, used, Sent) /\ PairInv(Sent)
           /\ used.con \in Nat /\ used.keys \in Nat
<1>1. /\ peer \in PeerType /\ used \in UsedType /\ Sent \in SUBSET RecordType
      /\ todo \in Seq(StepType) /\ queue \in Seq(NodeType) /\ wire \in [Sent -> Nat]
  BY DEF RecordsInv, Types
<1>2. peer.st # "none" /\ SecInv(peer, used, Sent)
  BY DEF RecordsInv, PeerInv
<1>3. peer.sec0 \in Secs(peer)
  <2>1. peer.sec0.ep >= 0 /\ NoSec.ep = -1
    BY <1>2 DEF SecInv, NoSec
  <2> QED BY <2>1 DEF Secs
<1>4. peer.sec0 \in SecType /\ peer.sec1 \in SecType /\ used.con \in Nat /\ used.keys \in Nat
  BY <1>1, PeerFields DEF UsedType
<1> QED BY <1>1, <1>2, <1>3, <1>4 DEF RecordsInv

LEMMA Compose ==
    ASSUME peer' \in PeerType, todo' \in Seq(StepType), queue' \in Seq(NodeType),
           used' \in UsedType, Sent' \subseteq RecordType, wire' \in [Sent' -> Nat],
           Phase(peer', todo', queue', used'), QueueInv(peer', queue'),
           PeerInv(peer', todo', queue', used', Sent'), SentInv(peer', used', Sent'),
           PairInv(Sent'), OnceInv(wire')
    PROVE  RecordsInv'
BY DEF RecordsInv, Types

LEMMA SameWire ==
    ASSUME RecordsInv, wire' = wire
    PROVE  /\ Sent' = Sent /\ Sent' \subseteq RecordType /\ wire' \in [Sent' -> Nat]
           /\ PairInv(Sent') /\ OnceInv(wire')
<1>1. Sent' = Sent
  BY DEF Sent
<1> QED BY <1>1 DEF RecordsInv, Types

\* A step that sends nothing and keeps the parameters, or frees the other ones.
LEMMA QuietStep ==
    ASSUME RecordsInv, todo # <<>> \/ peer.st # "none", wire' = wire,
           peer' \in PeerType, peer'.st # "none", peer'.role = peer.role,
           peer'.sec0 = peer.sec0, peer'.sec1 \in {peer.sec1, NoSec},
           used' \in UsedType, used'.con = used.con, used'.keys = used.keys,
           todo' \in Seq(StepType), queue' \in {queue, <<>>},
           Phase(peer', todo', queue', used')
    PROVE  RecordsInv'
<1>1. SecInv(peer', used', Sent) /\ SentInv(peer', used', Sent)
  BY Alive, KeepParameters
<1>2. /\ Sent' = Sent /\ Sent' \subseteq RecordType /\ wire' \in [Sent' -> Nat]
      /\ PairInv(Sent') /\ OnceInv(wire')
  BY SameWire
<1>3. queue' \in Seq(NodeType) /\ QueueInv(peer', queue')
  <2>1. CASE queue' = queue
    BY <2>1, Alive DEF RecordsInv, QueueInv
  <2>2. CASE queue' = <<>>
    BY <2>2 DEF QueueInv
  <2> QED BY <2>1, <2>2
<1>4. PeerInv(peer', todo', queue', used', Sent')
  BY <1>1, <1>2 DEF PeerInv
<1> QED BY <1>1, <1>2, <1>3, <1>4, Compose

\* The copy that dtls_send_multi() keeps.
LEMMA CopyKept ==
    ASSUME RecordsInv, todo # <<>>, NEW kind \in Kind, NEW off \in Int,
           queue' = IF Copied(kind)
                    THEN Append(queue, Node(peer.sec0, Made(peer.sec0, kind, used.keys, off)))
                    ELSE queue,
           kind = "FIN" => Keyed(peer, used)
    PROVE  /\ queue' \in Seq(NodeType) /\ QueueInv(peer, queue')
           /\ kind # "FIN" /\ NoFinished(queue) => NoFinished(queue')
<1> DEFINE n == Node(peer.sec0, Made(peer.sec0, kind, used.keys, off))
<1>0. /\ queue \in Seq(NodeType) /\ QueueInv(peer, queue)
      /\ peer.sec0.ep \in Int /\ peer.sec0.key \in Nat /\ used.keys \in Nat
      /\ peer.sec0.ep >= 0
  BY Alive, PeerFields DEF RecordsInv, SecInv
<1>1. n \in NodeType /\ n.ep = peer.sec0.ep /\ n.kind = kind /\ n.ses = used.keys
  <2>1. n = [ep |-> peer.sec0.ep, kind |-> kind, ses |-> used.keys, off |-> off, cnt |-> 0]
    BY DEF Node, Made
  <2> HIDE DEF n
  <2> QED BY <1>0, <2>1 DEF NodeType
<1> HIDE DEF n
<1>2. CASE Copied(kind)
  <2>1. queue' = Append(queue, n)
    BY <1>2 DEF n
  <2>2. /\ queue' \in Seq(NodeType)
        /\ \A i \in 1..Len(queue') :
              queue'[i] = n \/ \E j \in 1..Len(queue) : queue'[i] = queue[j]
    BY <1>0, <1>1, <2>1, AppendOne
  <2>3. n.kind = "FIN" => n.ses = peer.sec0.key /\ n.ses # NoKey
    BY <1>0, <1>1 DEF Keyed, NoKey
  <2>4. QueueInv(peer, queue')
    BY <1>0, <1>1, <1>2, <2>2, <2>3 DEF QueueInv
  <2>5. kind # "FIN" /\ NoFinished(queue) => NoFinished(queue')
    BY <1>1, <2>2 DEF NoFinished
  <2> QED BY <2>2, <2>4, <2>5
<1>3. CASE ~Copied(kind)
  BY <1>0, <1>3
<1> QED BY <1>2, <1>3

\* dtls_send_multi() in a step of a call.
LEMMA SendStep ==
    ASSUME RecordsInv, todo # <<>>, NEW kind \in Kind, NEW off \in Int,
           SendMulti(kind, off), kind \in {"FIN", "APP"} => Keyed(peer, used),
           peer' \in PeerType, peer'.st = peer.st, peer'.role = peer.role,
           peer'.sec0 = Counted(peer.sec0), peer'.sec1 = peer.sec1, used' = used,
           todo' \in Seq(StepType), Phase(peer', todo', queue', used')
    PROVE  RecordsInv'
<1>1. /\ Put(Made(peer.sec0, kind, used.keys, off))
      /\ queue' = IF Copied(kind)
                  THEN Append(queue, Node(peer.sec0, Made(peer.sec0, kind, used.keys, off)))
                  ELSE queue
  BY DEF SendMulti
<1>2. queue' \in Seq(NodeType) /\ QueueInv(peer, queue')
  BY <1>1, CopyKept
<1>3. peer'.sec0.ep = peer.sec0.ep /\ peer'.sec0.key = peer.sec0.key
  BY Alive DEF Counted, SecType
<1>4. QueueInv(peer', queue')
  BY <1>2, <1>3 DEF QueueInv
<1>5. /\ Sent' \subseteq RecordType /\ wire' \in [Sent' -> Nat]
      /\ SecInv(peer', used, Sent') /\ SentInv(peer', used, Sent')
      /\ PairInv(Sent') /\ OnceInv(wire')
  <2>1. kind \in {"FIN", "APP"} => peer.sec0.key # NoKey /\ peer.sec0.key = used.keys
    BY Alive DEF Keyed, NoKey
  <2>2. peer.sec0.ep <= peer.sec0.ep
    BY Alive, PeerFields
  <2> QED BY <1>1, <2>1, <2>2, Alive, SendSealed
<1>6. used \in UsedType /\ peer'.st # "none"
  BY Alive
<1>7. PeerInv(peer', todo', queue', used', Sent')
  BY <1>5, <1>6 DEF PeerInv
<1> QED BY <1>2, <1>4, <1>5, <1>6, <1>7, Compose


-----------------------------------------------------------------------------
(* The steps of a call *)

LEMMA CountedPeer ==
    ASSUME NEW p \in PeerType
    PROVE  /\ Counted(p.sec0) \in SecType /\ Counted(p.sec1) \in SecType
           /\ [p EXCEPT !.sec0 = Counted(@)] \in PeerType
           /\ [p EXCEPT !.sec1 = Counted(@)] \in PeerType
<1>1. Counted(p.sec0) \in SecType /\ Counted(p.sec1) \in SecType
  BY PeerFields DEF Counted, SecType
<1> QED BY <1>1 DEF PeerType

\* The keys of a peer do not depend on its counters.
LEMMA KeysKept ==
    ASSUME NEW p \in PeerType, NEW q, NEW u, NEW v, q.st = p.st, q.role = p.role,
           q.sec0 = p.sec0 \/ q.sec0 = Counted(p.sec0),
           q.sec1 = p.sec1 \/ q.sec1 = Counted(p.sec1), v.keys = u.keys
    PROVE  /\ Keyed(p, u) => Keyed(q, v)
           /\ NextKeyed(p, u) => NextKeyed(q, v)
           /\ Waiting(p, u) => Waiting(q, v)
<1>1. /\ q.sec0.ep = p.sec0.ep /\ q.sec0.key = p.sec0.key
      /\ q.sec1.ep = p.sec1.ep /\ q.sec1.key = p.sec1.key
  BY PeerFields DEF Counted, SecType
<1>2. Keyed(p, u) => Keyed(q, v)
  BY <1>1 DEF Keyed
<1>3. NextKeyed(p, u) => NextKeyed(q, v)
  BY <1>1 DEF NextKeyed
<1> QED BY <1>2, <1>3 DEF Waiting

LEMMA EmptyScript ==
    /\ <<>> \in Seq(StepType) /\ Plain(<<>>)
    /\ \A p, q, u : Waiting(p, u) => Phase(p, <<>>, q, u)
<1>1. <<>> \in Seq(StepType) /\ Plain(<<>>)
  BY DEF Plain
<1> QED BY <1>1 DEF Phase

LEMMA SendRecordStep ==
    ASSUME RecordsInv, SendRecord
    PROVE  RecordsInv'
<1> DEFINE k == Head(todo).kind
<1>1. /\ todo # <<>> /\ Head(todo).op = "rec" /\ SendMulti(k, 0)
      /\ peer' = [peer EXCEPT !.sec0 = Counted(@)] /\ todo' = Tail(todo) /\ used' = used
  BY DEF SendRecord, Idle
<1>2. todo \in Seq(StepType) /\ peer \in PeerType
  BY <1>1, Alive
<1>3. k \in Kind /\ todo' \in Seq(StepType)
  <2>1. Head(todo) \in StepType /\ Tail(todo) \in Seq(StepType)
    BY <1>1, <1>2, HeadAndTail
  <2> QED BY <1>1, <2>1 DEF StepType
<1>4. /\ peer' \in PeerType /\ peer'.st = peer.st /\ peer'.role = peer.role
      /\ peer'.sec0 = Counted(peer.sec0) /\ peer'.sec1 = peer.sec1
  BY <1>1, <1>2, CountedPeer DEF PeerType
<1>5. /\ Keyed(peer, used) => Keyed(peer', used')
      /\ NextKeyed(peer, used) => NextKeyed(peer', used')
  BY <1>1, <1>2, <1>4, KeysKept
<1>6. queue' = IF Copied(k)
               THEN Append(queue, Node(peer.sec0, Made(peer.sec0, k, used.keys, 0)))
               ELSE queue
  BY <1>1 DEF SendMulti
<1>7. k # "FIN" /\ NoFinished(queue) => NoFinished(queue')
  <2>1. CASE k # "FIN"
    BY <1>1, <1>3, <1>6, <2>1, CopyKept
  <2> QED BY <2>1
<1> HIDE DEF k
<1>8. Phase(peer, todo, queue, used)
  BY DEF RecordsInv
<1>9. /\ k \in {"FIN", "APP"} => Keyed(peer, used)
      /\ Phase(peer', todo', queue', used')
  <2> USE NamedSteps, Tuples
  <2>1. CASE todo = <<SendCcs, DoSwitch, SendFin>> /\ NoFinished(queue)
             /\ peer.st = "flight" /\ NextKeyed(peer, used)
    <3>1. k = "CCS" /\ todo' = <<DoSwitch, SendFin>>
      BY <1>1, <2>1 DEF k
    <3> QED BY <1>4, <1>5, <1>7, <2>1, <3>1 DEF Phase, ClientSwitching
  <2>2. CASE todo = <<SendCcs, DoSwitch, SendFin, Done>> /\ NoFinished(queue)
             /\ peer.st = "ccs" /\ NextKeyed(peer, used)
    <3>1. k = "CCS" /\ todo' = <<DoSwitch, SendFin, Done>>
      BY <1>1, <2>2 DEF k
    <3> QED BY <1>4, <1>5, <1>7, <2>2, <3>1 DEF Phase, ServerSwitching
  <2>3. CASE todo = <<SendApp>> /\ peer.st = "connected" /\ Keyed(peer, used)
    <3>1. todo' = <<>>
      BY <1>1, <2>3
    <3>2. Waiting(peer', used')
      BY <1>4, <1>5, <2>3 DEF Waiting
    <3> QED BY <2>3, <3>1, <3>2, EmptyScript
  <2>4. CASE todo = <<SendAlert, DoFree>> /\ queue = <<>>
    <3>1. k = "ALERT" /\ todo' = <<DoFree>>
      BY <1>1, <2>4 DEF k
    <3>2. queue' = <<>>
      BY <1>6, <2>4, <3>1 DEF Copied
    <3> QED BY <3>1, <3>2 DEF Phase
  <2> QED BY <1>1, <1>2, <1>8, <2>1, <2>2, <2>3, <2>4, PhaseAt
<1> QED BY <1>1, <1>3, <1>4, <1>9, SendStep

LEMMA ConnectedStep ==
    ASSUME RecordsInv, Connected
    PROVE  RecordsInv'
<1>1. /\ todo # <<>> /\ Head(todo).op = "connected" /\ todo' = Tail(todo)
      /\ peer' = [peer EXCEPT !.st = "connected", !.hs = FALSE, !.s = 0, !.hashed = <<>>]
      /\ queue' = <<>> /\ wire' = wire /\ used' = used
  BY DEF Connected, Idle
<1>2. peer \in PeerType /\ used \in UsedType /\ todo \in Seq(StepType)
  BY <1>1, Alive
<1>3. /\ peer' \in PeerType /\ peer'.st = "connected" /\ peer'.role = peer.role
      /\ peer'.sec0 = peer.sec0 /\ peer'.sec1 = peer.sec1
  <2>1. "connected" \in State /\ <<>> \in Seq(HeaderType)
    BY DEF State
  <2> QED BY <1>1, <1>2, <2>1 DEF PeerType
<1>4. todo = <<Done>> /\ Keyed(peer, used)
  BY <1>1, <1>2, PhaseAt DEF RecordsInv
<1>5. todo' = <<>>
  BY <1>1, <1>4, Tuples
<1>6. Waiting(peer', used')
  BY <1>1, <1>3, <1>4 DEF Waiting, Keyed
<1>7. Phase(peer', todo', queue', used') /\ todo' \in Seq(StepType)
  BY <1>5, <1>6, EmptyScript
<1>8. peer'.st # "none" /\ peer'.sec1 \in {peer.sec1, NoSec} /\ queue' \in {queue, <<>>}
  BY <1>1, <1>3
<1> QED BY <1>1, <1>2, <1>3, <1>7, <1>8, QuietStep

LEMMA NoPeerYet ==
    /\ NoPeer \in PeerType /\ NoPeer.st = "none" /\ \A u : Waiting(NoPeer, u)
    /\ NoSec \in SecType
<1>1. NoSec \in SecType
  BY DEF NoSec, NoKey, SecType
<1>2. "none" \in State /\ "C" \in Role /\ <<>> \in Seq(HeaderType)
  BY DEF State, Role
<1>3. NoPeer \in PeerType
  BY <1>1, <1>2 DEF NoPeer, PeerType
<1> QED BY <1>1, <1>3 DEF NoPeer, Waiting

LEMMA FreeStep ==
    ASSUME RecordsInv, Free
    PROVE  RecordsInv'
<1>1. /\ todo # <<>> /\ Head(todo).op = "free" /\ todo' = Tail(todo)
      /\ peer' = NoPeer /\ queue' = queue /\ wire' = wire /\ used' = used
  BY DEF Free, Idle
<1>2. used \in UsedType /\ todo \in Seq(StepType) /\ SentInv(peer, used, Sent)
      /\ peer.st # "none" /\ queue \in Seq(NodeType)
  BY <1>1, Alive
<1>3. todo = <<DoFree>> /\ queue = <<>>
  BY <1>1, <1>2, PhaseAt DEF RecordsInv
<1>4. todo' = <<>> /\ queue' = <<>>
  BY <1>1, <1>3, Tuples
<1>5. Phase(peer', todo', queue', used') /\ todo' \in Seq(StepType)
  BY <1>1, <1>4, NoPeerYet, EmptyScript
<1>6. QueueInv(peer', queue')
  BY <1>4 DEF QueueInv
<1>7. SentInv(peer', used', Sent)
  BY <1>1, <1>2 DEF SentInv
<1>8. PeerInv(peer', todo', queue', used', Sent)
  BY <1>1, <1>4, NoPeerYet DEF PeerInv
<1>9. /\ Sent' = Sent /\ Sent' \subseteq RecordType /\ wire' \in [Sent' -> Nat]
      /\ PairInv(Sent') /\ OnceInv(wire')
  BY <1>1, SameWire
<1> QED BY <1>1, <1>2, <1>5, <1>6, <1>7, <1>8, <1>9, NoPeerYet, Compose


\* The rest of a message before the other steps.
LEMMA Pushed ==
    ASSUME NEW R, NEW t \in Seq(R), t # <<>>, NEW x \in R
    PROVE  /\ <<x>> \o Tail(t) \in Seq(R) /\ Len(<<x>> \o Tail(t)) = Len(t)
           /\ (<<x>> \o Tail(t))[1] = x /\ Tail(<<x>> \o Tail(t)) = Tail(t)
           /\ \A i \in 1..Len(t) : i # 1 => (<<x>> \o Tail(t))[i] = t[i]
<1>1. /\ Tail(t) \in Seq(R) /\ Len(t) \in Nat /\ Len(t) >= 1 /\ Len(Tail(t)) = Len(t) - 1
      /\ \A i \in 1..Len(Tail(t)) : Tail(t)[i] = t[i + 1]
  BY HeadAndTail
<1> DEFINE s == <<x>> \o Tail(t)
<1>2. /\ s \in Seq(R) /\ Len(s) = 1 + Len(Tail(t)) /\ s[1] = x
      /\ \A i \in 2..Len(s) : s[i] = Tail(t)[i - 1]
  <2>1. <<x>> \in Seq(R) /\ Len(<<x>>) = 1 /\ <<x>>[1] = x
    OBVIOUS
  <2>2. /\ s \in Seq(R) /\ Len(s) = Len(<<x>>) + Len(Tail(t))
        /\ \A i \in 1..Len(s) : s[i] = IF i <= Len(<<x>>) THEN <<x>>[i]
                                       ELSE Tail(t)[i - Len(<<x>>)]
    BY <1>1, <2>1, ConcatProperties
  <2> QED BY <1>1, <2>1, <2>2
<1> HIDE DEF s
<1>3. \A i \in 1..Len(t) : i # 1 => s[i] = t[i]
  BY <1>1, <1>2
<1>4. Tail(s) = Tail(t)
  <2>1. s # <<>>
    BY <1>1, <1>2
  <2>2. /\ Tail(s) \in Seq(R) /\ Len(Tail(s)) = Len(s) - 1
        /\ \A i \in 1..Len(Tail(s)) : Tail(s)[i] = s[i + 1]
    BY <1>2, <2>1, HeadAndTail
  <2>3. \A i \in 1..Len(Tail(t)) : Tail(s)[i] = Tail(t)[i]
    <3> SUFFICES ASSUME NEW i \in 1..Len(Tail(t)) PROVE Tail(s)[i] = Tail(t)[i]
      OBVIOUS
    <3>1. i + 1 \in 2..Len(s) /\ (i + 1) - 1 = i /\ i \in 1..Len(Tail(s))
      BY <1>1, <1>2, <2>2
    <3> QED BY <1>2, <2>2, <3>1
  <2> QED BY <1>1, <1>2, <2>2, <2>3, SeqEqual
<1> QED BY <1>1, <1>2, <1>3, <1>4 DEF s


\* A fragment leaves at most the message it is of, shortened.
LEMMA SendFragmentStep ==
    ASSUME RecordsInv, SendFragment
    PROVE  RecordsInv'
<1> DEFINE c == Head(todo)
           left == IF LastFragment(c.rem) THEN 0 ELSE c.rem - DTLS_MAX_HS_PAYLOAD
           rest == [c EXCEPT !.rem = left]
           seq == IF peer.hs THEN peer.s ELSE 0
           s == IF peer.hs /\ LastFragment(c.rem) THEN peer.s + 1 ELSE peer.s
           hashed == IF c.hash /\ c.rem = c.len
                     THEN Append(peer.hashed, Header(c.kind, seq, c.len)) ELSE peer.hashed
<1>1. /\ todo # <<>> /\ c.op = "msg" /\ SendMulti(c.kind, c.len - c.rem)
      /\ peer' = [peer EXCEPT !.sec0 = Counted(@), !.s = s, !.hashed = hashed]
      /\ todo' = IF left > 0 THEN <<rest>> \o Tail(todo) ELSE Tail(todo)
      /\ used' = used
  BY DEF SendFragment, Idle
<1>2. todo \in Seq(StepType) /\ peer \in PeerType
  BY <1>1, Alive
<1>3. /\ c \in StepType /\ c = todo[1] /\ Len(todo) \in Nat /\ Len(todo) >= 1
      /\ Tail(todo) \in Seq(StepType)
  BY <1>1, <1>2, HeadAndTail
<1> HIDE DEF c
<1>4. /\ c.kind \in Kind /\ c.len \in Nat /\ c.rem \in Nat /\ c.hash \in BOOLEAN
      /\ c.len - c.rem \in Int
  BY <1>3 DEF StepType
<1>5. left \in Int
  BY <1>4, PayloadAssumption
<1> HIDE DEF left
<1>6. left > 0 => rest \in StepType /\ rest.op = c.op /\ rest.kind = c.kind
  BY <1>3, <1>5 DEF StepType
<1> HIDE DEF rest
<1>7. /\ left > 0 => /\ todo' = <<rest>> \o Tail(todo) /\ todo' \in Seq(StepType)
                     /\ Len(todo') = Len(todo) /\ todo'[1] = rest /\ Tail(todo') = Tail(todo)
                     /\ \A i \in 1..Len(todo) : i # 1 => todo'[i] = todo[i]
      /\ ~(left > 0) => todo' = Tail(todo)
  BY <1>1, <1>2, <1>6, Pushed
<1>8. todo' \in Seq(StepType)
  BY <1>3, <1>7
<1>9. /\ peer' \in PeerType /\ peer'.st = peer.st /\ peer'.role = peer.role
      /\ peer'.sec0 = Counted(peer.sec0) /\ peer'.sec1 = peer.sec1
  <2>1. peer.hs \in BOOLEAN /\ peer.s \in Nat /\ peer.hashed \in Seq(HeaderType)
    BY <1>2, PeerFields
  <2>2. seq \in Nat /\ s \in Nat
    BY <2>1
  <2> HIDE DEF seq
  <2>3. Header(c.kind, seq, c.len) \in HeaderType
    BY <1>4, <2>2 DEF Header, HeaderType
  <2>4. hashed \in Seq(HeaderType)
    BY <2>1, <2>3, AppendOne
  <2> HIDE DEF s, hashed
  <2>5. Counted(peer.sec0) \in SecType
    BY <1>2, CountedPeer
  <2> QED BY <1>1, <1>2, <2>2, <2>4, <2>5 DEF PeerType
<1>10. /\ Keyed(peer, used) => Keyed(peer', used')
       /\ NextKeyed(peer, used) => NextKeyed(peer', used')
       /\ Waiting(peer, used) => Waiting(peer', used')
  <2>1. used'.keys = used.keys
    BY <1>1
  <2> QED BY ONLY <1>2, <1>9, <2>1, KeysKept
<1>11. queue' = IF Copied(c.kind)
                THEN Append(queue, Node(peer.sec0, Made(peer.sec0, c.kind, used.keys, c.len - c.rem)))
                ELSE queue
  BY <1>1 DEF SendMulti
<1>12. Phase(peer, todo, queue, used)
  BY DEF RecordsInv
<1>13. /\ c.kind \in {"FIN", "APP"} => Keyed(peer, used)
       /\ Phase(peer', todo', queue', used')
  <2>1. CASE Plain(todo) /\ Waiting(peer, used)
    <3>1. c.kind \notin {"FIN", "APP"}
      BY <1>3, <2>1 DEF Plain
    <3>2. Plain(todo')
      <4>1. CASE left > 0
        BY <1>1, <1>6, <1>7, <2>1, <3>1, <4>1 DEF Plain
      <4>2. CASE ~(left > 0)
        BY <1>1, <1>2, <1>7, <2>1, <4>2, HeadAndTail DEF Plain
      <4> QED BY <4>1, <4>2
    <3> QED BY <1>10, <2>1, <3>1, <3>2 DEF Phase
  <2>2. CASE Len(todo) = 5 /\ todo[1].kind = "CKX"
             /\ Tail(todo) = <<MakeKey, SendCcs, DoSwitch, SendFin>>
             /\ NoFinished(queue) /\ peer.st = "flight"
    <3>1. c.kind = "CKX"
      BY <1>3, <2>2
    <3>2. NoFinished(queue')
      BY <1>1, <1>4, <1>11, <2>2, <3>1, CopyKept
    <3>3. Keying(todo')
      <4>1. CASE left > 0
        BY <1>1, <1>6, <1>7, <2>2, <3>1, <4>1 DEF Keying
      <4>2. CASE ~(left > 0)
        BY <1>7, <2>2, <4>2 DEF Keying
      <4> QED BY <4>1, <4>2
    <3> QED BY <1>9, <2>2, <3>1, <3>2, <3>3 DEF Phase
  <2>3. ASSUME todo \in {<<SendFin>>, <<SendFin, Done>>}
        PROVE  ~(left > 0)
    <3>1. c.rem = 1
      BY <2>3, NamedSteps, Tuples DEF c
    <3> QED BY <3>1, PayloadAssumption DEF left
  <2>4. CASE todo = <<SendFin>> /\ peer.st = "flight" /\ Keyed(peer, used)
    <3>1. todo' = <<>>
      BY <1>7, <2>3, <2>4, Tuples
    <3>2. Waiting(peer', used')
      BY <1>9, <1>10, <2>4 DEF Waiting
    <3> QED BY <2>4, <3>1, <3>2, EmptyScript
  <2>5. CASE todo = <<SendFin, Done>> /\ Keyed(peer, used)
    <3>1. todo' = <<Done>>
      BY <1>7, <2>3, <2>5, Tuples
    <3> QED BY <1>10, <2>5, <3>1 DEF Phase
  <2> QED BY <1>1, <1>2, <1>12, <2>1, <2>2, <2>4, <2>5, PhaseAt DEF c
<1> QED BY <1>1, <1>4, <1>8, <1>9, <1>13, SendStep

\* A new key is larger than all keys of records, and so is its epoch.
LEMMA KeyStep ==
    ASSUME RecordsInv, CalculateKeyBlock
    PROVE  RecordsInv'
<1> DEFINE n == NextSec(peer, used.keys + 1)
<1>1. /\ todo # <<>> /\ Head(todo).op = "key" /\ todo' = Tail(todo)
      /\ peer' = [peer EXCEPT !.sec1 = n] /\ used' = [used EXCEPT !.keys = @ + 1]
      /\ queue' = queue /\ wire' = wire
  BY DEF CalculateKeyBlock, Idle
<1>2. /\ peer \in PeerType /\ used \in UsedType /\ Sent \in SUBSET RecordType
      /\ todo \in Seq(StepType) /\ queue \in Seq(NodeType)
      /\ peer.st # "none" /\ peer.sec0 \in Secs(peer) /\ peer.sec0 \in SecType
      /\ SecInv(peer, used, Sent) /\ SentInv(peer, used, Sent)
      /\ used.con \in Nat /\ used.keys \in Nat
  BY <1>1, Alive
<1>3. peer.sec0.ep \in Int /\ peer.sec0.ep >= 0 /\ peer.sec0.key \in Nat
      /\ peer.sec0.key <= used.keys
  BY <1>2, PeerFields DEF SecInv
<1>4. n \in SecType /\ n.ep = peer.sec0.ep + 1 /\ n.key = used.keys + 1
  BY <1>2, <1>3 DEF NextSec, SecType
<1> HIDE DEF n
<1>5. /\ peer' \in PeerType /\ peer'.st = peer.st /\ peer'.role = peer.role
      /\ peer'.sec0 = peer.sec0 /\ peer'.sec1 = n
  BY <1>1, <1>2, <1>4 DEF PeerType
<1>6. used' \in UsedType /\ used'.con = used.con /\ used'.keys = used.keys + 1
  <2>1. used.keys + 1 \in Nat /\ used' = [used EXCEPT !.keys = used.keys + 1]
    BY <1>1, <1>2
  <2> QED BY <1>2, <2>1 DEF UsedType
<1>7. /\ Sent' = Sent /\ Sent' \subseteq RecordType /\ wire' \in [Sent' -> Nat]
      /\ PairInv(Sent') /\ OnceInv(wire')
  BY <1>1, SameWire
<1>8. \A r \in Sent : r.key \in Nat /\ r.ep \in Int /\ r.key <= used.keys
                      /\ r.con \in Nat /\ r.con # used.con + 1
  BY <1>2 DEF SentInv, RecordType
<1>9. SentInv(peer', used', Sent)
  BY <1>2, <1>6, <1>8 DEF SentInv
<1>10. SecInv(peer', used', Sent)
  <2>1. Own(peer', used', Sent) = Own(peer, used, Sent)
    BY <1>5, <1>6 DEF Own
  <2>2. Secs(peer') \subseteq {peer.sec0, n}
    BY <1>5 DEF Secs
  <2>3. \A r \in Own(peer, used, Sent) : r.ep <= peer.sec0.ep
    BY <1>2 DEF SecInv
  <2>4. ASSUME NEW d \in Secs(peer')
        PROVE  /\ d.ep >= 0 /\ d.key <= used'.keys
               /\ d.ep = 0 /\ peer'.role = "S" => d.rseq >= 1
               /\ d.key # NoKey => \A r \in Sent : r.key = d.key =>
                                      r \in Own(peer', used', Sent) /\ r.ep = d.ep
               /\ \A r \in Own(peer', used', Sent) : r.ep = d.ep /\ ~r.bare => r.rseq < d.rseq
    <3>1. CASE d = peer.sec0
      <4>1. d.key <= used'.keys
        BY <1>2, <1>3, <1>6, <3>1
      <4> QED BY <1>2, <1>5, <2>1, <3>1, <4>1 DEF SecInv
    <3>2. CASE d = n
      <4>1. \A r \in Own(peer, used, Sent) : r.ep # d.ep
        BY <1>3, <1>4, <1>8, <2>3, <3>2 DEF Own
      <4>2. \A r \in Sent : r.key # d.key
        BY <1>2, <1>4, <1>8, <3>2
      <4> QED BY <1>2, <1>3, <1>4, <1>6, <2>1, <3>2, <4>1, <4>2
    <3> QED BY <2>2, <3>1, <3>2
  <2>5. \A r \in Own(peer', used', Sent) : r.ep <= peer'.sec0.ep
    BY <1>5, <2>1, <2>3
  <2>6. /\ peer'.sec0.ep >= 0 /\ peer'.sec0.ep # peer'.sec1.ep
        /\ peer'.sec0.key # peer'.sec1.key
    BY <1>2, <1>3, <1>4, <1>5
  <2> QED BY <2>4, <2>5, <2>6 DEF SecInv
<1>11. PeerInv(peer', todo', queue', used', Sent)
  BY <1>2, <1>5, <1>10 DEF PeerInv
<1>12. QueueInv(peer', queue')
  BY <1>1, <1>5 DEF RecordsInv, QueueInv
<1>13. NextKeyed(peer', used')
  BY <1>2, <1>4, <1>5, <1>6 DEF NextKeyed
<1>14. Phase(peer', todo', queue', used') /\ todo' \in Seq(StepType)
  <2>1. Phase(peer, todo, queue, used)
    BY DEF RecordsInv
  <2>2. CASE todo = <<MakeKey, SendCcs, DoSwitch, SendFin>> /\ NoFinished(queue)
             /\ peer.st = "flight"
    <3>1. todo' = <<SendCcs, DoSwitch, SendFin>>
      BY <1>1, <2>2, Tuples
    <3>2. Phase(peer', todo', queue', used')
      BY <1>1, <1>5, <1>13, <2>2, <3>1 DEF Phase, ClientSwitching
    <3> QED BY <3>2, <1>1, <1>2, HeadAndTail
  <2>3. CASE todo = <<MakeKey>> /\ peer.st = "ccs"
    <3>1. todo' = <<>>
      BY <1>1, <2>3, Tuples
    <3>2. Waiting(peer', used')
      BY <1>5, <1>13, <2>3 DEF Waiting
    <3> QED BY <3>1, <3>2, EmptyScript
  <2> QED BY <1>1, <1>2, <2>1, <2>2, <2>3, PhaseAt
<1> QED BY <1>1, <1>2, <1>5, <1>6, <1>7, <1>9, <1>11, <1>12, <1>14, Compose


\* The parameters of the next epoch are taken when no Finished awaits an answer.
LEMMA SwitchStep ==
    ASSUME RecordsInv, Switch
    PROVE  RecordsInv' /\ peer'.sec0.ep >= peer.sec0.ep
<1>1. /\ todo # <<>> /\ Head(todo).op = "switch" /\ todo' = Tail(todo)
      /\ peer' = [peer EXCEPT !.sec0 = peer.sec1, !.sec1 = peer.sec0]
      /\ used' = used /\ queue' = queue /\ wire' = wire
  BY DEF Switch, Idle
<1>2. /\ peer \in PeerType /\ used \in UsedType /\ Sent \in SUBSET RecordType
      /\ todo \in Seq(StepType) /\ queue \in Seq(NodeType)
      /\ peer.st # "none" /\ peer.sec0 \in SecType /\ peer.sec1 \in SecType
      /\ SecInv(peer, used, Sent) /\ SentInv(peer, used, Sent)
  BY <1>1, Alive
<1>3. /\ peer' \in PeerType /\ peer'.st = peer.st /\ peer'.role = peer.role
      /\ peer'.sec0 = peer.sec1 /\ peer'.sec1 = peer.sec0
  BY <1>1, <1>2 DEF PeerType
<1>4. NoFinished(queue) /\ NextKeyed(peer, used)
  BY <1>1, <1>2, PhaseAt DEF RecordsInv
<1>5. /\ peer.sec0.ep \in Int /\ peer.sec0.ep >= 0 /\ peer.sec1.ep = peer.sec0.ep + 1
  BY <1>2, <1>4, PeerFields DEF SecInv, NextKeyed
<1>6. Keyed(peer', used')
  BY <1>1, <1>3, <1>4 DEF Keyed, NextKeyed
<1>7. Phase(peer', todo', queue', used') /\ todo' \in Seq(StepType)
  <2>1. todo' \in Seq(StepType)
    BY <1>1, <1>2, HeadAndTail
  <2>2. Phase(peer, todo, queue, used)
    BY DEF RecordsInv
  <2>3. CASE todo = <<DoSwitch, SendFin>> /\ peer.st = "flight"
    <3>1. todo' = <<SendFin>>
      BY <1>1, <2>3, Tuples
    <3> QED BY <1>3, <1>6, <2>1, <2>3, <3>1 DEF Phase
  <2>4. CASE todo = <<DoSwitch, SendFin, Done>>
    <3>1. todo' = <<SendFin, Done>>
      BY <1>1, <2>4, Tuples
    <3> QED BY <1>6, <2>1, <3>1 DEF Phase
  <2> QED BY <1>1, <1>2, <2>2, <2>3, <2>4, PhaseAt
<1>8. QueueInv(peer', queue')
  <2>1. \A i \in 1..Len(queue) : queue[i].ep \in Int
    <3>1. \A i \in 1..Len(queue) : queue[i] \in NodeType
      BY <1>2, ElementOfSeq
    <3> QED BY <3>1 DEF NodeType
  <2>2. \A i \in 1..Len(queue) : queue[i].ep <= peer.sec0.ep => queue[i].ep <= peer.sec1.ep
    BY <1>5, <2>1
  <2> QED BY <1>1, <1>3, <1>4, <2>2 DEF RecordsInv, QueueInv, NoFinished
<1>9. SecInv(peer', used', Sent)
  <2>1. Own(peer', used', Sent) = Own(peer, used, Sent) /\ Secs(peer') = Secs(peer)
    BY <1>1, <1>3 DEF Own, Secs
  <2>2. \A r \in Own(peer, used, Sent) : r.ep <= peer'.sec0.ep
    <3>1. \A r \in Own(peer, used, Sent) : r.ep <= peer.sec0.ep /\ r.ep \in Int
      BY <1>2 DEF SecInv, Own, RecordType
    <3> QED BY <1>3, <1>5, <3>1
  <2>3. /\ peer'.sec0.ep >= 0 /\ peer'.sec0.ep # peer'.sec1.ep
        /\ peer'.sec0.key = peer'.sec1.key => peer'.sec0.key = NoKey
    BY <1>2, <1>3, <1>5 DEF SecInv
  <2>4. \A c \in Secs(peer') :
          /\ c.ep >= 0 /\ c.key <= used'.keys
          /\ c.ep = 0 /\ peer'.role = "S" => c.rseq >= 1
          /\ c.key # NoKey => \A r \in Sent : r.key = c.key =>
                                 r \in Own(peer', used', Sent) /\ r.ep = c.ep
          /\ \A r \in Own(peer', used', Sent) : r.ep = c.ep /\ ~r.bare => r.rseq < c.rseq
    BY <1>1, <1>2, <1>3, <2>1 DEF SecInv
  <2> QED BY <2>1, <2>2, <2>3, <2>4 DEF SecInv
<1>10. SentInv(peer', used', Sent)
  BY <1>1, <1>2, <1>3 DEF SentInv
<1>11. PeerInv(peer', todo', queue', used', Sent)
  BY <1>2, <1>3, <1>9 DEF PeerInv
<1>12. /\ Sent' = Sent /\ Sent' \subseteq RecordType /\ wire' \in [Sent' -> Nat]
       /\ PairInv(Sent') /\ OnceInv(wire')
  BY <1>1, SameWire
<1>13. peer'.sec0.ep >= peer.sec0.ep
  BY <1>3, <1>5
<1> QED BY <1>1, <1>2, <1>3, <1>7, <1>8, <1>10, <1>11, <1>12, <1>13, Compose

LEMMA IdlePeer ==
    ASSUME RecordsInv, Idle
    PROVE  Waiting(peer, used) /\ todo = <<>> /\ todo \in Seq(StepType) /\ used \in UsedType
<1>1. todo \in Seq(StepType) /\ todo = <<>> /\ used \in UsedType
  BY DEF RecordsInv, Types, Idle
<1> QED BY <1>1, PhaseAt DEF RecordsInv

-----------------------------------------------------------------------------
(* A new peer, and the answer without one *)

LEMMA MsgScripts ==
    /\ \A kind \in {"CH1", "CH", "HREQ", "HVR"}, len \in Nat, hash \in BOOLEAN :
          <<Msg(kind, len, hash)>> \in Seq(StepType) /\ Plain(<<Msg(kind, len, hash)>>)
    /\ <<Msg("SH", Short, TRUE), Msg("SHD", 0, TRUE)>> \in Seq(StepType)
    /\ Plain(<<Msg("SH", Short, TRUE), Msg("SHD", 0, TRUE)>>)
<1>1. /\ Short \in Nat /\ 0 \in Nat /\ TRUE \in BOOLEAN /\ "SH" \in Kind /\ "SHD" \in Kind
      /\ {"CH1", "CH", "HREQ", "HVR"} \subseteq Kind
  BY DEF Short, Kind
<1>2. ASSUME NEW kind \in {"CH1", "CH", "HREQ", "HVR"}, NEW len \in Nat, NEW hash \in BOOLEAN
      PROVE  <<Msg(kind, len, hash)>> \in Seq(StepType) /\ Plain(<<Msg(kind, len, hash)>>)
  <2> DEFINE m == Msg(kind, len, hash)
  <2>1. m \in StepType /\ m.op = "msg" /\ m.kind = kind
    BY <1>1, StepFields
  <2> HIDE DEF m
  <2>2. <<m>> \in Seq(StepType) /\ Len(<<m>>) = 1 /\ <<m>>[1] = m
    BY <2>1
  <2>3. Plain(<<m>>)
    BY <2>1, <2>2 DEF Plain
  <2> QED BY <2>2, <2>3 DEF m
<1>3. /\ <<Msg("SH", Short, TRUE), Msg("SHD", 0, TRUE)>> \in Seq(StepType)
      /\ Plain(<<Msg("SH", Short, TRUE), Msg("SHD", 0, TRUE)>>)
  <2> DEFINE m == Msg("SH", Short, TRUE)
             n == Msg("SHD", 0, TRUE)
  <2>1. /\ m \in StepType /\ m.op = "msg" /\ m.kind = "SH"
        /\ n \in StepType /\ n.op = "msg" /\ n.kind = "SHD"
    BY <1>1, StepFields
  <2> HIDE DEF m, n
  <2>2. /\ <<m, n>> \in Seq(StepType) /\ Len(<<m, n>>) = 2
        /\ <<m, n>>[1] = m /\ <<m, n>>[2] = n
    BY <2>1
  <2>3. Plain(<<m, n>>)
    BY <2>1, <2>2 DEF Plain
  <2> QED BY <2>2, <2>3 DEF m, n
<1> QED BY <1>2, <1>3

LEMMA ConnectStep ==
    ASSUME RecordsInv, NEW role \in {"C", "S"}, Connect(role)
    PROVE  RecordsInv'
<1> DEFINE sec == [ep |-> 0, key |-> NoKey, rseq |-> FirstNumber(role)]
<1>1. /\ Idle /\ peer.st = "none" /\ used' = [used EXCEPT !.con = @ + 1]
      /\ queue' = queue /\ wire' = wire
      /\ peer' = [NewPeer(role) EXCEPT !.st = IF role = "C" THEN "hello" ELSE "flight",
                                       !.hs = TRUE, !.s = IF role = "C" THEN 0 ELSE 1]
      /\ todo' = IF role = "C" THEN <<Msg("CH1", Short, FALSE)>>
                 ELSE <<Msg("SH", Short, TRUE), Msg("SHD", 0, TRUE)>>
  BY DEF Connect, Begin
<1>2. /\ used \in UsedType /\ used.con \in Nat /\ used.keys \in Nat
      /\ queue = <<>> /\ Sent \in SUBSET RecordType /\ SentInv(peer, used, Sent)
  BY <1>1 DEF RecordsInv, Types, PeerInv, UsedType
<1>3. used' \in UsedType /\ used'.con = used.con + 1 /\ used'.keys = used.keys
  <2>1. used.con + 1 \in Nat /\ used' = [used EXCEPT !.con = used.con + 1]
    BY <1>1, <1>2
  <2> QED BY <1>2, <2>1 DEF UsedType
<1>4. FirstNumber(role) \in Nat /\ (role = "S" => FirstNumber(role) = 1)
  BY DEF FirstNumber
<1>5. /\ sec \in SecType /\ sec.ep = 0 /\ sec.key = 0 /\ sec.rseq = FirstNumber(role)
  BY <1>4 DEF SecType, NoKey
<1> HIDE DEF sec
<1>6. /\ peer' \in PeerType /\ peer'.st \in {"hello", "flight"} /\ peer'.role = role
      /\ peer'.sec0 = sec /\ peer'.sec1 = NoSec
      /\ peer'.st = "flight" => role = "S"
  <2>1. NewPeer(role) = [NoPeer EXCEPT !.role = role, !.sec0 = sec]
    BY DEF NewPeer, sec
  <2>2. "hello" \in State /\ "flight" \in State /\ role \in Role
    BY DEF State, Role
  <2>3. NewPeer(role) \in PeerType /\ NewPeer(role).role = role
        /\ NewPeer(role).sec0 = sec /\ NewPeer(role).sec1 = NoSec
    BY <1>5, <2>1, <2>2, NoPeerYet DEF PeerType, NoPeer
  <2> QED BY <1>1, <2>2, <2>3 DEF PeerType
<1>7. Phase(peer', todo', queue', used') /\ todo' \in Seq(StepType)
  <2>1. Plain(todo') /\ todo' \in Seq(StepType)
    <3>1. Short \in Nat
      BY DEF Short
    <3> QED BY <1>1, <3>1, MsgScripts
  <2>2. Waiting(peer', used')
    BY <1>6 DEF Waiting
  <2> QED BY <2>1, <2>2 DEF Phase
<1>8. /\ Sent' = Sent /\ Sent' \subseteq RecordType /\ wire' \in [Sent' -> Nat]
      /\ PairInv(Sent') /\ OnceInv(wire')
  BY <1>1, SameWire
<1>9. \A r \in Sent : /\ r.con \in Nat /\ r.con <= used.con + 1 /\ r.key \in Nat
                      /\ r.con = used.con + 1 => r.bare /\ r.ep = 0
  BY <1>2 DEF SentInv, Stateless, RecordType
<1>10. SentInv(peer', used', Sent)
  BY <1>2, <1>3, <1>9 DEF SentInv
<1>11. SecInv(peer', used', Sent)
  <2>1. \A r \in Own(peer', used', Sent) : r.bare /\ r.ep = 0
    BY <1>3, <1>9 DEF Own
  <2>2. Secs(peer') \subseteq {sec}
    BY <1>6 DEF Secs
  <2>3. peer'.sec0.ep = 0 /\ peer'.sec1.ep = -1 /\ peer'.sec0.key = NoKey
    BY <1>5, <1>6 DEF NoSec, NoKey
  <2> QED BY <1>2, <1>3, <1>4, <1>5, <1>6, <2>1, <2>2, <2>3 DEF SecInv, NoKey
<1>12. PeerInv(peer', todo', queue', used', Sent)
  BY <1>6, <1>11 DEF PeerInv
<1>13. queue' \in Seq(NodeType) /\ QueueInv(peer', queue')
  BY <1>1, <1>2 DEF QueueInv
<1> QED BY <1>3, <1>6, <1>7, <1>8, <1>10, <1>12, <1>13, Compose


LEMMA StatelessStep ==
    ASSUME RecordsInv, StatelessVerify
    PROVE  RecordsInv'
<1> DEFINE r == Stateless(used)
<1>1. /\ Idle /\ peer.st = "none" /\ used' = [used EXCEPT !.extra = @ + 1]
      /\ peer' = peer /\ todo' = todo /\ queue' = queue
      /\ Put([Made(NoSec, "HVR", used.keys, 0) EXCEPT !.con = used.con + 1, !.role = "S"])
  BY DEF StatelessVerify, Extra
<1>2. /\ peer \in PeerType /\ used \in UsedType /\ Sent \in SUBSET RecordType
      /\ queue \in Seq(NodeType) /\ todo \in Seq(StepType)
      /\ SentInv(peer, used, Sent) /\ PairInv(Sent) /\ Phase(peer, todo, queue, used)
      /\ QueueInv(peer, queue) /\ peer = NoPeer /\ todo = <<>> /\ queue = <<>>
  BY <1>1 DEF RecordsInv, Types, PeerInv
<1>3. /\ r \in RecordType /\ SentInv(peer, used, Sent \cup {r})
      /\ PairInv(Sent \cup {r})
  BY <1>1, <1>2, StatelessRecord
<1>4. Put(r)
  <2>1. [Made(NoSec, "HVR", used.keys, 0) EXCEPT !.con = used.con + 1, !.role = "S"] = r
    <3> DEFINE m == Made(NoSec, "HVR", used.keys, 0)
               e == [m EXCEPT !.con = used.con + 1, !.role = "S"]
    <3>1. Types /\ NoSec \in SecType /\ "HVR" \in Kind /\ used.keys \in Nat /\ 0 \in Int
      BY <1>2, NoPeerYet DEF RecordsInv, UsedType, Kind
    <3>2. m \in RecordType
      BY ONLY <3>1, MadeRecord
    <3>3. /\ m.ep = 0 /\ m.rseq = 0 /\ m.key = NoKey /\ m.bare = TRUE
          /\ m.kind = "HVR" /\ m.ses = used.keys /\ m.off = 0
      BY DEF Made, NoSec
    <3> HIDE DEF m
    <3>4. used.con + 1 \in Nat /\ "S" \in Role
      BY <1>2 DEF UsedType, Role
    <3>5. /\ e \in RecordType /\ e.con = used.con + 1 /\ e.role = "S"
          /\ e.ep = m.ep /\ e.rseq = m.rseq /\ e.key = m.key /\ e.bare = m.bare
          /\ e.kind = m.kind /\ e.ses = m.ses /\ e.off = m.off
      BY <3>2, <3>4 DEF RecordType
    <3>6. /\ r.con = used.con + 1 /\ r.role = "S" /\ r.ep = 0 /\ r.rseq = 0 /\ r.key = NoKey
          /\ r.bare = TRUE /\ r.kind = "HVR" /\ r.ses = used.keys /\ r.off = 0
      BY DEF Stateless
    <3>7. r \in RecordType
      BY <1>3
    <3> HIDE DEF e, r
    <3>8. e = r
      BY <3>3, <3>5, <3>6, <3>7 DEF RecordType
    <3> QED BY <3>8 DEF e, m, r
  <2> QED BY <1>1, <2>1
<1>5. r.key = NoKey
  BY DEF Stateless
<1> HIDE DEF r
<1>6. /\ Sent' = Sent \cup {r} /\ Sent' \subseteq RecordType
      /\ wire' \in [Sent' -> Nat] /\ OnceInv(wire')
  BY <1>4, <1>3, <1>5, SendBare
<1>7. used' \in UsedType /\ used'.con = used.con /\ used'.keys = used.keys
  <2>1. used.extra + 1 \in Nat /\ used' = [used EXCEPT !.extra = used.extra + 1]
    BY <1>1, <1>2 DEF UsedType
  <2> QED BY <1>2, <2>1 DEF UsedType
<1>8. SentInv(peer', used', Sent')
  BY <1>1, <1>3, <1>6, <1>7 DEF SentInv, Stateless
<1>9. Phase(peer', todo', queue', used')
  BY <1>1, <1>2, EmptyScript, NoPeerYet
<1>10. PeerInv(peer', todo', queue', used', Sent')
  BY <1>1, <1>2 DEF PeerInv
<1>11. QueueInv(peer', queue') /\ PairInv(Sent')
  BY <1>1, <1>2, <1>3, <1>6
<1> QED BY <1>1, <1>2, <1>6, <1>7, <1>8, <1>9, <1>10, <1>11, Compose

-----------------------------------------------------------------------------
(* dtls_retransmit() *)

\* The first node goes to the end, or is dropped.
LEMMA QueueTurned ==
    ASSUME RecordsInv, queue # <<>>, NEW n \in NodeType,
           n.ep = Head(queue).ep, n.kind = Head(queue).kind, n.ses = Head(queue).ses,
           queue' \in {Tail(queue), Append(Tail(queue), n)}
    PROVE  queue' \in Seq(NodeType) /\ QueueInv(peer, queue')
<1>1. queue \in Seq(NodeType) /\ QueueInv(peer, queue)
  BY DEF RecordsInv, Types
<1>2. /\ Head(queue) = queue[1] /\ 1 \in 1..Len(queue)
      /\ Tail(queue) \in Seq(NodeType)
      /\ \A i \in 1..Len(Tail(queue)) :
            i + 1 \in 1..Len(queue) /\ Tail(queue)[i] = queue[i + 1]
  BY <1>1, HeadAndTail
<1>3. QueueInv(peer, Tail(queue))
  BY <1>1, <1>2 DEF QueueInv
<1>4. CASE queue' = Tail(queue)
  BY <1>2, <1>3, <1>4
<1>5. CASE queue' = Append(Tail(queue), n)
  <2>1. /\ queue' \in Seq(NodeType)
        /\ \A i \in 1..Len(queue') :
              queue'[i] = n \/ \E j \in 1..Len(Tail(queue)) : queue'[i] = Tail(queue)[j]
    BY <1>2, <1>5, AppendOne
  <2> QED BY <1>1, <1>2, <1>3, <2>1 DEF QueueInv
<1> QED BY <1>4, <1>5

\* What a copy is sent under: parameters of its epoch, which are those of its
\* session when it is a Finished, or none.
LEMMA CopyParameters ==
    ASSUME RecordsInv, queue # <<>>, NEW c, c = ParamsEpoch(peer, Head(queue).ep)
    PROVE  /\ peer.st # "none" /\ Head(queue) \in NodeType
           /\ Head(queue).kind \notin {"HVR", "APP"}
           /\ c = NoSec => Head(queue).kind # "FIN"
           /\ c # NoSec => /\ c \in Secs(peer) /\ c.ep <= peer.sec0.ep
                           /\ c = peer.sec0 \/ (c = peer.sec1 /\ c # peer.sec0)
           /\ Head(queue).kind = "FIN" => c.key # NoKey /\ c.key = Head(queue).ses
<1> DEFINE n == Head(queue)
<1>1. peer.st # "none"
  BY DEF RecordsInv, PeerInv
<1>2. /\ peer \in PeerType /\ queue \in Seq(NodeType) /\ peer.sec0 \in Secs(peer)
      /\ SecInv(peer, used, Sent)
  BY <1>1, Alive
<1>3. n \in NodeType /\ n = queue[1] /\ 1 \in 1..Len(queue)
  BY <1>2, HeadAndTail
<1>4. /\ n.ep >= 0 /\ n.ep <= peer.sec0.ep /\ Copied(n.kind)
      /\ n.kind = "FIN" => n.ep = peer.sec0.ep /\ n.ses = peer.sec0.key /\ n.ses # NoKey
  BY <1>3 DEF RecordsInv, QueueInv
<1>5. n.kind \notin {"HVR", "APP"}
  BY <1>4 DEF Copied
<1>6. peer.sec0 # NoSec /\ peer.sec0.ep # peer.sec1.ep
  BY <1>2 DEF Secs, SecInv
<1> HIDE DEF n
<1>7. c = ParamsEpoch(peer, n.ep)
  BY DEF n
<1>8. CASE peer.sec0.ep = n.ep
  <2>1. c = peer.sec0
    BY <1>7, <1>8 DEF ParamsEpoch
  <2> QED BY <1>1, <1>2, <1>3, <1>4, <1>5, <1>6, <1>8, <2>1 DEF n
<1>9. CASE peer.sec0.ep # n.ep /\ peer.sec1.ep = n.ep
  <2>1. c = peer.sec1
    BY <1>7, <1>9 DEF ParamsEpoch
  <2>2. c # NoSec => c \in Secs(peer)
    BY <2>1 DEF Secs
  <2> QED BY <1>1, <1>3, <1>4, <1>5, <1>6, <1>9, <2>1, <2>2 DEF n
<1>10. CASE peer.sec0.ep # n.ep /\ peer.sec1.ep # n.ep
  <2>1. c = NoSec
    BY <1>7, <1>10 DEF ParamsEpoch
  <2> QED BY <1>1, <1>3, <1>4, <1>5, <1>10, <2>1 DEF n
<1> QED BY <1>8, <1>9, <1>10

LEMMA CopySent ==
    ASSUME RecordsInv, queue # <<>>, NEW c, c = ParamsEpoch(peer, Head(queue).ep),
           Put(Made(c, Head(queue).kind, Head(queue).ses, Head(queue).off)),
           peer' = IF c = NoSec THEN peer
                   ELSE IF c = peer.sec0 THEN [peer EXCEPT !.sec0 = Counted(@)]
                   ELSE [peer EXCEPT !.sec1 = Counted(@)]
    PROVE  /\ peer' \in PeerType /\ peer'.st = peer.st /\ peer'.role = peer.role
           /\ peer'.sec0 = peer.sec0 \/ peer'.sec0 = Counted(peer.sec0)
           /\ peer'.sec1 = peer.sec1 \/ peer'.sec1 = Counted(peer.sec1)
           /\ Sent' \subseteq RecordType /\ wire' \in [Sent' -> Nat]
           /\ SecInv(peer', used, Sent') /\ SentInv(peer', used, Sent')
           /\ PairInv(Sent') /\ OnceInv(wire')
<1> DEFINE n == Head(queue)
<1>1. /\ peer.st # "none" /\ n \in NodeType
      /\ n.kind \notin {"HVR", "APP"}
      /\ c = NoSec => n.kind # "FIN"
      /\ c # NoSec => /\ c \in Secs(peer) /\ c.ep <= peer.sec0.ep
                      /\ c = peer.sec0 \/ (c = peer.sec1 /\ c # peer.sec0)
      /\ n.kind = "FIN" => c.key # NoKey /\ c.key = n.ses
  BY CopyParameters
<1>2. Put(Made(c, n.kind, n.ses, n.off))
  OBVIOUS
<1> HIDE DEF n
<1>3. n.kind \in Kind /\ n.ses \in Nat /\ n.off \in Int
  BY <1>1 DEF NodeType
<1>4. /\ peer \in PeerType /\ used \in UsedType /\ Sent \in SUBSET RecordType
      /\ SecInv(peer, used, Sent) /\ SentInv(peer, used, Sent) /\ PairInv(Sent)
      /\ used.con \in Nat
  BY <1>1, Alive
<1>5. CASE c = NoSec
  <2> DEFINE r == Made(c, n.kind, n.ses, n.off)
  <2>0. Types
    BY DEF RecordsInv
  <2>1. /\ r \in RecordType /\ r.con = used.con /\ r.role = peer.role /\ r.ep = 0
        /\ r.key = NoKey /\ r.bare /\ r.kind \notin {"HVR", "FIN", "APP"}
    <3>1. r \in RecordType /\ r.ep = 0 /\ r.bare /\ r.kind = n.kind
      BY ONLY <1>3, <1>5, <2>0, MadeRecord, NoPeerYet
    <3>2. r.con = used.con /\ r.role = peer.role /\ r.key = NoKey
      BY <1>5 DEF Made, NoSec
    <3> QED BY <1>1, <1>5, <3>1, <3>2
  <2>2. Put(r)
    BY <1>2
  <2> HIDE DEF r
  <2>3. /\ SecInv(peer, used, Sent \cup {r}) /\ SentInv(peer, used, Sent \cup {r})
        /\ PairInv(Sent \cup {r})
    BY <1>1, <1>4, <2>1, BareRecord
  <2>4. /\ Sent' = Sent \cup {r} /\ Sent' \subseteq RecordType
        /\ wire' \in [Sent' -> Nat] /\ OnceInv(wire')
    BY <2>1, <2>2, SendBare
  <2> QED BY <1>4, <1>5, <2>3, <2>4
<1>6. CASE c # NoSec
  <2>1. /\ peer' \in PeerType /\ peer'.st = peer.st /\ peer'.role = peer.role
        /\ \/ c = peer.sec0 /\ peer'.sec0 = Counted(peer.sec0) /\ peer'.sec1 = peer.sec1
           \/ c = peer.sec1 /\ peer'.sec1 = Counted(peer.sec1) /\ peer'.sec0 = peer.sec0
    <3>1. CASE c = peer.sec0
      <4>1. peer' = [peer EXCEPT !.sec0 = Counted(@)]
        BY <1>6, <3>1
      <4> QED BY <1>4, <3>1, <4>1, CountedPeer DEF PeerType
    <3>2. CASE c = peer.sec1 /\ c # peer.sec0
      <4>1. peer' = [peer EXCEPT !.sec1 = Counted(@)]
        BY <1>6, <3>2
      <4> QED BY <1>4, <3>2, <4>1, CountedPeer DEF PeerType
    <3> QED BY <1>1, <1>6, <3>1, <3>2
  <2>2. c \in Secs(peer) /\ c.ep <= peer.sec0.ep
    BY <1>1, <1>6
  <2>3. n.kind \in {"FIN", "APP"} => c.key # NoKey /\ c.key = n.ses
    BY <1>1
  <2>4. /\ Sent' \subseteq RecordType /\ wire' \in [Sent' -> Nat]
        /\ SecInv(peer', used, Sent') /\ SentInv(peer', used, Sent')
        /\ PairInv(Sent') /\ OnceInv(wire')
    BY ONLY RecordsInv, <1>1, <1>2, <1>3, <2>1, <2>2, <2>3, SendSealed
  <2> QED BY <2>1, <2>4
<1> QED BY <1>5, <1>6


LEMMA RetransmitStep ==
    ASSUME RecordsInv, Retransmit
    PROVE  RecordsInv' /\ (peer'.sec0 = peer.sec0 \/ peer'.sec0 = Counted(peer.sec0))
<1> DEFINE n == Head(queue)
           c == ParamsEpoch(peer, n.ep)
           next == [n EXCEPT !.cnt = @ + 1]
<1>1. /\ Idle /\ queue # <<>> /\ todo' = todo
      /\ \/ /\ used' = [used EXCEPT !.again = @ + 1]
            /\ queue' = Append(Tail(queue), next)
            /\ Put(Made(c, n.kind, n.ses, n.off))
            /\ peer' = IF c = NoSec THEN peer
                       ELSE IF c = peer.sec0 THEN [peer EXCEPT !.sec0 = Counted(@)]
                       ELSE [peer EXCEPT !.sec1 = Counted(@)]
         \/ queue' = Tail(queue) /\ wire' = wire /\ peer' = peer /\ used' = used
  BY DEF Retransmit
<1>2. n \in NodeType /\ peer.st # "none"
  BY <1>1, CopyParameters
<1>3. /\ next \in NodeType /\ next.ep = n.ep /\ next.kind = n.kind /\ next.ses = n.ses
  <2> HIDE DEF n
  <2>1. n.cnt + 1 \in Nat
    BY <1>2 DEF NodeType
  <2> QED BY <1>2, <2>1 DEF NodeType
<1>4. peer \in PeerType /\ used \in UsedType
  BY <1>2, Alive
<1>5. Waiting(peer, used) /\ todo = <<>> /\ todo \in Seq(StepType)
  BY <1>1, IdlePeer
<1>6. queue' \in Seq(NodeType) /\ QueueInv(peer, queue')
  <2> HIDE DEF c, next
  <2>1. queue' \in {Tail(queue), Append(Tail(queue), next)}
    BY <1>1
  <2> QED BY <1>1, <1>3, <2>1, QueueTurned
<1> HIDE DEF c, next
<1>7. c = ParamsEpoch(peer, Head(queue).ep)
  BY DEF c
<1>8. /\ peer' \in PeerType /\ peer'.st = peer.st /\ peer'.role = peer.role
      /\ peer'.sec0 = peer.sec0 \/ peer'.sec0 = Counted(peer.sec0)
      /\ peer'.sec1 = peer.sec1 \/ peer'.sec1 = Counted(peer.sec1)
      /\ Sent' \subseteq RecordType /\ wire' \in [Sent' -> Nat]
      /\ SecInv(peer', used, Sent') /\ SentInv(peer', used, Sent')
      /\ PairInv(Sent') /\ OnceInv(wire')
  <2>1. CASE /\ Put(Made(c, n.kind, n.ses, n.off))
             /\ peer' = IF c = NoSec THEN peer
                        ELSE IF c = peer.sec0 THEN [peer EXCEPT !.sec0 = Counted(@)]
                        ELSE [peer EXCEPT !.sec1 = Counted(@)]
    BY ONLY RecordsInv, <1>1, <1>7, <2>1, CopySent
  <2>2. CASE wire' = wire /\ peer' = peer
    <3>1. /\ Sent' = Sent /\ Sent' \subseteq RecordType /\ wire' \in [Sent' -> Nat]
          /\ PairInv(Sent') /\ OnceInv(wire')
      BY <2>2, SameWire
    <3>2. SecInv(peer, used, Sent) /\ SentInv(peer, used, Sent)
      BY <1>2, Alive
    <3> QED BY <1>4, <2>2, <3>1, <3>2
  <2> QED BY <1>1, <2>1, <2>2
<1>9. used' \in UsedType /\ used'.con = used.con /\ used'.keys = used.keys
  <2>1. CASE used' = [used EXCEPT !.again = @ + 1]
    <3>1. used.again + 1 \in Nat /\ used' = [used EXCEPT !.again = used.again + 1]
      BY <1>4, <2>1 DEF UsedType
    <3> QED BY <1>4, <3>1 DEF UsedType
  <2>2. CASE used' = used
    BY <1>4, <2>2
  <2> QED BY <1>1, <2>1, <2>2
<1>10. Phase(peer', todo', queue', used')
  <2>1. Waiting(peer', used')
    BY ONLY <1>4, <1>5, <1>8, <1>9, KeysKept
  <2> QED BY <1>1, <1>5, <2>1, EmptyScript
<1>11. SecInv(peer', used', Sent') /\ SentInv(peer', used', Sent')
  <2>1. peer'.st # "none" /\ peer'.sec1 \in {peer'.sec1, NoSec} /\ Sent' \in SUBSET RecordType
    BY <1>2, <1>8
  <2> QED BY ONLY <1>4, <1>8, <1>9, <2>1, KeepParameters
<1>12. QueueInv(peer', queue')
  <2>1. peer'.sec0.ep = peer.sec0.ep /\ peer'.sec0.key = peer.sec0.key
    BY <1>4, <1>8, PeerFields DEF Counted, SecType
  <2> QED BY <1>6, <2>1 DEF QueueInv
<1>13. PeerInv(peer', todo', queue', used', Sent')
  BY <1>2, <1>8, <1>11 DEF PeerInv
<1>14. todo' \in Seq(StepType)
  BY <1>1, <1>5
<1>15. RecordsInv'
  BY ONLY <1>6, <1>8, <1>9, <1>10, <1>11, <1>12, <1>13, <1>14, Compose
<1> QED BY <1>8, <1>15

-----------------------------------------------------------------------------
(* Calls *)

LEMMA FreedOther ==
    ASSUME NEW p \in PeerType
    PROVE  /\ FreeOther(p) \in PeerType /\ FreeOther(p).st = p.st
           /\ FreeOther(p).role = p.role /\ FreeOther(p).sec0 = p.sec0
           /\ FreeOther(p).sec1 \in {p.sec1, NoSec}
           /\ p.sec1.ep = p.sec0.ep + 1 => FreeOther(p) = p
<1>1. p.sec0.ep \in Int
  BY PeerFields
<1>2. CASE p.sec1 = NoSec \/ p.sec0.ep < p.sec1.ep
  <2>1. FreeOther(p) = p
    BY <1>2 DEF FreeOther
  <2> QED BY <2>1
<1>3. CASE ~(p.sec1 = NoSec \/ p.sec0.ep < p.sec1.ep)
  <2>1. FreeOther(p) = [p EXCEPT !.sec1 = NoSec]
    BY <1>3 DEF FreeOther
  <2>2. [p EXCEPT !.sec1 = NoSec] \in PeerType
    BY NoPeerYet DEF PeerType
  <2>3. ~(p.sec1.ep = p.sec0.ep + 1)
    BY <1>1, <1>3
  <2> QED BY <2>1, <2>2, <2>3 DEF PeerType
<1> QED BY <1>2, <1>3

LEMMA RecordOpensStep ==
    ASSUME RecordsInv, RecordOpens
    PROVE  RecordsInv' /\ peer'.sec0 = peer.sec0
<1>1. /\ Idle /\ peer' = FreeOther(peer) /\ (peer.sec0.key # NoKey \/ peer.sec1.key # NoKey)
      /\ todo' = todo /\ queue' = queue /\ wire' = wire /\ used' = used
  BY DEF RecordOpens
<1>2. peer.st # "none"
  <2>1. NoPeer.sec0.key = NoKey /\ NoPeer.sec1.key = NoKey
    BY DEF NoPeer, NoSec
  <2> QED BY <1>1, <2>1 DEF RecordsInv, PeerInv
<1>3. peer \in PeerType /\ used \in UsedType
  BY <1>2, Alive
<1>4. Waiting(peer, used) /\ todo = <<>> /\ todo \in Seq(StepType)
  BY <1>1, IdlePeer
<1>5. /\ peer' \in PeerType /\ peer'.st = peer.st /\ peer'.role = peer.role
      /\ peer'.sec0 = peer.sec0 /\ peer'.sec1 \in {peer.sec1, NoSec}
      /\ peer.sec1.ep = peer.sec0.ep + 1 => peer' = peer
  BY <1>1, <1>3, FreedOther
<1>6. Waiting(peer', used')
  BY <1>1, <1>4, <1>5 DEF Waiting, Keyed, NextKeyed
<1>7. Phase(peer', todo', queue', used') /\ todo' \in Seq(StepType)
  BY <1>1, <1>4, <1>6, EmptyScript
<1>8. RecordsInv'
  BY <1>1, <1>2, <1>3, <1>5, <1>7, QuietStep
<1> QED BY <1>5, <1>8


LEMMA CallStep ==
    ASSUME RecordsInv, Idle, peer.st # "none", wire' = wire,
           peer' \in PeerType, peer'.st # "none", peer'.role = peer.role,
           peer'.sec0 = peer.sec0, peer'.sec1 \in {peer.sec1, NoSec},
           used' = used \/ Extra, todo' \in Seq(StepType), queue' \in {queue, <<>>},
           Phase(peer', todo', queue', used')
    PROVE  RecordsInv'
<1>1. used \in UsedType
  BY Alive
<1>2. used' \in UsedType /\ used'.con = used.con /\ used'.keys = used.keys
  <2>1. CASE Extra
    <3>1. used.extra + 1 \in Nat /\ used' = [used EXCEPT !.extra = used.extra + 1]
      BY <1>1, <2>1 DEF Extra, UsedType
    <3> QED BY <1>1, <3>1 DEF UsedType
  <2>2. CASE used' = used
    BY <1>1, <2>2
  <2> QED BY <2>1, <2>2
<1> QED BY <1>2, QuietStep

LEMMA HelloVerifiedStep ==
    ASSUME RecordsInv, HelloVerified
    PROVE  RecordsInv' /\ peer'.sec0 = peer.sec0
<1>1. /\ Idle /\ peer.st = "hello" /\ todo' = <<Msg("CH", Short, TRUE)>>
      /\ peer' = [peer EXCEPT !.st = "verified", !.hashed = <<>>]
      /\ queue' = <<>> /\ wire' = wire /\ used' = used
  BY DEF HelloVerified, Begin
<1>2. peer \in PeerType
  BY <1>1, Alive
<1>3. /\ peer' \in PeerType /\ peer'.st = "verified" /\ peer'.role = peer.role
      /\ peer'.sec0 = peer.sec0 /\ peer'.sec1 = peer.sec1
  <2>1. "verified" \in State /\ <<>> \in Seq(HeaderType)
    BY DEF State
  <2> QED BY <1>1, <1>2, <2>1 DEF PeerType
<1>4. todo' \in Seq(StepType) /\ Plain(todo')
  BY <1>1, MsgScripts DEF Short
<1>5. Phase(peer', todo', queue', used')
  BY <1>3, <1>4 DEF Phase, Waiting
<1>6. RecordsInv'
  BY <1>1, <1>3, <1>4, <1>5, CallStep
<1> QED BY <1>3, <1>6

LEMMA ServerHelloDoneStep ==
    ASSUME RecordsInv, ServerHelloDone
    PROVE  RecordsInv' /\ peer'.sec0 = peer.sec0
<1>1. PICK len \in CkxLengths :
         todo' = <<Msg("CKX", len, TRUE), Step("key", ""), Step("rec", "CCS"),
                   Step("switch", ""), Msg("FIN", Short, TRUE)>>
  BY DEF ServerHelloDone, Begin
<1>2. /\ Idle /\ peer.st = "verified" /\ peer' = [peer EXCEPT !.st = "flight"]
      /\ queue' = <<>> /\ wire' = wire /\ used' = used
  BY DEF ServerHelloDone, Begin
<1>3. peer \in PeerType
  BY <1>2, Alive
<1>4. /\ peer' \in PeerType /\ peer'.st = "flight" /\ peer'.role = peer.role
      /\ peer'.sec0 = peer.sec0 /\ peer'.sec1 = peer.sec1
  <2>1. "flight" \in State
    BY DEF State
  <2> QED BY <1>2, <1>3, <2>1 DEF PeerType
<1>5. todo' \in Seq(StepType) /\ Keying(todo')
  <2> DEFINE m == Msg("CKX", len, TRUE)
  <2>1. m \in StepType /\ m.op = "msg" /\ m.kind = "CKX"
    <3>1. len \in Nat /\ "CKX" \in Kind /\ TRUE \in BOOLEAN
      BY LengthAssumption DEF Kind
    <3> QED BY <3>1, StepFields
  <2>2. todo' = <<m, MakeKey, SendCcs, DoSwitch, SendFin>>
    BY <1>1 DEF MakeKey, SendCcs, DoSwitch, SendFin
  <2> HIDE DEF m
  <2>3. todo' \in Seq(StepType)
    BY <2>1, <2>2, NamedSteps
  <2>4. Len(todo') = 5 /\ todo'[1] = m /\ Tail(todo') = <<MakeKey, SendCcs, DoSwitch, SendFin>>
    BY <2>2
  <2> QED BY <2>1, <2>3, <2>4 DEF Keying
<1>6. NoFinished(queue')
  BY <1>2 DEF NoFinished
<1>7. Phase(peer', todo', queue', used')
  BY <1>4, <1>5, <1>6 DEF Phase
<1>8. RecordsInv'
  BY <1>2, <1>4, <1>5, <1>7, CallStep
<1> QED BY <1>4, <1>8

LEMMA ChangeCipherSpecStep ==
    ASSUME RecordsInv, ChangeCipherSpec
    PROVE  RecordsInv' /\ peer'.sec0 = peer.sec0
<1>1. /\ Idle /\ peer.st = "flight" /\ todo' = <<MakeKey>>
      /\ peer' = [peer EXCEPT !.st = "ccs"]
      /\ queue' = <<>> /\ wire' = wire /\ used' = used
  BY DEF ChangeCipherSpec, Begin, MakeKey
<1>2. peer \in PeerType
  BY <1>1, Alive
<1>3. /\ peer' \in PeerType /\ peer'.st = "ccs" /\ peer'.role = peer.role
      /\ peer'.sec0 = peer.sec0 /\ peer'.sec1 = peer.sec1
  <2>1. "ccs" \in State
    BY DEF State
  <2> QED BY <1>1, <1>2, <2>1 DEF PeerType
<1>4. todo' \in Seq(StepType)
  BY <1>1, NamedSteps
<1>5. Phase(peer', todo', queue', used')
  BY <1>1, <1>3 DEF Phase
<1>6. RecordsInv'
  BY <1>1, <1>3, <1>4, <1>5, CallStep
<1> QED BY <1>3, <1>6

LEMMA FinishedStep ==
    ASSUME RecordsInv, Finished
    PROVE  RecordsInv' /\ peer'.sec0 = peer.sec0
<1>1. /\ Idle /\ peer' = FreeOther(peer) /\ queue' = <<>> /\ wire' = wire /\ used' = used
      /\ \/ /\ peer.role = "S" /\ peer.st = "ccs"
            /\ todo' = <<SendCcs, DoSwitch, SendFin, Done>>
         \/ /\ peer.role = "C" /\ peer.st = "flight" /\ todo' = <<Done>>
  BY DEF Finished, Begin, SendCcs, DoSwitch, SendFin, Done
<1>2. peer \in PeerType /\ peer.st # "none"
  BY <1>1, Alive
<1>3. /\ peer' \in PeerType /\ peer'.st = peer.st /\ peer'.role = peer.role
      /\ peer'.sec0 = peer.sec0 /\ peer'.sec1 \in {peer.sec1, NoSec}
      /\ peer.sec1.ep = peer.sec0.ep + 1 => peer' = peer
  BY <1>1, <1>2, FreedOther
<1>4. Waiting(peer, used)
  BY <1>1, IdlePeer
<1>5. todo' \in Seq(StepType) /\ Phase(peer', todo', queue', used')
  <2>1. CASE peer.st = "ccs" /\ todo' = <<SendCcs, DoSwitch, SendFin, Done>>
    <3>1. NextKeyed(peer', used')
      BY <1>1, <1>3, <1>4, <2>1 DEF Waiting, NextKeyed
    <3>2. NoFinished(queue')
      BY <1>1 DEF NoFinished
    <3> QED BY <1>3, <2>1, <3>1, <3>2, NamedSteps DEF Phase, ServerSwitching
  <2>2. CASE peer.role = "C" /\ peer.st = "flight" /\ todo' = <<Done>>
    <3>1. Keyed(peer', used')
      BY <1>1, <1>3, <1>4, <2>2 DEF Waiting, Keyed
    <3> QED BY <2>2, <3>1, NamedSteps DEF Phase
  <2> QED BY <1>1, <2>1, <2>2
<1>6. RecordsInv'
  BY <1>1, <1>2, <1>3, <1>5, CallStep
<1> QED BY <1>3, <1>6

LEMMA OwnVerifyStep ==
    ASSUME RecordsInv, OwnVerify
    PROVE  RecordsInv' /\ peer'.sec0 = peer.sec0
<1>1. /\ Idle /\ peer.st \in {"connected", "request"} /\ peer' = peer
      /\ todo' = <<Msg("HVR", Short, FALSE)>>
      /\ queue' = <<>> /\ wire' = wire /\ Extra
  BY DEF OwnVerify, Begin
<1>2. peer \in PeerType /\ used \in UsedType
  BY <1>1, Alive
<1>3. Waiting(peer, used)
  BY <1>1, IdlePeer
<1>4. todo' \in Seq(StepType) /\ Plain(todo')
  BY <1>1, MsgScripts DEF Short
<1>5. used'.keys = used.keys
  BY <1>1, <1>2 DEF Extra, UsedType
<1>6. Phase(peer', todo', queue', used')
  BY <1>1, <1>3, <1>4, <1>5 DEF Phase, Waiting, Keyed
<1>7. RecordsInv'
  BY <1>1, <1>2, <1>4, <1>6, CallStep
<1> QED BY <1>1, <1>7

LEMMA ServerRenegotiatesStep ==
    ASSUME RecordsInv, ServerRenegotiates
    PROVE  RecordsInv' /\ peer'.sec0 = peer.sec0
<1> DEFINE s == IF peer.hs THEN peer.s ELSE 1
<1>1. /\ Idle /\ peer.role = "S" /\ peer.st \in {"connected", "request"}
      /\ peer' = [peer EXCEPT !.st = "flight", !.hs = TRUE, !.hashed = <<>>, !.s = s]
      /\ todo' = <<Msg("SH", Short, TRUE), Msg("SHD", 0, TRUE)>>
      /\ queue' = <<>> /\ wire' = wire /\ used' = used
  BY DEF ServerRenegotiates, Begin
<1>2. peer \in PeerType
  BY <1>1, Alive
<1>3. /\ peer' \in PeerType /\ peer'.st = "flight" /\ peer'.role = "S"
      /\ peer'.sec0 = peer.sec0 /\ peer'.sec1 = peer.sec1
  <2>1. "flight" \in State /\ <<>> \in Seq(HeaderType) /\ s \in Nat
    BY <1>2, PeerFields DEF State
  <2> QED BY <1>1, <1>2, <2>1 DEF PeerType
<1>4. todo' \in Seq(StepType) /\ Plain(todo')
  BY <1>1, MsgScripts
<1>5. Phase(peer', todo', queue', used')
  BY <1>3, <1>4 DEF Phase, Waiting
<1>6. RecordsInv'
  BY <1>1, <1>3, <1>4, <1>5, CallStep
<1> QED BY <1>3, <1>6

LEMMA RenegotiateStep ==
    ASSUME RecordsInv, Renegotiate
    PROVE  RecordsInv' /\ peer'.sec0 = peer.sec0
<1> DEFINE st == IF peer.role = "C" THEN "hello" ELSE "request"
<1>1. /\ Idle /\ peer.st = "connected"
      /\ peer' = [peer EXCEPT !.st = st, !.hs = TRUE, !.s = 0]
      /\ todo' = <<Msg(IF peer.role = "C" THEN "CH1" ELSE "HREQ",
                       IF peer.role = "C" THEN Short ELSE 0, FALSE)>>
      /\ queue' = queue /\ wire' = wire /\ used' = used
  BY DEF Renegotiate, Begin
<1>2. peer \in PeerType
  BY <1>1, Alive
<1>3. /\ peer' \in PeerType /\ peer'.st \in {"hello", "request"} /\ peer'.role = peer.role
      /\ peer'.sec0 = peer.sec0 /\ peer'.sec1 = peer.sec1
  <2>1. st \in State /\ st \in {"hello", "request"}
    BY DEF State
  <2> HIDE DEF st
  <2> QED BY <1>1, <1>2, <2>1 DEF PeerType
<1>4. todo' \in Seq(StepType) /\ Plain(todo')
  <2>1. Short \in Nat
    BY DEF Short
  <2>2. CASE peer.role = "C"
    BY <1>1, <2>1, <2>2, MsgScripts
  <2>3. CASE peer.role # "C"
    BY <1>1, <2>3, MsgScripts
  <2> QED BY <2>2, <2>3
<1>5. Phase(peer', todo', queue', used')
  BY <1>3, <1>4 DEF Phase, Waiting
<1>6. RecordsInv'
  BY <1>1, <1>3, <1>4, <1>5, CallStep
<1> QED BY <1>3, <1>6

LEMMA WriteStep ==
    ASSUME RecordsInv, Write
    PROVE  RecordsInv' /\ peer'.sec0 = peer.sec0
<1>1. /\ Idle /\ peer.st = "connected" /\ peer' = peer /\ todo' = <<SendApp>>
      /\ queue' = queue /\ wire' = wire /\ Extra
  BY DEF Write, Begin, SendApp
<1>2. peer \in PeerType /\ used \in UsedType
  BY <1>1, Alive
<1>3. Waiting(peer, used)
  BY <1>1, IdlePeer
<1>4. todo' \in Seq(StepType)
  BY <1>1, NamedSteps
<1>5. used'.keys = used.keys
  BY <1>1, <1>2 DEF Extra, UsedType
<1>6. Phase(peer', todo', queue', used')
  BY <1>1, <1>3, <1>5 DEF Phase, Waiting, Keyed
<1>7. RecordsInv'
  BY <1>1, <1>2, <1>4, <1>6, CallStep
<1> QED BY <1>1, <1>7

LEMMA DestroyStep ==
    ASSUME RecordsInv, Destroy
    PROVE  RecordsInv' /\ peer'.sec0 = peer.sec0
<1>1. /\ Idle /\ peer.st # "none" /\ peer' = peer /\ todo' = <<SendAlert, DoFree>>
      /\ queue' = <<>> /\ wire' = wire /\ used' = used
  BY DEF Destroy, Begin, SendAlert, DoFree
<1>2. peer \in PeerType
  BY <1>1, Alive
<1>3. todo' \in Seq(StepType)
  BY <1>1, NamedSteps
<1>4. Phase(peer', todo', queue', used')
  BY <1>1 DEF Phase
<1>5. RecordsInv'
  BY <1>1, <1>2, <1>3, <1>4, CallStep
<1> QED BY <1>1, <1>5


-----------------------------------------------------------------------------
(* The specification *)

LEMMA RecordsInit ==
    ASSUME Init
    PROVE  RecordsInv
<1>1. /\ peer = NoPeer /\ todo = <<>> /\ queue = <<>> /\ wire = EmptyBag
      /\ used = [con |-> 0, keys |-> 0, extra |-> 0, again |-> 0]
  BY DEF Init
<1>2. DOMAIN wire = {} /\ wire = [r \in {} |-> 1]
  BY <1>1 DEF EmptyBag, SetToBag
<1>3. Sent = {}
  BY <1>2 DEF Sent, BagToSet
<1>4. Types
  <2>1. used \in UsedType
    BY <1>1 DEF UsedType
  <2>2. wire \in [Sent -> Nat]
    BY <1>2, <1>3
  <2> QED BY <1>1, <1>3, <2>1, <2>2, NoPeerYet, EmptyScript DEF Types
<1>5. Phase(peer, todo, queue, used)
  BY <1>1, NoPeerYet, EmptyScript
<1>6. QueueInv(peer, queue) /\ PeerInv(peer, todo, queue, used, Sent)
  BY <1>1, NoPeerYet DEF QueueInv, PeerInv
<1>7. SentInv(peer, used, Sent) /\ PairInv(Sent) /\ OnceInv(wire)
  BY <1>2, <1>3 DEF SentInv, PairInv, OnceInv
<1> QED BY <1>4, <1>5, <1>6, <1>7 DEF RecordsInv

LEMMA RecordsNext ==
    ASSUME RecordsInv, [Next]_vars
    PROVE  RecordsInv'
<1>1. CASE Continue
  BY <1>1, SendRecordStep, SendFragmentStep, KeyStep, SwitchStep, ConnectedStep, FreeStep
     DEF Continue
<1>2. CASE Handshaking
  BY <1>2, HelloVerifiedStep, ServerHelloDoneStep, ChangeCipherSpecStep, FinishedStep,
     OwnVerifyStep, ServerRenegotiatesStep, StatelessStep DEF Handshaking
<1>3. CASE RecordOpens
  BY <1>3, RecordOpensStep
<1>4. CASE Retransmit
  BY <1>4, RetransmitStep
<1>5. CASE \E role \in {"C", "S"} : Connect(role)
  BY <1>5, ConnectStep
<1>6. CASE Renegotiate
  BY <1>6, RenegotiateStep
<1>7. CASE Write
  BY <1>7, WriteStep
<1>8. CASE Destroy
  BY <1>8, DestroyStep
<1>9. CASE UNCHANGED vars
  <2>1. peer' = peer /\ todo' = todo /\ queue' = queue /\ wire' = wire /\ used' = used
    BY <1>9 DEF vars
  <2>2. Sent' = Sent
    BY <2>1 DEF Sent
  <2> QED BY <2>1, <2>2 DEF RecordsInv, Types
<1> QED BY <1>1, <1>2, <1>3, <1>4, <1>5, <1>6, <1>7, <1>8, <1>9 DEF Next

\* No step of a peer that lives goes back to an earlier epoch.
LEMMA EpochStep ==
    ASSUME RecordsInv, [Next]_vars, peer'.st # "none", peer.st # "none"
    PROVE  peer'.sec0.ep >= peer.sec0.ep
<1>1. peer \in PeerType /\ peer.sec0 \in SecType /\ peer.sec0.ep \in Int
  BY Alive, PeerFields
<1>2. Counted(peer.sec0).ep = peer.sec0.ep
  BY <1>1 DEF Counted, SecType
<1>3. ASSUME peer'.sec0 = peer.sec0 \/ peer'.sec0 = Counted(peer.sec0)
      PROVE  peer'.sec0.ep >= peer.sec0.ep
  BY <1>1, <1>2, <1>3
<1>4. CASE Continue
  <2>1. CASE SendRecord
    BY <1>1, <1>3, <2>1 DEF SendRecord, PeerType
  <2>2. CASE SendFragment
    BY <1>1, <1>3, <2>2 DEF SendFragment, PeerType
  <2>3. CASE CalculateKeyBlock
    BY <1>1, <1>3, <2>3 DEF CalculateKeyBlock, PeerType
  <2>4. CASE Switch
    BY <2>4, SwitchStep
  <2>5. CASE Connected
    BY <1>1, <1>3, <2>5 DEF Connected, PeerType
  <2>6. CASE Free
    BY <2>6, NoPeerYet DEF Free
  <2> QED BY <1>4, <2>1, <2>2, <2>3, <2>4, <2>5, <2>6 DEF Continue
<1>5. CASE Handshaking
  <2>1. CASE StatelessVerify
    BY <1>3, <2>1 DEF StatelessVerify
  <2> QED BY <1>3, <1>5, <2>1, HelloVerifiedStep, ServerHelloDoneStep,
             ChangeCipherSpecStep, FinishedStep, OwnVerifyStep, ServerRenegotiatesStep
          DEF Handshaking
<1>6. CASE RecordOpens \/ Retransmit
  BY <1>3, <1>6, RecordOpensStep, RetransmitStep
<1>7. CASE \E role \in {"C", "S"} : Connect(role)
  BY <1>7 DEF Connect
<1>8. CASE Renegotiate \/ Write \/ Destroy
  BY <1>3, <1>8, RenegotiateStep, WriteStep, DestroyStep
<1>9. CASE UNCHANGED vars
  BY <1>3, <1>9 DEF vars
<1> QED BY <1>4, <1>5, <1>6, <1>7, <1>8, <1>9 DEF Next

LEMMA NoncesOfRecords ==
    ASSUME RecordsInv
    PROVE  NonceOnce
<1>1. /\ Sent \in SUBSET RecordType /\ DOMAIN wire = Sent
      /\ SentInv(peer, used, Sent) /\ PairInv(Sent) /\ OnceInv(wire)
  BY DEF RecordsInv, Types
<1>2. NumbersDiffer
  <2> SUFFICES ASSUME NEW r \in Sent, NEW s \in Sent, r.con = s.con, r.role = s.role,
                      r.ep = s.ep, r.rseq = s.rseq,
                      ~(r.bare /\ r.kind # "HVR"), ~(s.bare /\ s.kind # "HVR")
               PROVE  r = s
    BY DEF NumbersDiffer
  <2>1. CASE ~r.bare /\ ~s.bare
    BY <1>1, <2>1 DEF PairInv
  <2>2. CASE r.bare /\ s.bare
    BY <1>1, <2>2 DEF PairInv
  <2>3. CASE r.bare /\ ~s.bare
    <3>1. r.role = "S" /\ r.ep = 0 /\ r.rseq = 0
      BY <1>1, <2>3 DEF SentInv
    <3>2. s.role = "S" /\ s.ep = 0 => s.rseq >= 1
      BY <1>1, <2>3 DEF SentInv
    <3> QED BY <3>1, <3>2
  <2>4. CASE ~r.bare /\ s.bare
    <3>1. s.role = "S" /\ s.ep = 0 /\ s.rseq = 0
      BY <1>1, <2>4 DEF SentInv
    <3>2. r.role = "S" /\ r.ep = 0 => r.rseq >= 1
      BY <1>1, <2>4 DEF SentInv
    <3> QED BY <3>1, <3>2
  <2> QED BY <2>1, <2>2, <2>3, <2>4
<1>3. ASSUME NEW r \in Sent, r.key # NoKey
      PROVE  /\ wire[r] = 1
             /\ \A s \in Sent : s.key = r.key /\ s.rseq = r.rseq => s = r
  <2>1. wire[r] = 1
    BY <1>1, <1>3 DEF OnceInv
  <2>2. ASSUME NEW s \in Sent, s.key = r.key, s.rseq = r.rseq
        PROVE  s = r
    <3>1. ~r.bare /\ ~s.bare
      BY <1>1, <1>3, <2>2 DEF SentInv
    <3>2. r.con = s.con /\ r.role = s.role /\ r.ep = s.ep
      BY <1>1, <1>3, <2>2 DEF PairInv
    <3> QED BY <1>1, <2>2, <3>1, <3>2 DEF PairInv
  <2> QED BY <2>1, <2>2
<1> QED BY <1>2, <1>3 DEF NonceOnce

\* The state of the sending peer in all its steps (dtls_send_multi() to
\* dtls_retransmit()): which step of a call is possible with which parameters,
\* that the counter of an epoch is ahead of all its records, that the key of an
\* epoch seals records of that epoch of one connection only, and that a kept
\* Finished is of the current epoch.
THEOREM RecordsInvariant == Spec => []RecordsInv
<1>1. Init => RecordsInv
  BY RecordsInit
<1>2. RecordsInv /\ [Next]_vars => RecordsInv'
  BY RecordsNext
<1> QED BY <1>1, <1>2, PTL DEF Spec

\* dtls_prepare_record() never seals two records with one nonce under one key,
\* retransmissions, renegotiations and reconnections included, and numbers
\* differ within an epoch of a connection.
THEOREM NoncesUsedOnce == Spec => []NonceOnce
<1>1. RecordsInv => NonceOnce
  BY NoncesOfRecords
<1> QED BY <1>1, RecordsInvariant, PTL

\* dtls_send_multi() and dtls_retransmit() seal application data and every copy
\* of a Finished under the key of the session they belong to.
THEOREM SealedInSession == Spec => []FinishedSealed
<1>1. RecordsInv => FinishedSealed
  BY DEF RecordsInv, SentInv, FinishedSealed
<1> QED BY <1>1, RecordsInvariant, PTL

\* dtls_security_params_switch() only goes to a later epoch: no order of calls
\* brings a peer that lives back to the parameters it has left.
THEOREM EpochsAdvance == Spec => EpochAdvances
<1>1. RecordsInv /\ [Next]_vars =>
         [peer'.st # "none" /\ peer.st # "none" => peer'.sec0.ep >= peer.sec0.ep]_vars
  BY EpochStep
<1> QED BY <1>1, RecordsInvariant, PTL DEF Spec, EpochAdvances

-----------------------------------------------------------------------------
(* The two transcripts *)

\* States without a transcript, and states of a handshake that has one.
Before == {"none", "hello", "connected", "request"}
During == {"verified", "flight", "ccs"}

IsHello(c) == c.op = "msg" /\ c.kind \in {"CH", "SH"}

\* Only the first step of a call can be a message that is partly sent, or a
\* hello; a call that resets the peer ends there.
Script(t) ==
    /\ \A i \in 1..Len(t) : t[i].op = "msg" /\ i # 1 => t[i].rem = t[i].len /\ ~IsHello(t[i])
    /\ \A i \in 1..Len(t) : t[i].op \in {"connected", "free"} => i = Len(t)

Hashing(t, b) == \A i \in 1..Len(t) : t[i].op = "msg" => t[i].hash = b

\* A message without a last fragment has been hashed.
Endless(h) == \E i \in 1..Len(h) : h[i].len % DTLS_MAX_HS_PAYLOAD = 0 /\ h[i].len # 0

\* Both sides have hashed the same, and no message is partly sent.
InStep(p, t, x) ==
    /\ x.ok /\ x.got = p.hashed /\ x.r = p.s
    /\ t # <<>> /\ Head(t).op = "msg" => Head(t).rem = Head(t).len /\ ~IsHello(Head(t))

\* The hello that starts both transcripts is next.
Opening(p, c, x) ==
    IsHello(c) /\ c.len = Short /\ c.rem = Short /\ p.hashed = <<>> /\ x = NoRx

\* The sender has hashed c, and the receiver has the fragments sent so far.
PartlySent(p, c, x) ==
    /\ c.op = "msg" /\ ~IsHello(c) /\ c.rem > 0 /\ c.rem < c.len
    /\ c.rem % DTLS_MAX_HS_PAYLOAD # 0
    /\ x.ok /\ x.r = p.s /\ x.seq = p.s /\ x.off = c.len - c.rem
    /\ p.hashed = Append(x.got, Header(c.kind, p.s, c.len))

RxFields == {"r", "off", "seq", "ok", "got"}

TranscriptInv(p, t, x) ==
    /\ Script(t) /\ DOMAIN x = RxFields
    /\ p.st = "hello" => p.hs
    /\ p.st \in Before => p.hashed = <<>> /\ x = NoRx /\ Hashing(t, FALSE)
    /\ p.st \in During =>
        /\ p.hs /\ Hashing(t, TRUE)
        /\ \/ Endless(p.hashed)
           \/ InStep(p, t, x)
           \/ t # <<>> /\ (Opening(p, Head(t), x) \/ PartlySent(p, Head(t), x))

\* Remainders: a fragment less leaves the same bytes for the last one.
LEMMA DivMod ==
    ASSUME NEW P \in Nat \ {0}, NEW a \in Nat
    PROVE  /\ a = (P * (a \div P)) + (a % P)
           /\ a % P \in 0..(P - 1) /\ a \div P \in Nat
OBVIOUS

LEMMA SmallMultiple ==
    ASSUME NEW P \in Nat \ {0}, NEW k \in Int, P * k < P, -P < P * k
    PROVE  k = 0
<1>1. k >= 1 => P * k >= P
  OBVIOUS
<1>2. k <= -1 => P * k <= -P
  OBVIOUS
<1> QED BY <1>1, <1>2

LEMMA ModMinus ==
    ASSUME NEW P \in Nat \ {0}, NEW a \in Nat, a >= P
    PROVE  (a - P) % P = a % P
<1> DEFINE x == a \div P
           y == (a - P) \div P
           r == a % P
           s == (a - P) % P
<1>1. a - P \in Nat
  OBVIOUS
<1>2. /\ a = P * x + r /\ a - P = P * y + s
      /\ r \in 0..(P - 1) /\ s \in 0..(P - 1) /\ x \in Int /\ y \in Int
  BY <1>1, DivMod
<1> HIDE DEF x, y, r, s
<1> DEFINE k == x - y - 1
<1>3. k \in Int /\ P * k = P * x - P * y - P
  BY <1>2
<1> HIDE DEF k
<1>4. P * k = s - r
  BY <1>2, <1>3
<1>5. P * k < P /\ -P < P * k
  BY <1>2, <1>4
<1>6. k = 0
  BY <1>3, <1>5, SmallMultiple
<1>7. P * k = 0
  BY <1>6
<1>8. s = r
  BY <1>2, <1>4, <1>7
<1> QED BY <1>8 DEF r, s

LEMMA ModSelf == ASSUME NEW P \in Nat \ {0} PROVE P % P = 0
OBVIOUS

-----------------------------------------------------------------------------
(* Fragments that arrive *)

\* The length of the next fragment of rem bytes.
Cut(rem) == IF rem < DTLS_MAX_HS_PAYLOAD THEN rem ELSE DTLS_MAX_HS_PAYLOAD

AtFirst(x, seq, len) ==
    /\ DOMAIN x = RxFields /\ seq \in Nat /\ x.r = seq /\ x.ok
    /\ len \in Nat /\ (len % DTLS_MAX_HS_PAYLOAD # 0 \/ len = 0)

\* A whole message, or the first fragment of one.
LEMMA FirstArrives ==
    ASSUME NEW x, NEW seq, NEW len, NEW kind, AtFirst(x, seq, len),
           NEW y, y = Arrive(x, kind, seq, len, 0, Cut(len))
    PROVE  /\ DOMAIN y = RxFields /\ y.ok
           /\ len < DTLS_MAX_HS_PAYLOAD =>
                y.r = seq + 1 /\ y.got = Append(x.got, Header(kind, seq, len))
           /\ len >= DTLS_MAX_HS_PAYLOAD =>
                /\ len > DTLS_MAX_HS_PAYLOAD
                /\ y.r = seq /\ y.seq = seq /\ y.off = DTLS_MAX_HS_PAYLOAD /\ y.got = x.got
<1> DEFINE P == DTLS_MAX_HS_PAYLOAD
<1>1. P \in Nat \ {0}
  BY PayloadAssumption
<1>0. /\ DOMAIN x = RxFields /\ seq \in Nat /\ x.r = seq /\ x.ok
      /\ len \in Nat /\ (len % P # 0 \/ len = 0)
      /\ y = Arrive(x, kind, seq, len, 0, IF len < P THEN len ELSE P)
  BY DEF AtFirst, Cut
<1> HIDE DEF P
<1>2. CASE len < P
  <2>1. y = Accept(x, kind, seq, len)
    BY <1>0, <1>2 DEF Arrive
  <2> DEFINE got == Append(x.got, Header(kind, seq, len))
  <2>2. y = [x EXCEPT !.off = 0, !.r = seq + 1, !.got = got]
    BY <1>0, <2>1 DEF Accept
  <2> HIDE DEF got
  <2>3. DOMAIN y = RxFields /\ y.ok /\ y.r = seq + 1 /\ y.got = got
    BY <1>0, <2>2 DEF RxFields
  <2> QED BY <1>0, <1>1, <1>2, <2>3 DEF got, P
<1>3. CASE ~(len < P)
  <2>1. len # P
    BY <1>0, <1>1, <1>3, ModSelf
  <2>2. len > P
    BY <1>0, <1>1, <1>3, <2>1
  <2>3. y = IF 0 + P < len THEN [x EXCEPT !.off = 0 + P, !.seq = seq]
            ELSE Accept(x, kind, seq, len)
    BY <1>0, <1>3, <2>1 DEF Arrive
  <2>4. 0 + P = P /\ P < len
    BY <1>1, <2>2
  <2>5. y = [x EXCEPT !.off = P, !.seq = seq]
    BY <2>3, <2>4
  <2>6. /\ DOMAIN y = RxFields /\ y.ok /\ y.r = seq /\ y.seq = seq
        /\ y.off = P /\ y.got = x.got
    BY <1>0, <2>5 DEF RxFields
  <2> QED BY <1>0, <1>3, <2>2, <2>6 DEF P
<1> QED BY <1>2, <1>3

\* A later fragment.
LEMMA NextArrives ==
    ASSUME NEW x, DOMAIN x = RxFields, NEW seq \in Nat, x.r = seq, x.seq = seq, x.ok,
           NEW kind, NEW len \in Nat, NEW rem \in Nat, rem > 0, rem < len,
           x.off = len - rem, rem % DTLS_MAX_HS_PAYLOAD # 0,
           NEW y, y = Arrive(x, kind, seq, len, len - rem, Cut(rem))
    PROVE  /\ DOMAIN y = RxFields /\ y.ok
           /\ rem < DTLS_MAX_HS_PAYLOAD =>
                y.r = seq + 1 /\ y.got = Append(x.got, Header(kind, seq, len))
           /\ rem >= DTLS_MAX_HS_PAYLOAD =>
                LET left == rem - DTLS_MAX_HS_PAYLOAD
                IN  /\ left > 0 /\ left % DTLS_MAX_HS_PAYLOAD # 0
                    /\ y.r = seq /\ y.seq = seq /\ y.off = len - left /\ y.got = x.got
<1> DEFINE P == DTLS_MAX_HS_PAYLOAD
           left == rem - P
<1>1. P \in Nat \ {0}
  BY PayloadAssumption
<1>2. len - rem # 0 /\ x.off = len - rem
  OBVIOUS
<1>3. CASE rem < P
  <2>1. rem # len /\ ~((len - rem) + rem < len)
    OBVIOUS
  <2>2. y = Accept(x, kind, seq, len)
    BY <1>2, <1>3, <2>1 DEF Arrive, Cut
  <2> DEFINE got == Append(x.got, Header(kind, seq, len))
  <2>3. y = [x EXCEPT !.off = 0, !.r = seq + 1, !.got = got]
    BY <2>2 DEF Accept
  <2> HIDE DEF got
  <2>4. DOMAIN y = RxFields /\ y.ok /\ y.r = seq + 1 /\ y.got = got
    BY <2>3 DEF RxFields
  <2> QED BY <1>1, <1>3, <2>4 DEF got
<1>4. CASE ~(rem < P)
  <2>1. rem # P
    BY <1>1, ModSelf
  <2>2. left > 0 /\ P # len /\ (len - rem) + P < len /\ (len - rem) + P = len - left
    BY <1>1, <1>4, <2>1
  <2>3. left % P # 0
    <3>1. rem >= P /\ rem % P # 0
      BY <1>1, <1>4
    <3> HIDE DEF P
    <3> QED BY <1>1, <3>1, ModMinus
  <2>4. y = [x EXCEPT !.off = (len - rem) + P, !.seq = x.seq]
    BY <1>2, <1>4, <2>2 DEF Arrive, Cut
  <2> HIDE DEF left
  <2>5. DOMAIN y = RxFields /\ y.ok /\ y.r = seq /\ y.seq = seq /\ y.off = len - left /\ y.got = x.got
    BY <2>2, <2>4 DEF RxFields
  <2> QED BY <1>1, <1>4, <2>2, <2>3, <2>5 DEF left
<1> QED BY <1>3, <1>4

-----------------------------------------------------------------------------
(* The steps of a call, and the peers, that keep the transcripts *)

\* What the transcripts depend on.
SameTranscript(p, q) == q.st = p.st /\ q.hs = p.hs /\ q.s = p.s /\ q.hashed = p.hashed

LEMMA SamePeer ==
    ASSUME NEW p, NEW q, NEW t, NEW x, TranscriptInv(p, t, x), SameTranscript(p, q)
    PROVE  TranscriptInv(q, t, x)
<1>1. q.st = p.st /\ q.hs = p.hs /\ q.s = p.s /\ q.hashed = p.hashed
  BY DEF SameTranscript
<1>2. /\ Script(t) /\ DOMAIN x = RxFields
      /\ q.st = "hello" => q.hs
      /\ q.st \in Before => q.hashed = <<>> /\ x = NoRx /\ Hashing(t, FALSE)
  BY <1>1 DEF TranscriptInv
<1>3. ASSUME q.st \in During
      PROVE  /\ q.hs /\ Hashing(t, TRUE)
             /\ \/ Endless(q.hashed)
                \/ InStep(q, t, x)
                \/ t # <<>> /\ (Opening(q, Head(t), x) \/ PartlySent(q, Head(t), x))
  <2>1. /\ p.hs /\ Hashing(t, TRUE)
        /\ \/ Endless(p.hashed)
           \/ InStep(p, t, x)
           \/ t # <<>> /\ (Opening(p, Head(t), x) \/ PartlySent(p, Head(t), x))
    BY <1>1, <1>3 DEF TranscriptInv
  <2>2. CASE Endless(p.hashed)
    BY <1>1, <2>1, <2>2
  <2>3. CASE InStep(p, t, x)
    BY <1>1, <2>1, <2>3 DEF InStep
  <2>4. CASE t # <<>> /\ Opening(p, Head(t), x)
    BY <1>1, <2>1, <2>4 DEF Opening
  <2>5. CASE t # <<>> /\ PartlySent(p, Head(t), x)
    BY <1>1, <2>1, <2>5 DEF PartlySent
  <2> QED BY <2>1, <2>2, <2>3, <2>4, <2>5
<1> QED BY <1>2, <1>3 DEF TranscriptInv

\* What is left of a script.
LEMMA ScriptTail ==
    ASSUME NEW t \in Seq(StepType), t # <<>>, Script(t)
    PROVE  /\ Script(Tail(t)) /\ \A b : Hashing(t, b) => Hashing(Tail(t), b)
           /\ Tail(t) # <<>> /\ Head(Tail(t)).op = "msg" =>
                 Head(Tail(t)).rem = Head(Tail(t)).len /\ ~IsHello(Head(Tail(t)))
           /\ Head(t).op \in {"connected", "free"} => Tail(t) = <<>>
<1>1. /\ Head(t) = t[1] /\ Tail(t) \in Seq(StepType)
      /\ Len(t) \in Nat /\ 1 \in 1..Len(t) /\ Len(Tail(t)) = Len(t) - 1
      /\ \A i \in 1..Len(Tail(t)) : i + 1 \in 1..Len(t) /\ Tail(t)[i] = t[i + 1]
  BY HeadAndTail
<1> DEFINE u == Tail(t)
           n == Len(u)
<1>a. n + 1 = Len(t) /\ n \in Int
  BY <1>1
<1>b. \A i \in Int : i + 1 = Len(t) => i = n
  <2> HIDE DEF n
  <2> QED BY <1>1, <1>a
<1>2. \A i \in 1..Len(t) : t[i].op = "msg" /\ i # 1 => t[i].rem = t[i].len /\ ~IsHello(t[i])
  BY DEF Script
<1>3. \A i \in 1..Len(t) : t[i].op \in {"connected", "free"} => i = Len(t)
  BY DEF Script
<1>4. \A i \in 1..Len(Tail(t)) :
         Tail(t)[i].op = "msg" => Tail(t)[i].rem = Tail(t)[i].len /\ ~IsHello(Tail(t)[i])
  <2> TAKE i \in 1..Len(Tail(t))
  <2>1. i + 1 \in 1..Len(t) /\ Tail(t)[i] = t[i + 1] /\ i + 1 # 1
    BY <1>1
  <2> QED BY <1>2, <2>1
<1>5. \A i \in 1..Len(Tail(t)) : Tail(t)[i].op \in {"connected", "free"} => i = Len(Tail(t))
  <2> TAKE i \in 1..Len(Tail(t))
  <2>1. i + 1 \in 1..Len(t) /\ Tail(t)[i] = t[i + 1]
    BY <1>1
  <2>2. t[i + 1].op \in {"connected", "free"} => i + 1 = Len(t)
    BY <1>3, <2>1
  <2>3. i \in Int /\ (i + 1 = Len(t) => i = n)
    BY <1>b
  <2> QED BY <2>1, <2>2, <2>3
<1>6. Script(Tail(t))
  BY <1>4, <1>5 DEF Script
<1>7. ASSUME NEW b, Hashing(t, b)
      PROVE  Hashing(Tail(t), b)
  BY <1>1, <1>7 DEF Hashing
<1>8. ASSUME Tail(t) # <<>>
      PROVE  1 \in 1..Len(Tail(t)) /\ Head(Tail(t)) = Tail(t)[1]
  BY <1>1, <1>8, HeadAndTail
<1>9. Head(t).op \in {"connected", "free"} => Tail(t) = <<>>
  <2>1. t[1].op \in {"connected", "free"} => 1 = Len(t)
    BY <1>1, <1>3
  <2>2. 1 = Len(t) => n = 0
    <3>1. 0 \in Int /\ 0 + 1 = 1
      OBVIOUS
    <3> QED BY <1>b, <3>1
  <2>3. Len(Tail(t)) = 0 => Tail(t) = <<>>
    BY <1>1, EmptySeq
  <2> QED BY <1>1, <2>1, <2>2, <2>3
<1> QED BY <1>4, <1>6, <1>7, <1>8, <1>9

\* A step that sends no message.
LEMMA TailKeeps ==
    ASSUME NEW p, NEW q, NEW t \in Seq(StepType), NEW x, TranscriptInv(p, t, x),
           t # <<>>, Head(t).op # "msg", SameTranscript(p, q)
    PROVE  TranscriptInv(q, Tail(t), x)
<1>1. Script(t) /\ DOMAIN x = RxFields /\ (p.st = "hello" => p.hs)
  BY DEF TranscriptInv
<1>2. /\ Script(Tail(t)) /\ \A b : Hashing(t, b) => Hashing(Tail(t), b)
      /\ Tail(t) # <<>> /\ Head(Tail(t)).op = "msg" =>
            Head(Tail(t)).rem = Head(Tail(t)).len /\ ~IsHello(Head(Tail(t)))
  BY <1>1, ScriptTail
<1>3. p.st \in Before => p.hashed = <<>> /\ x = NoRx /\ Hashing(Tail(t), FALSE)
  BY <1>2 DEF TranscriptInv
<1>4. ASSUME p.st \in During
      PROVE  p.hs /\ Hashing(Tail(t), TRUE) /\ (Endless(p.hashed) \/ InStep(p, Tail(t), x))
  <2>1. /\ p.hs /\ Hashing(t, TRUE)
        /\ \/ Endless(p.hashed) \/ InStep(p, t, x)
           \/ Opening(p, Head(t), x) \/ PartlySent(p, Head(t), x)
    BY <1>4 DEF TranscriptInv
  <2>2. ~Opening(p, Head(t), x) /\ ~PartlySent(p, Head(t), x)
    BY DEF Opening, PartlySent, IsHello
  <2>3. InStep(p, t, x) => InStep(p, Tail(t), x)
    BY <1>2 DEF InStep
  <2> QED BY <1>2, <2>1, <2>2, <2>3
<1>5. TranscriptInv(p, Tail(t), x)
  BY <1>1, <1>2, <1>3, <1>4 DEF TranscriptInv
<1> QED BY <1>5, SamePeer

\* The end of a handshake, or of a peer.
LEMMA TranscriptEnds ==
    ASSUME NEW p, NEW t \in Seq(StepType), NEW x, TranscriptInv(p, t, x),
           t # <<>>, Head(t).op \in {"connected", "free"},
           NEW q, q.st \in Before, q.st # "hello", q.hashed = <<>>
    PROVE  TranscriptInv(q, Tail(t), NoRx)
<1>1. Script(t)
  BY DEF TranscriptInv
<1>2. Tail(t) = <<>> /\ Script(Tail(t))
  BY <1>1, ScriptTail
<1>3. Hashing(<<>>, FALSE)
  BY DEF Hashing
<1>4. DOMAIN NoRx = RxFields /\ q.st \notin During
  BY DEF NoRx, RxFields, Before, During
<1> QED BY <1>2, <1>3, <1>4 DEF TranscriptInv

-----------------------------------------------------------------------------
(* A fragment that is sent *)

LEMMA EndlessStays ==
    ASSUME NEW h \in Seq(HeaderType), NEW e \in HeaderType
    PROVE  /\ Endless(h) => Endless(Append(h, e))
           /\ e.len % DTLS_MAX_HS_PAYLOAD = 0 /\ e.len # 0 => Endless(Append(h, e))
<1>1. /\ Len(Append(h, e)) = Len(h) + 1 /\ Len(h) \in Nat
      /\ \A i \in 1..Len(h) : Append(h, e)[i] = h[i]
      /\ Append(h, e)[Len(h) + 1] = e
  BY AppendProperties, LenProperties
<1>2. 1..Len(h) \subseteq 1..Len(Append(h, e)) /\ Len(h) + 1 \in 1..Len(Append(h, e))
  BY <1>1
<1>3. Endless(h) => Endless(Append(h, e))
  BY <1>1, <1>2 DEF Endless
<1>4. e.len % DTLS_MAX_HS_PAYLOAD = 0 /\ e.len # 0 => Endless(Append(h, e))
  BY <1>1, <1>2 DEF Endless
<1> QED BY <1>3, <1>4

\* The rest of a message in front of the other steps, or without a rest these.
LEMMA ScriptPushed ==
    ASSUME NEW t \in Seq(StepType), t # <<>>, Script(t), NEW c \in StepType, c.op = "msg",
           NEW n, n = <<c>> \o Tail(t), NEW b, Hashing(t, b), c.hash = b
    PROVE  Script(n) /\ Hashing(n, b) /\ n # <<>> /\ Head(n) = c
<1>1. /\ n \in Seq(StepType) /\ Len(n) = Len(t) /\ n[1] = c
      /\ \A i \in 1..Len(t) : i # 1 => n[i] = t[i]
  BY Pushed
<1>2. Len(t) \in Nat /\ 1 \in 1..Len(t)
  BY HeadAndTail
<1>3. n # <<>>
  BY <1>1, <1>2, EmptySeq
<1>4. Head(n) = c
  BY <1>1, <1>3, HeadAndTail
<1>5. \A i \in 1..Len(n) : n[i].op = "msg" /\ i # 1 => n[i].rem = n[i].len /\ ~IsHello(n[i])
  BY <1>1 DEF Script
<1>6. \A i \in 1..Len(n) : n[i].op \in {"connected", "free"} => i = Len(n)
  <2>1. \A i \in 1..Len(t) : t[i].op \in {"connected", "free"} => i = Len(t)
    BY DEF Script
  <2>2. ~(n[1].op \in {"connected", "free"})
    BY <1>1
  <2>3. \A i \in 1..Len(n) : i \in 1..Len(t) /\ (i = 1 \/ n[i] = t[i])
    BY <1>1
  <2> QED BY <1>1, <2>1, <2>2, <2>3, ZenonT(40)
<1>7. \A i \in 1..Len(n) : n[i].op = "msg" => n[i].hash = b
  BY <1>1 DEF Hashing
<1> QED BY <1>3, <1>4, <1>5, <1>6, <1>7 DEF Script, Hashing

LEMMA TranscriptFragment ==
    ASSUME RecordsInv, TranscriptInv(peer, todo, rx), SendFragment
    PROVE  TranscriptInv(peer', todo', rx')
<1> DEFINE P == DTLS_MAX_HS_PAYLOAD
           c == Head(todo)
           flen == IF c.rem < P THEN c.rem ELSE P
           left == IF LastFragment(c.rem) THEN 0 ELSE c.rem - P
           rest == [c EXCEPT !.rem = left]
           seq == IF peer.hs THEN peer.s ELSE 0
           s == IF peer.hs /\ LastFragment(c.rem) THEN peer.s + 1 ELSE peer.s
           head == Header(c.kind, seq, c.len)
           hashed == IF c.hash /\ c.rem = c.len THEN Append(peer.hashed, head) ELSE peer.hashed
           from == Listening(c.kind, seq)
<1>1. /\ todo # <<>> /\ c.op = "msg"
      /\ peer' = [peer EXCEPT !.sec0 = Counted(@), !.s = s, !.hashed = hashed]
      /\ rx' = IF c.hash THEN Arrive(from, c.kind, seq, c.len, c.len - c.rem, flen) ELSE rx
      /\ todo' = IF left > 0 THEN <<rest>> \o Tail(todo) ELSE Tail(todo)
  BY DEF SendFragment, Idle
<1>2. todo \in Seq(StepType) /\ peer \in PeerType
  BY <1>1, Alive
<1>3. c \in StepType /\ c = todo[1] /\ 1 \in 1..Len(todo)
  BY <1>1, <1>2, HeadAndTail
<1>4. P \in Nat \ {0}
  BY PayloadAssumption
<1>5. c.kind \in Kind /\ c.len \in Nat /\ c.rem \in Nat /\ c.hash \in BOOLEAN
  BY <1>3 DEF StepType
<1>6. /\ peer.hs \in BOOLEAN /\ peer.s \in Nat /\ peer.hashed \in Seq(HeaderType)
      /\ peer.st \in State
  BY <1>2, PeerFields
<1>7. /\ peer'.st = peer.st /\ peer'.hs = peer.hs /\ peer'.s = s /\ peer'.hashed = hashed
  BY <1>1, <1>2 DEF PeerType
<1>8. /\ left > 0 <=> c.rem > P
      /\ left > 0 => left = c.rem - P
  BY <1>4, <1>5 DEF LastFragment
<1>9. /\ rest.op = "msg" /\ rest.kind = c.kind /\ rest.len = c.len /\ rest.rem = left
      /\ rest.hash = c.hash /\ (left > 0 => rest \in StepType)
  <2>1. left > 0 => left \in Nat
    BY <1>4, <1>5, <1>8
  <2> HIDE DEF left
  <2> QED BY <1>1, <1>3, <2>1 DEF StepType
<1>10. head \in HeaderType /\ head.len = c.len
  BY <1>5, <1>6 DEF HeaderType, Header
<1>11. /\ Script(todo) /\ DOMAIN rx = RxFields /\ (peer.st = "hello" => peer.hs)
       /\ peer.st \in Before => peer.hashed = <<>> /\ rx = NoRx /\ Hashing(todo, FALSE)
  BY DEF TranscriptInv
<1>12. peer.st \in During =>
         /\ peer.hs /\ Hashing(todo, TRUE)
         /\ \/ Endless(peer.hashed) \/ InStep(peer, todo, rx)
            \/ Opening(peer, c, rx) \/ PartlySent(peer, c, rx)
  BY DEF TranscriptInv
<1>13. ~(peer.st \in Before /\ peer.st \in During)
  BY DEF Before, During
<1> HIDE DEF c, left, rest, hashed, s, seq, head, from, P
<1>14. ASSUME NEW b, Hashing(todo, b)
       PROVE  Script(todo') /\ Hashing(todo', b) /\ c.hash = b
  <2>1. c.hash = b
    BY <1>1, <1>3, <1>14 DEF Hashing
  <2>2. CASE left > 0
    BY <1>1, <1>2, <1>9, <1>11, <1>14, <2>1, <2>2, ScriptPushed
  <2>3. CASE ~(left > 0)
    BY <1>1, <1>2, <1>11, <1>14, <2>1, <2>3, ScriptTail
  <2> QED BY <2>1, <2>2, <2>3
<1>15. CASE peer.st \in Before
  <2>1. Script(todo') /\ Hashing(todo', FALSE) /\ ~c.hash
    BY <1>11, <1>14, <1>15
  <2>2. hashed = <<>> /\ rx' = NoRx
    BY <1>1, <1>11, <1>15, <2>1 DEF hashed
  <2>3. DOMAIN rx' = RxFields
    BY <2>2 DEF NoRx, RxFields
  <2> QED BY <1>7, <1>11, <1>13, <1>15, <2>1, <2>2, <2>3 DEF TranscriptInv
<1>16. CASE peer.st \in During
  <2>1. /\ peer.hs /\ Script(todo') /\ Hashing(todo', TRUE) /\ c.hash
        /\ seq = peer.s
    BY <1>12, <1>14, <1>16 DEF seq
  <2>2. rx' = Arrive(from, c.kind, seq, c.len, c.len - c.rem, flen)
    BY <1>1, <2>1
  <2>3. /\ s = (IF c.rem < P THEN seq + 1 ELSE seq)
        /\ hashed = (IF c.rem = c.len THEN Append(peer.hashed, head) ELSE peer.hashed)
    BY <1>6, <2>1 DEF s, hashed, LastFragment, P
  <2>4. ~(left > 0) => \/ todo' = <<>>
                       \/ Head(todo').op # "msg"
                       \/ Head(todo').rem = Head(todo').len /\ ~IsHello(Head(todo'))
    BY <1>1, <1>2, <1>11, ScriptTail
  <2>5. left > 0 => todo' # <<>> /\ Head(todo') = rest
    BY <1>1, <1>2, <1>9, <1>11, <1>12, <1>14, <1>16, ScriptPushed
  <2>6. DOMAIN rx' = RxFields
    <3>1. DOMAIN from = RxFields
      BY <1>11 DEF from, Listening, NoRx, RxFields
    <3>2. \A kind, sq, len : DOMAIN Accept(from, kind, sq, len) = RxFields
      BY <3>1 DEF Accept, RxFields
    <3> QED BY <2>2, <3>1, <3>2 DEF Arrive
  <2>7. ASSUME rx'.ok, rx'.r = seq + 1, rx'.got = hashed, c.rem < P
        PROVE  InStep(peer', todo', rx')
    <3>1. ~(left > 0)
      BY <1>4, <1>5, <1>8, <2>7
    <3>2. rx'.r = peer'.s /\ rx'.got = peer'.hashed
      BY <1>7, <2>3, <2>7
    <3> QED BY <2>4, <2>7, <3>1, <3>2 DEF InStep
  <2>8. CASE Endless(peer.hashed)
    <3>1. Endless(hashed)
      BY <1>6, <1>10, <2>3, <2>8, EndlessStays
    <3> QED BY <1>7, <1>11, <1>13, <1>16, <2>1, <2>6, <3>1 DEF TranscriptInv
  <2>9. CASE c.rem = c.len /\ c.len % P = 0 /\ c.len # 0
    <3>1. Endless(hashed)
      BY <1>6, <1>10, <2>3, <2>9, EndlessStays DEF P
    <3> QED BY <1>7, <1>11, <1>13, <1>16, <2>1, <2>6, <3>1 DEF TranscriptInv
  <2>10. CASE Opening(peer, c, rx) /\ ~(c.len % P = 0 /\ c.len # 0)
    <3>1. /\ c.kind \in {"CH", "SH"} /\ c.len = 1 /\ c.rem = 1 /\ peer.hashed = <<>>
          /\ rx = NoRx
      BY <2>10 DEF Opening, IsHello, Short
    <3>2. 1 < P
      BY <1>4, <2>10, <3>1
    <3>3. from = [NoRx EXCEPT !.r = seq]
      BY <3>1 DEF from, Listening
    <3>4. DOMAIN from = RxFields /\ from.r = seq /\ from.ok /\ from.got = <<>>
      BY <3>3 DEF NoRx, RxFields
    <3>5. rx' = Arrive(from, c.kind, seq, c.len, 0, IF c.len < P THEN c.len ELSE P)
      BY <2>2, <3>1
    <3>6. rx'.ok /\ rx'.r = seq + 1 /\ rx'.got = Append(from.got, Header(c.kind, seq, c.len))
      <4>1. AtFirst(from, seq, c.len) /\ c.len < DTLS_MAX_HS_PAYLOAD
        BY <1>5, <1>6, <2>1, <2>10, <3>1, <3>2, <3>4 DEF AtFirst, P
      <4>2. rx' = Arrive(from, c.kind, seq, c.len, 0, Cut(c.len))
        BY <3>5 DEF P, Cut
      <4> QED BY ONLY <4>1, <4>2, FirstArrives
    <3>7. rx'.got = hashed
      BY <2>3, <3>1, <3>4, <3>6 DEF head
    <3>8. InStep(peer', todo', rx')
      BY <2>7, <3>1, <3>2, <3>6, <3>7
    <3> QED BY <1>7, <1>11, <1>13, <1>16, <2>1, <2>6, <3>8 DEF TranscriptInv
  <2>11. CASE InStep(peer, todo, rx) /\ ~(c.len % P = 0 /\ c.len # 0)
    <3>1. /\ rx.ok /\ rx.got = peer.hashed /\ rx.r = seq /\ c.rem = c.len /\ ~IsHello(c)
      BY <1>1, <2>1, <2>11 DEF InStep, c
    <3>2. from = rx
      BY <1>1, <3>1 DEF from, Listening, IsHello
    <3>3. rx' = Arrive(rx, c.kind, seq, c.len, 0, IF c.len < P THEN c.len ELSE P)
      BY <1>5, <2>2, <3>1, <3>2
    <3>4. /\ rx'.ok
          /\ c.len < P => rx'.r = seq + 1 /\ rx'.got = Append(rx.got, Header(c.kind, seq, c.len))
          /\ c.len >= P => /\ c.len > P /\ rx'.r = seq /\ rx'.seq = seq /\ rx'.off = P
                           /\ rx'.got = rx.got
      <4>1. AtFirst(rx, seq, c.len)
        BY <1>5, <1>6, <1>11, <2>1, <2>11, <3>1 DEF AtFirst, P
      <4>2. rx' = Arrive(rx, c.kind, seq, c.len, 0, Cut(c.len))
        BY <3>3 DEF P, Cut
      <4>3. /\ rx'.ok
            /\ c.len < DTLS_MAX_HS_PAYLOAD =>
                 rx'.r = seq + 1 /\ rx'.got = Append(rx.got, Header(c.kind, seq, c.len))
            /\ c.len >= DTLS_MAX_HS_PAYLOAD =>
                 /\ c.len > DTLS_MAX_HS_PAYLOAD /\ rx'.r = seq /\ rx'.seq = seq
                 /\ rx'.off = DTLS_MAX_HS_PAYLOAD /\ rx'.got = rx.got
        BY ONLY <4>1, <4>2, FirstArrives
      <4> QED BY <4>3 DEF P
    <3>5. hashed = Append(rx.got, Header(c.kind, seq, c.len))
      BY <2>3, <3>1 DEF head
    <3>6. CASE c.len < P
      <4>1. InStep(peer', todo', rx')
        BY <2>7, <3>1, <3>4, <3>5, <3>6
      <4> QED BY <1>7, <1>11, <1>13, <1>16, <2>1, <2>6, <4>1 DEF TranscriptInv
    <3>7. CASE c.len >= P
      <4>1. /\ c.len > P /\ rx'.r = seq /\ rx'.seq = seq /\ rx'.off = P /\ rx'.got = rx.got
        BY <3>4, <3>7
      <4>2. left > 0 /\ left = c.len - P /\ left < c.len /\ c.len - left = P /\ s = seq
        BY <1>4, <1>5, <1>8, <2>3, <3>1, <3>7, <4>1
      <4>3. left % P # 0
        <5>1. (c.len - P) % P = c.len % P
          BY <1>4, <1>5, <3>7, ModMinus
        <5> QED BY <1>4, <1>5, <2>11, <4>1, <4>2, <5>1
      <4>4. PartlySent(peer', rest, rx')
        <5>1. /\ rest.op = "msg" /\ ~IsHello(rest) /\ rest.rem > 0 /\ rest.rem < rest.len
              /\ rest.rem % DTLS_MAX_HS_PAYLOAD # 0
          <6>1. ~IsHello(rest)
            BY <1>1, <1>9, <3>1 DEF IsHello
          <6>2. rest.rem = left /\ rest.len = c.len /\ rest.op = "msg"
            BY <1>9
          <6>3. left % P # 0
            BY <4>2, <4>3
          <6> QED BY <4>2, <6>1, <6>2, <6>3 DEF P
        <5>2. rx'.ok /\ rx'.r = peer'.s /\ rx'.seq = peer'.s /\ rx'.off = rest.len - rest.rem
          BY <1>7, <1>9, <3>4, <4>1, <4>2
        <5>3. peer'.hashed = Append(rx'.got, Header(rest.kind, peer'.s, rest.len))
          BY <1>7, <1>9, <3>5, <4>1, <4>2
        <5> QED BY <5>1, <5>2, <5>3 DEF PartlySent
      <4> QED BY <1>7, <1>11, <1>13, <1>16, <2>1, <2>5, <2>6, <4>2, <4>4 DEF TranscriptInv
    <3> QED BY <1>4, <1>5, <3>6, <3>7
  <2>12. CASE PartlySent(peer, c, rx)
    <3>1. /\ ~IsHello(c) /\ c.rem > 0 /\ c.rem < c.len /\ c.rem % P # 0
          /\ rx.ok /\ rx.r = seq /\ rx.seq = seq /\ rx.off = c.len - c.rem
          /\ peer.hashed = Append(rx.got, Header(c.kind, seq, c.len))
      BY <2>1, <2>12 DEF PartlySent, P
    <3>2. from = rx
      BY <1>1, <3>1 DEF from, Listening, IsHello
    <3>3. hashed = Append(rx.got, Header(c.kind, seq, c.len))
      BY <1>5, <2>3, <3>1
    <3>4. rx' = Arrive(rx, c.kind, seq, c.len, c.len - c.rem, IF c.rem < P THEN c.rem ELSE P)
      BY <2>2, <3>2
    <3>5. /\ rx'.ok
          /\ c.rem < P => rx'.r = seq + 1 /\ rx'.got = Append(rx.got, Header(c.kind, seq, c.len))
          /\ c.rem >= P => /\ c.rem - P > 0 /\ (c.rem - P) % P # 0
                           /\ rx'.r = seq /\ rx'.seq = seq
                           /\ rx'.off = c.len - (c.rem - P) /\ rx'.got = rx.got
      <4>1. rx' = Arrive(rx, c.kind, seq, c.len, c.len - c.rem, Cut(c.rem))
        BY <3>4 DEF P, Cut
      <4> QED BY <1>5, <1>6, <1>11, <2>1, <3>1, <4>1, NextArrives DEF P
    <3>6. CASE c.rem < P
      <4>1. InStep(peer', todo', rx')
        BY <2>7, <3>3, <3>5, <3>6
      <4> QED BY <1>7, <1>11, <1>13, <1>16, <2>1, <2>6, <4>1 DEF TranscriptInv
    <3>7. CASE c.rem >= P
      <4>1. /\ c.rem - P > 0 /\ (c.rem - P) % P # 0 /\ rx'.r = seq /\ rx'.seq = seq
            /\ rx'.off = c.len - (c.rem - P) /\ rx'.got = rx.got
        BY <3>5, <3>7
      <4>2. left > 0 /\ left = c.rem - P /\ left < c.len /\ s = seq
        BY <1>4, <1>5, <1>8, <2>3, <3>1, <3>7, <4>1
      <4>3. PartlySent(peer', rest, rx')
        <5>1. /\ rest.op = "msg" /\ ~IsHello(rest) /\ rest.rem > 0 /\ rest.rem < rest.len
              /\ rest.rem % DTLS_MAX_HS_PAYLOAD # 0
          <6>1. ~IsHello(rest)
            BY <1>1, <1>9, <3>1 DEF IsHello
          <6>2. rest.rem = left /\ rest.len = c.len /\ rest.op = "msg"
            BY <1>9
          <6>3. left % P # 0
            BY <4>2, <4>1
          <6> QED BY <4>2, <6>1, <6>2, <6>3 DEF P
        <5>2. rx'.ok /\ rx'.r = peer'.s /\ rx'.seq = peer'.s /\ rx'.off = rest.len - rest.rem
          BY <1>7, <1>9, <3>5, <4>1, <4>2
        <5>3. peer'.hashed = Append(rx'.got, Header(rest.kind, peer'.s, rest.len))
          BY <1>7, <1>9, <3>3, <4>1, <4>2
        <5> QED BY <5>1, <5>2, <5>3 DEF PartlySent
      <4> QED BY <1>7, <1>11, <1>13, <1>16, <2>1, <2>5, <2>6, <4>2, <4>3 DEF TranscriptInv
    <3> QED BY <1>4, <1>5, <3>6, <3>7
  <2>13. \/ Endless(peer.hashed) \/ Opening(peer, c, rx) \/ PartlySent(peer, c, rx)
         \/ InStep(peer, todo, rx) /\ c.rem = c.len
    BY <1>1, <1>12, <1>16 DEF InStep, c
  <2>14. Opening(peer, c, rx) => c.rem = c.len
    BY DEF Opening
  <2> QED BY <2>8, <2>9, <2>10, <2>11, <2>12, <2>13, <2>14
<1> QED BY <1>6, <1>15, <1>16 DEF State, Before, During

-----------------------------------------------------------------------------
(* The calls *)

\* A step of a new call: a message is whole, and hashed or not.
Starts(c, b) == c.op = "msg" => c.rem = c.len /\ c.hash = b

LEMMA LiteralSteps ==
    /\ \A op, kind : Step(op, kind).op = op
    /\ \A kind, len, hash :
          /\ Msg(kind, len, hash).op = "msg" /\ Msg(kind, len, hash).kind = kind
          /\ Msg(kind, len, hash).len = len /\ Msg(kind, len, hash).rem = len
          /\ Msg(kind, len, hash).hash = hash
BY DEF Step, Msg

\* Messages that are not hellos, records, keys and switches.
Inner(c) == c.op \notin {"connected", "free"} /\ ~IsHello(c)

\* The scripts of a call, by length.
LEMMA CallScripts ==
    ASSUME NEW b, NEW c1, Starts(c1, b)
    PROVE  /\ Script(<<>>) /\ Hashing(<<>>, b)
           /\ Script(<<c1>>) /\ Hashing(<<c1>>, b)
           /\ \A c2 : c1.op \notin {"connected", "free"} /\ Starts(c2, b) /\ ~IsHello(c2) =>
                 Script(<<c1, c2>>) /\ Hashing(<<c1, c2>>, b)
           /\ \A c2, c3, c4 :
                 /\ c1.op \notin {"connected", "free"} /\ Inner(c2) /\ Inner(c3) /\ ~IsHello(c4)
                 /\ Starts(c2, b) /\ Starts(c3, b) /\ Starts(c4, b)
                 => Script(<<c1, c2, c3, c4>>) /\ Hashing(<<c1, c2, c3, c4>>, b)
           /\ \A c2, c3, c4, c5 :
                 /\ c1.op \notin {"connected", "free"} /\ Inner(c2) /\ Inner(c3) /\ Inner(c4)
                 /\ ~IsHello(c5)
                 /\ Starts(c2, b) /\ Starts(c3, b) /\ Starts(c4, b) /\ Starts(c5, b)
                 => Script(<<c1, c2, c3, c4, c5>>) /\ Hashing(<<c1, c2, c3, c4, c5>>, b)
<1>1. Script(<<>>) /\ Hashing(<<>>, b) /\ Script(<<c1>>) /\ Hashing(<<c1>>, b)
  BY DEF Script, Hashing, Starts
<1>2. ASSUME NEW c2, c1.op \notin {"connected", "free"}, Starts(c2, b), ~IsHello(c2)
      PROVE  Script(<<c1, c2>>) /\ Hashing(<<c1, c2>>, b)
  <2> DEFINE t == <<c1, c2>>
  <2>1. Len(t) = 2 /\ t[1] = c1 /\ t[2] = c2
    OBVIOUS
  <2> HIDE DEF t
  <2>2. \A i \in 1..Len(t) : i = 1 \/ i = 2
    BY <2>1
  <2> QED BY <1>2, <2>1, <2>2 DEF Script, Hashing, Starts, t
<1>3. ASSUME NEW c2, NEW c3, NEW c4,
             c1.op \notin {"connected", "free"}, Inner(c2), Inner(c3), ~IsHello(c4),
             Starts(c2, b), Starts(c3, b), Starts(c4, b)
      PROVE  Script(<<c1, c2, c3, c4>>) /\ Hashing(<<c1, c2, c3, c4>>, b)
  <2> DEFINE t == <<c1, c2, c3, c4>>
  <2>1. Len(t) = 4 /\ t[1] = c1 /\ t[2] = c2 /\ t[3] = c3 /\ t[4] = c4
    OBVIOUS
  <2> HIDE DEF t
  <2>2. \A i \in 1..Len(t) : i = 1 \/ i = 2 \/ i = 3 \/ i = 4
    BY <2>1
  <2>3. Script(t)
    BY <1>3, <2>1, <2>2 DEF Script, Starts, Inner
  <2>4. Hashing(t, b)
    BY <1>3, <2>1, <2>2 DEF Hashing, Starts
  <2> QED BY <2>3, <2>4 DEF t
<1>4. ASSUME NEW c2, NEW c3, NEW c4, NEW c5,
             c1.op \notin {"connected", "free"}, Inner(c2), Inner(c3), Inner(c4), ~IsHello(c5),
             Starts(c2, b), Starts(c3, b), Starts(c4, b), Starts(c5, b)
      PROVE  Script(<<c1, c2, c3, c4, c5>>) /\ Hashing(<<c1, c2, c3, c4, c5>>, b)
  <2> DEFINE t == <<c1, c2, c3, c4, c5>>
  <2>1. Len(t) = 5 /\ t[1] = c1 /\ t[2] = c2 /\ t[3] = c3 /\ t[4] = c4 /\ t[5] = c5
    OBVIOUS
  <2> HIDE DEF t
  <2>2. \A i \in 1..Len(t) : i = 1 \/ i = 2 \/ i = 3 \/ i = 4 \/ i = 5
    BY <2>1
  <2>3. Script(t)
    BY <1>4, <2>1, <2>2 DEF Script, Starts, Inner
  <2>4. Hashing(t, b)
    BY <1>4, <2>1, <2>2 DEF Hashing, Starts
  <2> QED BY <2>3, <2>4 DEF t
<1> QED BY <1>1, <1>2, <1>3, <1>4

\* The named steps of a call.
LEMMA NamedStarts ==
    /\ \A b \in BOOLEAN :
              /\ Starts(MakeKey, b) /\ Starts(SendCcs, b) /\ Starts(DoSwitch, b)
              /\ Starts(Done, b) /\ Starts(SendApp, b) /\ Starts(SendAlert, b)
              /\ Starts(DoFree, b)
    /\ Starts(SendFin, TRUE) /\ Inner(SendFin)
    /\ Inner(MakeKey) /\ Inner(SendCcs) /\ Inner(DoSwitch)
    /\ ~IsHello(Done) /\ ~IsHello(DoFree)
    /\ \A kind, len : \A b \in BOOLEAN : Starts(Msg(kind, len, b), b)
    /\ \A kind, len, b : kind \notin {"CH", "SH"} => Inner(Msg(kind, len, b))
    /\ \A kind, len, b : kind \in {"CH", "SH"} => IsHello(Msg(kind, len, b))
<1>1. /\ \A op, kind : \A b \in BOOLEAN : op # "msg" => Starts(Step(op, kind), b)
      /\ \A op, kind : op # "msg" => ~IsHello(Step(op, kind))
      /\ \A op, kind : op \notin {"msg", "connected", "free"} => Inner(Step(op, kind))
  BY LiteralSteps DEF Starts, IsHello, Inner
<1>2. /\ \A kind, len : \A b \in BOOLEAN : Starts(Msg(kind, len, b), b)
      /\ \A kind, len, b : kind \notin {"CH", "SH"} => Inner(Msg(kind, len, b))
      /\ \A kind, len, b : kind \in {"CH", "SH"} => IsHello(Msg(kind, len, b))
  BY LiteralSteps DEF Starts, IsHello, Inner
<1>3. "key" # "msg" /\ "rec" # "msg" /\ "switch" # "msg" /\ "connected" # "msg" /\ "free" # "msg"
  OBVIOUS
<1>4. {"key", "rec", "switch"} \cap {"msg", "connected", "free"} = {}
  OBVIOUS
<1>5. /\ Starts(SendFin, TRUE) /\ Inner(SendFin)
  BY <1>2 DEF SendFin
<1>6. \A b \in BOOLEAN :
         /\ Starts(MakeKey, b) /\ Starts(SendCcs, b) /\ Starts(DoSwitch, b)
         /\ Starts(Done, b) /\ Starts(SendApp, b) /\ Starts(SendAlert, b)
         /\ Starts(DoFree, b)
  BY <1>1, <1>3 DEF MakeKey, SendCcs, DoSwitch, Done, SendApp, SendAlert, DoFree
<1>7. /\ Inner(MakeKey) /\ Inner(SendCcs) /\ Inner(DoSwitch)
      /\ ~IsHello(Done) /\ ~IsHello(DoFree)
  BY <1>1, <1>3, <1>4 DEF MakeKey, SendCcs, DoSwitch, Done, DoFree
<1> QED BY <1>2, <1>5, <1>6, <1>7

\* A call in a state without a transcript.
LEMMA QuietCall ==
    ASSUME NEW p, p.st \in Before, NEW q, q.st \in Before, q.hashed = p.hashed,
           q.st = "hello" => q.hs,
           NEW t, NEW x, TranscriptInv(p, t, x), NEW n, Script(n), Hashing(n, FALSE)
    PROVE  TranscriptInv(q, n, x)
<1>1. q.st \notin During
  BY DEF Before, During
<1> QED BY <1>1 DEF TranscriptInv

\* A call that starts both transcripts.
LEMMA OpeningCall ==
    ASSUME NEW p, p.st \in Before, NEW q, q.st \in During, q.hs, q.hashed = <<>>,
           NEW t, NEW x, TranscriptInv(p, t, x),
           NEW n, Script(n), Hashing(n, TRUE), n # <<>>, IsHello(Head(n)),
           Head(n).len = Short, Head(n).rem = Short
    PROVE  TranscriptInv(q, n, x)
<1>1. q.st \notin Before /\ q.st # "hello"
  BY DEF Before, During
<1>2. x = NoRx /\ DOMAIN x = RxFields
  BY DEF TranscriptInv
<1>3. Opening(q, Head(n), x)
  BY <1>2 DEF Opening
<1> QED BY <1>1, <1>2, <1>3 DEF TranscriptInv

\* A call within a handshake.
LEMMA InnerCall ==
    ASSUME NEW p, p.st \in During, NEW q, q.st \in During,
           q.hs = p.hs, q.s = p.s, q.hashed = p.hashed,
           NEW x, TranscriptInv(p, <<>>, x),
           NEW n, Script(n), Hashing(n, TRUE), n # <<>>,
           Head(n).op = "msg" => Head(n).rem = Head(n).len /\ ~IsHello(Head(n))
    PROVE  TranscriptInv(q, n, x)
<1>1. q.st \notin Before /\ q.st # "hello"
  BY DEF Before, During
<1>2. /\ DOMAIN x = RxFields /\ p.hs
      /\ Endless(p.hashed) \/ InStep(p, <<>>, x)
  BY DEF TranscriptInv
<1>3. CASE Endless(p.hashed)
  BY <1>1, <1>2, <1>3 DEF TranscriptInv
<1>4. CASE InStep(p, <<>>, x)
  <2>1. InStep(q, n, x)
    BY <1>4 DEF InStep
  <2> QED BY <1>1, <1>2, <2>1 DEF TranscriptInv
<1> QED BY <1>2, <1>3, <1>4

LEMMA TranscriptConnect ==
    ASSUME TranscriptInv(peer, todo, rx), NEW role \in {"C", "S"}, Connect(role)
    PROVE  TranscriptInv(peer', todo', rx')
<1>1. /\ peer.st \in Before /\ rx' = rx
      /\ peer' = [NewPeer(role) EXCEPT
                    !.st = IF role = "C" THEN "hello" ELSE "flight", !.hs = TRUE,
                    !.s = IF role = "C" THEN 0 ELSE 1]
      /\ todo' = IF role = "C" THEN <<Msg("CH1", Short, FALSE)>>
                 ELSE <<Msg("SH", Short, TRUE), Msg("SHD", 0, TRUE)>>
  BY DEF Connect, Begin, Before
<1>2. /\ peer'.st = (IF role = "C" THEN "hello" ELSE "flight") /\ peer'.hs
      /\ peer'.hashed = <<>>
  BY <1>1 DEF NewPeer, NoPeer
<1>3. peer.hashed = <<>>
  BY <1>1 DEF TranscriptInv
<1>4. CASE role = "C"
  <2>1. Script(todo') /\ Hashing(todo', FALSE)
    <3> DEFINE c1 == Msg("CH1", Short, FALSE)
    <3>1. Starts(c1, FALSE) /\ todo' = <<c1>>
      BY <1>1, <1>4, NamedStarts
    <3> HIDE DEF c1
    <3> QED BY <3>1, CallScripts
  <2>2. peer'.st \in Before
    BY <1>2, <1>4 DEF Before
  <2>3. peer.st \in Before /\ peer'.hashed = peer.hashed /\ peer'.hs
    BY <1>1, <1>2, <1>3
  <2>4. TranscriptInv(peer', todo', rx)
    BY ONLY TranscriptInv(peer, todo, rx), <2>1, <2>2, <2>3, QuietCall
  <2> QED BY <1>1, <2>4
<1>5. CASE role = "S"
  <2> DEFINE c1 == Msg("SH", Short, TRUE)
             c2 == Msg("SHD", 0, TRUE)
  <2>0. /\ c1.op = "msg" /\ c1.len = Short /\ c1.rem = Short
    BY DEF Msg
  <2>1. Starts(c1, TRUE) /\ Starts(c2, TRUE) /\ IsHello(c1) /\ ~IsHello(c2)
    BY DEF Starts, IsHello, Msg
  <2>2. todo' = <<c1, c2>>
    BY <1>1, <1>5
  <2> HIDE DEF c1, c2
  <2>3. Script(todo') /\ Hashing(todo', TRUE)
    BY <2>0, <2>1, <2>2, CallScripts
  <2>4. todo' # <<>> /\ Head(todo') = c1
    BY <2>2
  <2>5. peer'.st \in During
    BY <1>2, <1>5 DEF During
  <2> QED BY <1>1, <1>2, <2>0, <2>1, <2>3, <2>4, <2>5, OpeningCall
<1> QED BY <1>4, <1>5

LEMMA TranscriptCalls ==
    ASSUME RecordsInv, TranscriptInv(peer, todo, rx),
           HelloVerified \/ Renegotiate \/ OwnVerify \/ ServerRenegotiates \/ Write
    PROVE  TranscriptInv(peer', todo', rx')
<1>1. rx' = rx /\ peer.st # "none"
  BY DEF HelloVerified, Renegotiate, OwnVerify, ServerRenegotiates, Write
<1>2. peer \in PeerType
  BY <1>1, Alive
<1>3. CASE HelloVerified
  <2> DEFINE c == Msg("CH", Short, TRUE)
  <2>1. /\ peer.st \in Before /\ peer' = [peer EXCEPT !.st = "verified", !.hashed = <<>>]
        /\ todo' = <<c>>
    BY <1>3 DEF HelloVerified, Begin, Before
  <2>2. c.op = "msg" /\ c.len = Short /\ c.rem = Short /\ Starts(c, TRUE) /\ IsHello(c)
    BY DEF Msg, Starts, IsHello
  <2> HIDE DEF c
  <2>0. todo' # <<>> /\ Head(todo') = c
    BY <2>1
  <2>3. Script(todo') /\ Hashing(todo', TRUE)
    BY <2>1, <2>2, CallScripts
  <2>4. peer'.st \in During /\ peer'.hashed = <<>> /\ peer'.hs = peer.hs
    BY <1>2, <2>1 DEF PeerType, During
  <2>5. peer'.hs
    <3>1. peer.st = "hello"
      BY <1>3 DEF HelloVerified
    <3> QED BY <2>4, <3>1 DEF TranscriptInv
  <2>6. TranscriptInv(peer', todo', rx)
    BY ONLY TranscriptInv(peer, todo, rx), <2>0, <2>1, <2>2, <2>3, <2>4, <2>5, OpeningCall
  <2> QED BY <1>1, <2>6
<1>4. CASE Renegotiate
  <2> DEFINE st == IF peer.role = "C" THEN "hello" ELSE "request"
             c  == Msg(IF peer.role = "C" THEN "CH1" ELSE "HREQ",
                       IF peer.role = "C" THEN Short ELSE 0, FALSE)
  <2>1. /\ peer.st \in Before /\ peer' = [peer EXCEPT !.st = st, !.hs = TRUE, !.s = 0]
        /\ todo' = <<c>>
    BY <1>4 DEF Renegotiate, Begin, Before
  <2>2. Starts(c, FALSE) /\ st \in Before
    BY DEF Msg, Starts, Before
  <2> HIDE DEF c, st
  <2>3. Script(todo') /\ Hashing(todo', FALSE)
    BY <2>1, <2>2, CallScripts
  <2>4. peer'.st \in Before /\ peer'.hashed = peer.hashed /\ peer'.hs
    BY <1>2, <2>1, <2>2 DEF PeerType
  <2>5. TranscriptInv(peer', todo', rx)
    BY ONLY TranscriptInv(peer, todo, rx), <2>1, <2>3, <2>4, QuietCall
  <2> QED BY <1>1, <2>5
<1>5. CASE OwnVerify \/ Write
  <2>1. PICK c : Starts(c, FALSE) /\ todo' = <<c>>
    <3>1. CASE OwnVerify
      <4>1. todo' = <<Msg("HVR", Short, FALSE)>>
        BY <3>1 DEF OwnVerify, Begin
      <4>2. Starts(Msg("HVR", Short, FALSE), FALSE)
        BY DEF Msg, Starts
      <4> QED BY <4>1, <4>2
    <3>2. CASE Write
      <4>1. todo' = <<SendApp>> /\ Starts(SendApp, FALSE)
        BY <3>2, NamedStarts DEF Write, Begin, SendApp
      <4> QED BY <4>1
    <3> QED BY <1>5, <3>1, <3>2
  <2>2. Script(todo') /\ Hashing(todo', FALSE)
    BY <2>1, CallScripts
  <2>3. peer' = peer /\ peer.st \in Before /\ peer.st # "hello"
    BY <1>5 DEF OwnVerify, Write, Begin, Before
  <2>4. TranscriptInv(peer, todo', rx)
    BY ONLY TranscriptInv(peer, todo, rx), <2>2, <2>3, QuietCall
  <2> QED BY <1>1, <2>3, <2>4
<1>6. CASE ServerRenegotiates
  <2> DEFINE c1 == Msg("SH", Short, TRUE)
             c2 == Msg("SHD", 0, TRUE)
             s  == IF peer.hs THEN peer.s ELSE 1
  <2>1. /\ peer.st \in Before /\ todo' = <<c1, c2>>
        /\ peer' = [peer EXCEPT !.st = "flight", !.hs = TRUE, !.hashed = <<>>, !.s = s]
    BY <1>6 DEF ServerRenegotiates, Begin, Before
  <2>2. c1.op = "msg" /\ c1.len = Short /\ c1.rem = Short
    BY DEF Msg
  <2>3. Starts(c1, TRUE) /\ Starts(c2, TRUE) /\ IsHello(c1) /\ ~IsHello(c2)
    BY DEF Starts, IsHello, Msg
  <2> HIDE DEF c1, c2, s
  <2>4. Script(todo') /\ Hashing(todo', TRUE)
    BY <2>1, <2>2, <2>3, CallScripts
  <2>5. todo' # <<>> /\ Head(todo') = c1
    BY <2>1
  <2>6. peer'.st \in During /\ peer'.hs /\ peer'.hashed = <<>>
    BY <1>2, <2>1 DEF During, PeerType
  <2>7. TranscriptInv(peer', todo', rx)
    BY ONLY TranscriptInv(peer, todo, rx), <2>1, <2>2, <2>3, <2>4, <2>5, <2>6, OpeningCall
  <2> QED BY <1>1, <2>7
<1> QED BY <1>3, <1>4, <1>5, <1>6

LEMMA TranscriptAnswers ==
    ASSUME RecordsInv, TranscriptInv(peer, todo, rx),
           ServerHelloDone \/ ChangeCipherSpec \/ Finished
    PROVE  TranscriptInv(peer', todo', rx')
<1>1. rx' = rx /\ peer.st # "none" /\ todo = <<>> /\ peer.st \in During
  BY DEF ServerHelloDone, ChangeCipherSpec, Finished, Idle, During
<1>2. peer \in PeerType
  <2>1. todo # <<>> \/ peer.st # "none"
    BY <1>1
  <2> QED BY <2>1, Alive
<1>3. TranscriptInv(peer, <<>>, rx)
  BY <1>1
<1>4. /\ peer'.st \in During /\ peer'.hs = peer.hs /\ peer'.s = peer.s
      /\ peer'.hashed = peer.hashed
  <2>1. CASE ServerHelloDone
    BY <1>2, <2>1 DEF ServerHelloDone, Begin, PeerType, During
  <2>2. CASE ChangeCipherSpec
    BY <1>2, <2>2 DEF ChangeCipherSpec, Begin, PeerType, During
  <2>3. CASE Finished
    <3>1. peer' = FreeOther(peer)
      BY <2>3 DEF Finished, Begin
    <3>2. SameTranscript(peer, peer')
      BY <1>2, <3>1 DEF FreeOther, SameTranscript, PeerType
    <3> QED BY <1>1, <3>2 DEF SameTranscript
  <2> QED BY <2>1, <2>2, <2>3
<1>5. /\ Script(todo') /\ Hashing(todo', TRUE) /\ todo' # <<>>
      /\ Head(todo').op = "msg" => Head(todo').rem = Head(todo').len /\ ~IsHello(Head(todo'))
  <2>1. ASSUME NEW c, todo' # <<>>, Head(todo') = c, Starts(c, TRUE), ~IsHello(c)
        PROVE  Head(todo').op = "msg" =>
                  Head(todo').rem = Head(todo').len /\ ~IsHello(Head(todo'))
    BY <2>1 DEF Starts
  <2>2. CASE ServerHelloDone
    <3>1. PICK len \in CkxLengths :
             todo' = <<Msg("CKX", len, TRUE), Step("key", ""), Step("rec", "CCS"),
                       Step("switch", ""), Msg("FIN", Short, TRUE)>>
      BY <2>2 DEF ServerHelloDone, Begin
    <3> DEFINE c == Msg("CKX", len, TRUE)
    <3>2. todo' = <<c, MakeKey, SendCcs, DoSwitch, SendFin>>
      BY <3>1 DEF MakeKey, SendCcs, DoSwitch, SendFin
    <3>3. Starts(c, TRUE) /\ c.op = "msg" /\ ~IsHello(c)
      BY DEF Starts, Msg, IsHello
    <3> HIDE DEF c
    <3>4. todo' # <<>> /\ Head(todo') = c
      BY <3>2
    <3>5. /\ Inner(MakeKey) /\ Inner(SendCcs) /\ Inner(DoSwitch) /\ ~IsHello(SendFin)
          /\ Starts(MakeKey, TRUE) /\ Starts(SendCcs, TRUE) /\ Starts(DoSwitch, TRUE)
          /\ Starts(SendFin, TRUE) /\ c.op \notin {"connected", "free"}
      BY <3>3, NamedStarts DEF Inner
    <3>6. Script(todo') /\ Hashing(todo', TRUE)
      BY <3>2, <3>3, <3>5, CallScripts
    <3> QED BY <2>1, <3>3, <3>4, <3>6
  <2>3. CASE ChangeCipherSpec
    <3>1. todo' = <<MakeKey>>
      BY <2>3 DEF ChangeCipherSpec, Begin, MakeKey
    <3>0. todo' # <<>> /\ Head(todo') = MakeKey
      BY <3>1
    <3>2. Starts(MakeKey, TRUE) /\ ~IsHello(MakeKey)
      BY NamedStarts DEF Inner
    <3>3. Script(todo') /\ Hashing(todo', TRUE)
      BY <3>1, <3>2, CallScripts
    <3> QED BY <2>1, <3>0, <3>2, <3>3
  <2>4. CASE Finished
    <3>1. todo' = <<SendCcs, DoSwitch, SendFin, Done>> \/ todo' = <<Done>>
      BY <2>4 DEF Finished, Begin, SendCcs, DoSwitch, SendFin, Done
    <3>2. /\ Starts(SendCcs, TRUE) /\ Starts(DoSwitch, TRUE) /\ Starts(SendFin, TRUE)
          /\ Starts(Done, TRUE) /\ Inner(SendCcs) /\ Inner(DoSwitch) /\ Inner(SendFin)
          /\ ~IsHello(Done) /\ ~IsHello(SendCcs)
      BY NamedStarts DEF Inner
    <3>3. SendCcs.op \notin {"connected", "free"}
      BY <3>2 DEF Inner
    <3>4. CASE todo' = <<Done>>
      <4>1. todo' # <<>> /\ Head(todo') = Done
        BY <3>4
      <4>2. Script(todo') /\ Hashing(todo', TRUE)
        BY <3>2, <3>4, CallScripts
      <4> QED BY <2>1, <3>2, <4>1, <4>2
    <3>5. CASE todo' = <<SendCcs, DoSwitch, SendFin, Done>>
      <4>1. todo' # <<>> /\ Head(todo') = SendCcs
        BY <3>5
      <4>2. Script(todo') /\ Hashing(todo', TRUE)
        BY <3>2, <3>3, <3>5, CallScripts
      <4> QED BY <2>1, <3>2, <4>1, <4>2
    <3> QED BY <3>1, <3>4, <3>5
  <2> QED BY <2>2, <2>3, <2>4
<1>6. TranscriptInv(peer', todo', rx)
  BY ONLY <1>1, <1>3, <1>4, <1>5, InnerCall
<1> QED BY <1>1, <1>6

LEMMA TranscriptDestroy ==
    ASSUME RecordsInv, TranscriptInv(peer, todo, rx), Destroy
    PROVE  TranscriptInv(peer', todo', rx')
<1>1. /\ todo = <<>> /\ peer.st # "none" /\ peer' = peer /\ rx' = rx
      /\ todo' = <<SendAlert, DoFree>>
  BY DEF Destroy, Begin, Idle, SendAlert, DoFree
<1>2. \A b \in BOOLEAN : Script(todo') /\ Hashing(todo', b)
  <2>1. TAKE b \in BOOLEAN
  <2>2. Starts(SendAlert, b) /\ Starts(DoFree, b) /\ ~IsHello(DoFree)
    BY NamedStarts
  <2>3. SendAlert.op \notin {"connected", "free"}
    BY NamedSteps
  <2> QED BY <1>1, <2>2, <2>3, CallScripts
<1>3. peer.st \in State
  <2>1. todo # <<>> \/ peer.st # "none"
    BY <1>1
  <2> QED BY <2>1, Alive, PeerFields
<1>4. TranscriptInv(peer, <<>>, rx)
  BY <1>1
<1>5. CASE peer.st \in Before
  <2>0. peer.st = "hello" => peer.hs
    BY <1>4 DEF TranscriptInv
  <2>1. TranscriptInv(peer, todo', rx)
    BY ONLY <1>2, <1>4, <1>5, <2>0, QuietCall
  <2> QED BY <1>1, <2>1
<1>6. CASE peer.st \in During
  <2>1. todo' # <<>> /\ Head(todo').op # "msg"
    BY <1>1, NamedSteps
  <2>2. TranscriptInv(peer, todo', rx)
    BY ONLY <1>2, <1>4, <1>6, <2>1, InnerCall
  <2> QED BY <1>1, <2>2
<1> QED BY <1>3, <1>5, <1>6 DEF State, Before, During

LEMMA TranscriptContinues ==
    ASSUME RecordsInv, TranscriptInv(peer, todo, rx), Continue
    PROVE  TranscriptInv(peer', todo', rx')
<1>1. todo # <<>>
  BY DEF Continue, SendRecord, SendFragment, CalculateKeyBlock, Switch, Connected, Free, Idle
<1>2. peer \in PeerType /\ todo \in Seq(StepType)
  BY <1>1, Alive
<1>3. CASE SendRecord \/ CalculateKeyBlock \/ Switch
  <2>1. rx' = rx /\ todo' = Tail(todo) /\ Head(todo).op # "msg"
    BY <1>3 DEF SendRecord, CalculateKeyBlock, Switch
  <2>2. SameTranscript(peer, peer')
    BY <1>2, <1>3 DEF SendRecord, CalculateKeyBlock, Switch, SameTranscript, PeerType
  <2>3. TranscriptInv(peer', Tail(todo), rx)
    BY ONLY TranscriptInv(peer, todo, rx), <1>1, <1>2, <2>1, <2>2, TailKeeps
  <2> QED BY <2>1, <2>3
<1>4. CASE Connected \/ Free
  <2>1. rx' = NoRx /\ todo' = Tail(todo) /\ Head(todo).op \in {"connected", "free"}
    BY <1>4 DEF Connected, Free
  <2>2. peer'.st \in Before /\ peer'.st # "hello" /\ peer'.hashed = <<>>
    <3>1. CASE Connected
      BY <1>2, <3>1 DEF Connected, PeerType, Before
    <3>2. CASE Free
      BY <3>2 DEF Free, NoPeer, Before
    <3> QED BY <1>4, <3>1, <3>2
  <2>3. TranscriptInv(peer', Tail(todo), NoRx)
    BY ONLY TranscriptInv(peer, todo, rx), <1>1, <1>2, <2>1, <2>2, TranscriptEnds
  <2> QED BY <2>1, <2>3
<1> QED BY <1>3, <1>4, TranscriptFragment DEF Continue

LEMMA TranscriptNext ==
    ASSUME RecordsInv, TranscriptInv(peer, todo, rx), [Next]_vars
    PROVE  TranscriptInv(peer', todo', rx')
<1>1. CASE Continue
  BY <1>1, TranscriptContinues
<1>2. CASE Handshaking
  <2>1. CASE StatelessVerify
    BY <2>1 DEF StatelessVerify
  <2> QED BY <1>2, <2>1, TranscriptCalls, TranscriptAnswers DEF Handshaking
<1>3. CASE RecordOpens \/ Retransmit
  <2>1. rx' = rx /\ todo' = todo
    BY <1>3 DEF RecordOpens, Retransmit
  <2>2. SameTranscript(peer, peer')
    <3>1. peer \in PeerType
      BY DEF RecordsInv, Types
    <3>2. CASE RecordOpens
      BY <3>1, <3>2 DEF RecordOpens, FreeOther, SameTranscript, PeerType
    <3>3. CASE Retransmit
      BY <3>1, <3>3 DEF Retransmit, SameTranscript, PeerType
    <3> QED BY <1>3, <3>2, <3>3
  <2>3. TranscriptInv(peer', todo, rx)
    BY ONLY TranscriptInv(peer, todo, rx), <2>2, SamePeer
  <2> QED BY <2>1, <2>3
<1>4. CASE \E role \in {"C", "S"} : Connect(role)
  BY <1>4, TranscriptConnect
<1>5. CASE Renegotiate \/ Write
  BY <1>5, TranscriptCalls
<1>6. CASE Destroy
  BY <1>6, TranscriptDestroy
<1>7. CASE UNCHANGED vars
  BY <1>7 DEF vars
<1> QED BY <1>1, <1>2, <1>3, <1>4, <1>5, <1>6, <1>7 DEF Next

\* The transcripts of both sides in all steps of the sender: equal between two
\* messages, one header apart in the middle of a message, until a message has
\* no last fragment.
LEMMA TranscriptInvariant == Spec => [](RecordsInv /\ TranscriptInv(peer, todo, rx))
<1>1. Init => RecordsInv /\ TranscriptInv(peer, todo, rx)
  <2> SUFFICES ASSUME Init PROVE RecordsInv /\ TranscriptInv(peer, todo, rx)
    OBVIOUS
  <2>1. peer = NoPeer /\ todo = <<>> /\ rx = NoRx
    BY DEF Init
  <2>2. /\ peer.st \in Before /\ ~(peer.st \in During) /\ peer.hashed = <<>>
        /\ peer.st # "hello"
    BY <2>1 DEF NoPeer, Before, During
  <2>3. Script(<<>>) /\ Hashing(<<>>, FALSE) /\ DOMAIN NoRx = RxFields
    BY DEF Script, Hashing, NoRx, RxFields
  <2>4. TranscriptInv(peer, todo, rx)
    BY <2>1, <2>2, <2>3 DEF TranscriptInv
  <2> QED BY <2>4, RecordsInit
<1>2. RecordsInv /\ TranscriptInv(peer, todo, rx) /\ [Next]_vars
        => RecordsInv' /\ TranscriptInv(peer, todo, rx)'
  <2> SUFFICES ASSUME RecordsInv, TranscriptInv(peer, todo, rx), [Next]_vars
               PROVE  RecordsInv' /\ TranscriptInv(peer, todo, rx)'
    OBVIOUS
  <2>1. TranscriptInv(peer, todo, rx)' <=> TranscriptInv(peer', todo', rx')
    BY DEF TranscriptInv, Script, Hashing, Endless, InStep, Opening, PartlySent
  <2> QED BY <2>1, RecordsNext, TranscriptNext
<1> QED BY <1>1, <1>2, PTL DEF Spec

\* dtls_send_handshake_msg_hash() hashes a message before it cuts it, and the
\* other side's handle_handshake() hashes what it has put together: the same,
\* whatever the payload and the lengths are, unless a length is a multiple.
THEOREM TranscriptsMatch == Spec => []TranscriptsAgree
<1>1. RecordsInv /\ TranscriptInv(peer, todo, rx) => TranscriptsAgree
  <2> SUFFICES ASSUME RecordsInv, TranscriptInv(peer, todo, rx),
                      todo = <<>>, peer.hs, HasLastFragments
               PROVE  rx.ok /\ rx.got = peer.hashed
    BY DEF TranscriptsAgree, Idle
  <2>1. peer \in PeerType
    BY DEF RecordsInv, Types
  <2>2. peer.st \in State /\ peer.hashed \in Seq(HeaderType)
    BY <2>1, PeerFields
  <2>3. CASE peer.st \in Before
    <3>1. peer.hashed = <<>> /\ rx = NoRx
      BY <2>3 DEF TranscriptInv
    <3> QED BY <3>1 DEF NoRx
  <2>4. CASE peer.st \in During
    <3>1. ~Endless(peer.hashed)
      <4>1. DOMAIN peer.hashed = 1..Len(peer.hashed)
        BY <2>2
      <4> QED BY <4>1 DEF HasLastFragments, Endless
    <3>2. InStep(peer, todo, rx)
      BY <2>4, <3>1 DEF TranscriptInv
    <3> QED BY <3>2 DEF InStep
  <2> QED BY <2>2, <2>3, <2>4 DEF State, Before, During
<1> QED BY <1>1, TranscriptInvariant, PTL
=============================================================================
