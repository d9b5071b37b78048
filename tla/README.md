# Verification of a post-quantum tinydtls

The repository is tinydtls 0.8.6 with two additions: application data is
authenticated with TESLA (a chain of keys, each disclosed one packet after it was
used), and the client's key exchange carries a K2SN-MSS signature (a Merkle tree
of hash-based one-time keys). This directory holds TLA+ models of its parts,
configurations to check them with TLC, and proofs checked by TLAPS. PROJECT.json
maps every definition to the lines it models, and lists the runs, the hazards and
what covers them, the findings and the theorems.

1. [The system](#1-the-system)
2. [Modules and code](#2-modules-and-code)
3. [Runs](#3-runs)
4. [Findings](#4-findings)
5. [Proofs](#5-proofs)
6. [What is not modelled](#6-what-is-not-modelled)
7. [Plan](#7-plan)

## 1. The system

The library is single-threaded and driven by events. The application calls it
(`dtls_connect`, `dtls_write`, `dtls_close`, `dtls_renegotiate`), hands it
datagrams (`dtls_handle_message`) and, on Contiki, a timer calls
`dtls_retransmit_callback`. What is concurrent is the two endpoints, the network
and the timers; inside an endpoint a call runs to its end. One context
(`dtls_context_t`) has a list of peers, a send queue and the TESLA
synchronisation data.

| Component | State | Operations | Talks to |
|---|---|---|---|
| DTLS engine (`dtls.c`, `dtls-peer.*`, `dtls-state.h`) | per peer: role, state, two sets of security parameters (current and other epoch), handshake parameters (randoms, `mseq_r`, `mseq_s`, transcript hash, reorder queue, reassembly buffer) | handle a record (handshake message, fragment, ChangeCipherSpec, alert, application data), connect, renegotiate, rehandshake, write, close, reset | network, send queue, application callbacks (`get_psk_info`, `read`, `event`) |
| Packet queues (`netq.c`) and timer (`contiki-support/dtls-support.c`) | the send queue ordered by time, one reorder queue per handshake, a pool of nodes shared by all, one timer | insert, remove, delete all, retransmit, give up, stop | engine, clock |
| TESLA (`tesla.h`, parts of `dtls.c`) | per peer: `int_index`, `K[1000]`, the stored packet; per context: `tsync` | make a chain, announce it, append index, key and MAC to a packet, check the stored packet, store the new one | engine, NTP |
| NTP arithmetic (`ntp.c`) | `t_R`, `ctx->rtt`, `tsync.T_start` | convert, add, subtract, safety test | TESLA |
| K2SN-MSS (`k2sn/ksnmss.c`) | `auth`, `keep`, `retain`, TreeHash instances, root | generate the tree, sign and move on to the next key, verify | engine (client signs, server verifies) |
| Cover-free family (`k2sn/1cff.c`) | table of binomial coefficients, `component_key` | fill the table, choose the keys of a message | K2SN-MSS |
| SHA-256, HMAC, PRF (`sha2/sha2.c`, `hmac.c`, `dtls-crypto.c`) | chaining value, buffer and count of a hash context; two hash contexts of an HMAC | init, update, final; expand a secret into a key block | engine (transcript, Finished, cookie, keys), TESLA |
| CCM (`dtls-ccm.c`) | blocks `B`, `X`, `A`, `S`, the message in place | seal, open | engine (records) |
| SWIFFT, ChaCha20, AES, SHA-3, ECC | tables | | K2SN-MSS, CCM, ECDHE suite |
| Applications (`tests/`) | callbacks and their answers | connect and write (client), echo (server) | engine |

What is hard about it:

* **Datagrams.** Messages are lost, duplicated and reordered. Handshake messages
  that come early wait in a queue and are replayed; a ClientKeyExchange comes in 18
  fragments; old datagrams of a finished handshake or of a client's earlier life
  can arrive at any time.
* **Storage that is gone.** A rehandshake frees the peer while its callers still
  use it; the reassembly buffer is freed before the message in it is handled;
  nodes of the send queue point to peers and remember an epoch, not a key.
* **Epochs.** A single record that decrypts throws away the parameters of the
  other epoch.
* **Timers.** One timer serves a queue of many nodes, and every send sets it anew.
* **Sequences.** TESLA indices and Merkle paths are carried over from one packet,
  or signature, to the next; errors show later than they are made.
* **Configuration.** Which suite is chosen and which messages are expected depends
  on the callbacks of two applications, on the order of a list and on extensions.
* **Numbers.** Limbs, times in two parts, indices beyond arrays, lengths that just
  fill a block, a fragment or a byte.

The correctness of each component, in one sentence each:

* engine: both sides agree on keys and transcript of every session, once; nobody
  is connected with other keys; data only flows in completed sessions; lost
  messages are made up for;
* negotiation: both sides use one suite that both support, and keys of the ECDHE
  suite only after this handshake's checks of the other side;
* records: no nonce is used twice under a key, nothing secret leaves in the clear,
  and what is cut into fragments is hashed alike on both sides;
* queues: a message that awaits its answer is repeated in time until it is
  answered or given up;
* TESLA: no key is disclosed before its packet is sent, and a check that succeeds
  says which packet is genuine;
* NTP: a packet is called safe exactly if its key is not yet disclosed;
* K2SN-MSS: every one-time signature passes its check and has a path from its
  one-time key to the root; a leaf covers all its component keys;
* cover-free family: different messages get different sets of keys;
* primitives: the streamed, in-place computations equal their definitions in
  FIPS 180-4, RFC 2104, RFC 5246 and RFC 3610 at every boundary.

## 2. Modules and code

| Module | Models | Checked by | Proofs |
|---|---|---|---|
| `SessionAgreement` | what a handshake promises (abstract) | `MCHandshake` | `AgreementProofs` |
| `Handshake` | the PSK handshake, both endpoints and the network | `MCHandshake` | `HandshakeProofs`, `AgreementProofs` |
| `Suites` | negotiation, both cipher suites, applications' callbacks | `MCEngine`, `MCSuites` | `SuitesProofs` |
| `Records` | record numbers, sealing, fragmentation, retransmitted copies | `Channel` | `RecordsProofs` |
| `Netq` | queues, pool, timer | `MCEngine` | `NetqProofs` |
| `Tesla` | TESLA on both sides | `Channel`, itself | `TeslaProofs` |
| `Engine` | `Netq` and `Suites` side by side | `MCEngine` | |
| `Channel` | `Tesla` and `Records` side by side | itself | |
| `Ntp` | time arithmetic and the safety test | `MCNtp` | |
| `Mss` | Merkle tree traversal | `Crypto` | `K2snProofs` |
| `Ots` | one-time signature, tree over the component keys | `Crypto` | `K2snProofs` |
| `Cff` | choice of the component keys | `Crypto` | `K2snProofs` |
| `Limbs` | long numbers of the cover-free family | `Crypto` | `K2snProofs` |
| `Powers` | powers of two | `Crypto` | `K2snProofs` |
| `K2sn` | the four above side by side | `Crypto` | |
| `StreamHash` | what a hash context promises (abstract) | `Crypto` | `PrimitivesProofs` |
| `Bytes` | symbolic bytes, copying, exclusive or | `Crypto` | |
| `Sha2` | SHA-256: buffering, padding, chaining | `Crypto` | `PrimitivesProofs` |
| `Hmac` | HMAC and the PRF of TLS | `Crypto` | `PrimitivesProofs` |
| `Ccm` | AES-CCM, sealing and opening a record | `Crypto` | `PrimitivesProofs` |
| `Primitives` | the three above side by side | `Crypto`, itself | |
| `Crypto` | `K2sn` and `Primitives` side by side | itself | |

Four modules look at `dtls.c`, each at one question and with the others' detail left
out: `Handshake` at the order of messages over a bad network, `Suites` at what the
messages say, `Records` at the bytes that leave, `Tesla` at the application data.

Modules "side by side" share no state. `Engine`, `Channel`, `Crypto`, `K2sn` and
`Primitives` have a variable that says which part a behaviour is about, and one run
checks the properties of all its parts; the theorems are about the specification of
each part.

Operators named `Bug...` are faulty variants of the definition that follows them.
They are used by no specification: each is put in the place of its original to see
that a property notices.

### Handshake and SessionAgreement

`pr[e]` is the peer object of an endpoint: `state`, `hs` (handshake parameters),
`sec0` and `sec1` (`security_params[0]` and `[1]`, each an epoch and a key), `sq[e]`
the send queue, `net` the datagrams under way, `up` whether the server process
lives. Randoms are numbers, drawn freshly; a key is the pair of randoms; a
transcript is the sequence of the messages hashed. `offered`, `accepted` and
`confirmed` are histories: the sessions for which the client sent its Finished, the
server completed, the client completed.

One action is one call into the library: `Receive` is `dtls_handle_message` on one
record and contains decryption (`Opens`, `AfterOpen`), the state machine
(`HandleMsg` and one operator per message), reassembly (`Fragment`), the reorder
queue and the trailing `dtls_stop_retransmission`. Replaying stored messages is the
action `Drain`, which has priority over everything else of that endpoint because it
belongs to the same call. `Retransmit` is the timer; `Connect`, `Renegotiate`,
`Write`, `Close`, `Reset` and `ClientRestart` are the application. `Fail` is the
alert that follows an error, after which the peer stays in state CLOSING.

Undefined behaviour: `FreedReads` says what a read of freed storage yields. The
reassembled ClientKeyExchange is read after `free`, and a rehandshake reads the
state of the freed peer. The contents may be intact, overwritten by the allocator
or reused, and the model chooses. The null dereference for a fragment without
handshake parameters ends the server (`ReceiveCrash`).

`SessionAgreement` says what all of this is for: the server accepts only what the
client offered, the client confirms only what the server accepted, no key is offered
or accepted twice. `Handshake` implements it with the three histories as the
refinement mapping.

### Suites

`conf` is what the two applications have registered (`get_psk_info`,
`get_ecdsa_key`, `verify_ecdsa_key`) and what `get_psk_info` answers, and never
changes. `pr[e]` has the fields of the peer and its handshake parameters that the
handlers read: suite, randoms, the other side's public and ephemeral keys,
`do_client_auth`. There is one operator per handler, with its checks in the order of
the code; a field that is only checked on its own is `good` or `bad`. ECDSA
signatures, ECDH and the master secret are terms. A cookie is the part of the hello
its HMAC covers.

A behaviour is of a pair, client and server of this library over an orderly network,
or of one endpoint with a foreign peer that sends any message of its own role at any
time. The latter is needed because the calls that send the server's Certificate,
ServerKeyExchange and CertificateRequest are commented out (`dtls.c:2586-2621`): only
a foreign server reaches the client's handlers for them.

### Records

`peer` has the two sets of security parameters with their `rseq`, `queue` the nodes
kept for retransmission, `wire` every record that left, as a bag. A call into the
library is a list of steps in `todo` (send a message, make keys, switch, ...), each
an action; while there are any, nothing else happens, since the library is
single-threaded. `SendFragment` is the loop of `dtls_send_handshake_msg_hash`,
`Retransmit` looks up the parameters of the node's epoch as `dtls_retransmit` does,
and `RecordOpens` is the late record that frees the other parameters. `rx` is the
reassembly at the other side, with every first transmission in order.

### Netq

`sendqueue` is a sequence of nodes with the time left until each is due, `avail` the
free nodes of the pool, `timer` the time until the callback. `Send` is the part of
`dtls_send_multi` that copies a message, `Fire` the callback (one node, as
`dtls_check_retransmit` is called with `all = 0`, then the timer is set for the new
head), `Stop` the `dtls_stop_retransmission` of an answer, `Early`, `Replay` and
`HandshakeFree` what the reorder queue does to the pool.

### Tesla

A key is its chain and its index; key `k` gives away all keys below it. A MAC is the
key it was made with, so a MAC verifies exactly when the key and the length that
went into it are right. `dtls_write` is the client's, `Receive` the
application data case of `dtls_handle_message` on either side, together with the
answer of the application: the server echoes with `dtls_write`, which in that role
increments `int_index` and sends 68 bytes more than it is given, so that the
client's extension goes back unchanged. The verdict of the check is only printed,
and `last` remembers it. The handshake is reduced to hello, key exchange and
Finished, which are the messages that touch TESLA's state. Reading past `K` gives a
key of no chain: the stored MAC or the stored packet. `Fault` is the network, and
`faults` counts what it did, for the properties that hold while it keeps order.

### Ntp

Times are pairs of seconds and microseconds as in `struct timeval`, doubles exact
rationals. The operators have the names of the functions. `Hello` notes `t_R`,
`Synchronise` is what a ClientKeyExchange brings (measured discrepancy and
`T_start`), `Receive` is the test. A cast of a negative double to `uint64_t` is what
x86-64 does; the program needs AVX2 and builds nowhere else.

### Mss, Ots, Cff, Limbs, K2sn

In `Mss` the hash of two nodes is their parent if they are its children and junk
otherwise, so that a path is right exactly if it leads to the root. `GenerateLeaf` is
one turn of the loop of `key_generation`, `ksnmss_sign` the traversal in that
function. After the last key the code writes `auth[hlength]`, one past the array, and
the model lets it hit a neighbouring variable or nothing.

`Ots` is the other half of signing and verifying: the sum of the chosen secret keys
in one byte per bit, its bound, SWIFFT of the sum against the sum of the public keys,
which come packed in nine bits per element. What the check relies on is that SWIFFT
is linear modulo p, and this is how it is modelled; its coefficients (`set_Key`) and
the streams of ChaCha20 (`KeyStream`) are stand-ins, among them the all-zero and all-one
streams, for which the sums are extreme. `HashNode` is one hash of `create_L_tree`,
in place in an array of half as many nodes as there are keys.

`K2sn` puts the parts side by side; a behaviour exercises one of them, as
`ksnmss_sign` and `ksnmss_verify` call them one after the other and pass on only
what they return.

`Cff` works on numbers; `Limbs` shows, in the states of `Cff`, that limbs give the
same results. `sub()` would lose a borrow into a limb that is 2^64 - 1; the part of
`LimbsExact` about it therefore has the premise that the limbs of the subtrahend that receive a borrow are not full. No entry of the
table of 262 rows and 132 columns has such a limb (computed outside TLA+).

### Bytes, Sha2, StreamHash, Hmac, Ccm, Primitives

A byte is a set of atoms and exclusive or the symmetric difference, so two results
are equal exactly if they are for all values of the atoms. The compression function
and AES are terms over their input. What is modelled is everything around them, in
the code's steps: the buffer that is collected in and used as scratch, the padding
that may need a second block, HMAC's `pad` that is xored twice, the chain A(i) of the
PRF and its last partial block, CCM's `B` and `X` that carry over from block to
block, the message overwritten while its MAC is computed. The context a digest is
taken from is a copy, as in `check_finished`. Either of the two contexts of
`dtls_p_hash` may be refused, which ends it with nothing written: without the first it
returns 0, without the second the full length.

`Sha2` implements `StreamHash`, whose state is the text given so far; the refinement
mapping reads that text back from the chaining value and the used part of the buffer.

## 3. Runs

| Run | Result | States | Shows |
|---|---|---|---|
| `hs_session` | pass | 71,623 | the refinement of `SessionAgreement`, send queue, reorder buffer and transcript with two client randoms under duplication, reordering, retransmission, all outcomes of freed reads; no deadlock |
| `hs_reneg` | pass | 497,715 | the refinement, epochs and keys across renegotiations by either side, rehandshake, close and reset; closing is final |
| `hs_progress` | pass | 3,416 | liveness: up to three lost datagrams do not stop the hello exchange |
| `hs_final_flight` | violation | | a lost last flight of the server is never repeated |
| `hs_fragment` | violation | | a late fragment crashes the server |
| `engine` | pass | 112,746 | queues: no node lost or freed twice but for replays, timer not late, everything answered or given up; suites: which one is chosen, that ECDHE keys are used only after authentication, which pairs of applications without ECDHE get a session |
| `suites_ecdhe` | violation | | two applications with the callbacks of the ECDHE suite get no session |
| `channel` | pass | 6,917,370 | TESLA: keys are secret until used; an accepted packet is the predecessor, whatever the network does; while it keeps order the store is in step with the keys; records: no nonce twice, Finished and data always sealed with their session's key, both transcripts equal, epochs never back |
| `tesla_lengths` | violation | | a genuine packet fails the check if the next one has another length |
| `ntp_safe` | violation | | late packets are called safe |
| `crypto` | pass | 141,441 | signature: distinct keys per message, limbs exact, one-time signatures verify, a leaf covers its keys, all Merkle paths verify, instances finish in time and in bounds; primitives: the streamed hash implements the one-shot hash; HMAC, PRF and CCM equal their definitions; CCM opens exactly what was sealed |
| `prf_refused` | violation | | the PRF reports bytes that it has not written |

**Bounds.**

* `Handshake`. Two fragments instead of 18 are the first number for which a fragment
  can be first, last, missing, repeated or out of place. Two client randoms give a
  restart, a rehandshake or a renegotiation, in which messages of two sessions mix;
  two server randoms in `hs_reneg` do the same for the server. One retransmission
  besides free duplication is enough since the network may deliver a datagram as
  often as it likes. Losing a datagram is, for safety, the same as not delivering
  it, so `MaxLoss` is 0 in the runs about safety.
* `Suites`. All sets of callbacks on both sides, all answers of `get_psk_info`; lists
  of up to two suites in either order, with unknown ones before known ones, without
  known ones, and none. Two randoms for each side give a hello with and without
  cookie and a renegotiation.
* `Records`. A payload of two bytes with messages of one, four and five: not cut, cut
  into full fragments only (the length that has no last fragment), and cut with a
  rest. Two key blocks and two connections: parameters of two sessions are there at
  once, and a counter can start again. Three records sent again.
* `Netq`. Two peers, three nodes, three messages, two retransmissions, two early
  messages: enough for a full pool, for a queue with nodes of both peers, for doubled
  times that overtake, and for a timer that is set while another node is nearly due.
* `Tesla`. Three packets of two lengths, chains of two keys, up to three chains and
  two connections, two faults: a chain can be used up, and a renegotiation, a
  reconnection or a fault can happen before, between and after the packets.
* `Ntp`. A second has eight microseconds and four milliseconds; the run is long
  enough for several seconds to pass and for the microseconds to wrap.
* `Mss`. Height 8 (256 one-time keys) has instances of heights 0 to 5 and three
  updates per signature, so they compete for updates; key generation runs twice.
* `Cff`, `Limbs`. Sets of 3 out of 10 keys, all 120 messages; limbs to the base 3,
  five of them, with all numbers of that form: carries and borrows go over several
  limbs.
* `Ots`. Bytes of three bits and p = 9, so that an element needs one bit more than a
  byte as in the program (p = 257); ten keys in a tree of height four with two nodes
  in the lowest layer, so that the second layer mixes nodes and keys as the program's
  262 keys do.
* `Primitives`. A block of four bytes of which three are before the length (SHA-256:
  64 and 56), digests of two; lengths on, before and behind each of these
  boundaries, texts of several blocks, several calls.

`CHECK_DEADLOCK FALSE` is set where a run ends when its bounds are used up (all
one-time keys used, all packets written) or when the connection is idle.

**Fairness.** `hs_progress` and `hs_final_flight` assume that datagrams which are not
lost arrive and that a timer which is due is served. The timeout is two seconds and
doubles, so the timer is assumed to fire only when nothing is under way
(`PatientTimer`). `engine` assumes for the queues that time goes on and the callback runs. This is
what Contiki's `ctimer` gives: `dtls_set_retransmit_timer` and
`dtls_retransmit_callback` in `contiki-support/dtls-support.c`. The POSIX
applications do not call `dtls_check_retransmit` at all, and nothing is retransmitted
there; the liveness results do not hold for them. For the suites `engine` and
`suites_ecdhe` assume that the client application connects, as `tests/dtls-client.c` does first of all, and that a message
that has arrived is handled. No fairness is assumed of foreign peers, of losses or of
duplicates.

## 4. Findings

Each violated run checks one property that a comment in the code or the
documentation of its interface states.

* `hs_final_flight` (`dtls.c:5305`): the server stops retransmission in the call
  that sends its Finished.
* `hs_fragment` (`dtls.c:4886`): a fragment is reassembled before the test for
  missing handshake parameters.
* `ntp_safe` (`dtls.c:5510`, `ntp.c:18`): differences of times are negative when the
  microseconds wrap, and then everything is safe.
* `tesla_lengths` (`dtls.c:5582`): the comment at `dtls.c:5346-5347` has the revealed
  key check the authenticity of the stored packet. Its MAC is computed over as many
  bytes as the new packet has, so a genuine packet fails if the next one is shorter or
  longer, on a faultless network. `StoreInStep` says what does hold: it is the right
  packet and the right key, and packets of one length pass.
* `suites_ecdhe` (`dtls.c:2586`): `get_ecdsa_key` is what "a server providing ECDSA
  support" implements (`dtls.h:223-234`), and with `verify_ecdsa_key` it requests
  client authentication (`dtls.h:248-251`). Two applications that do so never get a
  session: the client prefers ECDHE, the server chooses it and does not send its part.
  `Outcome` is about all other pairs.
* `prf_refused` (`dtls-crypto.c:157`): `dtls-crypto.h:202-203` promises "the actual
  number of bytes written to buf or 0 on error". With the second context refused the
  return value is the full length and nothing is written. `PrfComplete` says that the
  output is never half-written.

Three other behaviours are exceptions in a passing property, which does not fail on
them:

* Replayed nodes are removed from the reorder queue and never freed
  (`dtls.c:5008`): `PoolConserved` counts them as lost, and the pool runs dry.
* A message whose length is a positive multiple of `DTLS_MAX_HS_PAYLOAD` has no last
  fragment (`dtls.c:1754`): `HasLastFragments`, the premise of `TranscriptsAgree`.
* A `get_psk_info` that fails for the hint ends the handshake (`dtls.c:2632-2636`),
  while the comment at `dtls.c:2628-2629` says that the hint is optional and the result
  ignored: `Outcome` leaves such a server out.

Two are covered, and the property would notice if the code were changed:

* The receiver counts packets instead of reading the index (`dtls.c:5340`):
  `AcceptedIsPrevious` holds nevertheless, but a lost packet makes the next check fail.
* A renegotiating client that has lost the other parameters retransmits
  ClientKeyExchange and ChangeCipherSpec in the clear (`dtls.c:5781`);
  `FinishedSealed` says that Finished and data are not affected.

## 5. Proofs

The theorems hold for all values of the constants that satisfy the `ASSUME`s of the
module, which say that sizes and bounds are natural numbers, and

* `Handshake`: `NFrag >= 2`; `Suites`: suites have names;
* `Sha2`: a block is longer than what its padding keeps for the length, and not
  shorter than a digest;
* `Cff`: `1 <= tb2 < k2sn_t`; `Limbs`: `Base > 1`, and the number of sets of component
  keys is at most `Base ^ (Top + 1)`, as C(262, 131) is below 2^320;
* `Mss`: `hlength` is even and at least 4 (16 in the program), and below the number
  `Infy` that stands for an infinite height;
* `Ots`: the sizes of `create_L_tree` (`Spare` and `k2sn_t` even,
  `0 < 2 * Spare < k2sn_t`), and `tb2 < 2^ByteBits`, which is 131 < 256.

A run shows each property on a small
instance; the theorem says that no size, number of messages, keys or connections
makes a difference. Each module of proofs has the same layout: an inductive
invariant, lemmas about the operators of the model, one lemma for each action, the
theorems.

| Theorem | Property | Invariant |
|---|---|---|
| `HandshakeProofs!TypeCorrect` | `TypeOK` of `Handshake` | `TypeOK` |
| `AgreementProofs!Agreement` | `ImplementsAgreement` | `EngineInv` |
| `AgreementProofs!KeyedSending` | `KeyedWhenConnected` | `EngineInv` |
| `AgreementProofs!Secured` | `AlwaysSecured` | `EngineInv` |
| `AgreementProofs!TimersNotDangling` | `NoDanglingTimer` | `EngineInv` |
| `AgreementProofs!EstablishedData` | `DataFromEstablished` | `EngineInv` |
| `AgreementProofs!ClosingStays` | `ClosingIsFinal` (action) | `EngineInv` |
| `AgreementProofs!ReorderBuffer` | `ReorderBufferAhead` | `OrderInv` |
| `AgreementProofs!Transcripts` | `TranscriptInOrder` | `OrderInv` |
| `RecordsProofs!NoncesUsedOnce` | `NonceOnce` | `RecordsInv` |
| `RecordsProofs!SealedInSession` | `FinishedSealed` | `RecordsInv` |
| `RecordsProofs!EpochsAdvance` | `EpochAdvances` (action) | `RecordsInv` |
| `RecordsProofs!TranscriptsMatch` | `TranscriptsAgree` | `RecordsInv` and `TranscriptInv` |
| `NetqProofs!PoolKept` | `PoolConserved` | `NetqInv` |
| `NetqProofs!TimerInTime` | `NotLate` | `NetqInv` |
| `SuitesProofs!ServerIsAuthenticated` | `ServerAuthenticated` | `SuitesInv` |
| `SuitesProofs!ClientIsAuthenticated` | `ClientAuthenticated` | `SuitesInv` |
| `SuitesProofs!ServerChoosesFirst` | `ServerChoice` | `SuitesInv` |
| `SuitesProofs!PairHasOneSession` | `PairAgrees` | `SuitesInv` and `PairInv` |
| `TeslaProofs!MacKeyUndisclosed` | `MacKeySecret` | `IInv` |
| `TeslaProofs!AcceptedAuthentic` | `AcceptedIsPrevious` | `PacketInv` |
| `TeslaProofs!StoreStaysInStep` | `StoreInStep` | `FifoInv` |
| `K2snProofs!TypeCorrect`, `TableRespected`, `KeysDistinct` | `TypeOK`, `StaysInTable`, `KeysAscend` | `IInv` |
| `K2snProofs!MessageGetsNthSet` | `NthSet` | `IInv /\ Counted` |
| `K2snProofs!LongNumbersExact` | `LimbsExact` | `IInv` |
| `K2snProofs!TreeHashInBounds` | `InstancesInBounds` | `InstancesInv` |
| `K2snProofs!TreeHashInTime` | `FinishedInTime` (action) | `TreeInv` |
| `K2snProofs!SignaturesVerify` | `SignatureVerifies` | `TreeInv` |
| `K2snProofs!LeavesCoverKeys` | `LeafCoversKeys` | `LeafInv` |
| `K2snProofs!OneTimeSignaturesVerify` | `OneTimeVerifies` | `OtsInv` |
| `PrimitivesProofs!TranscriptIsStream` | `ImplementsStream` | the context and its text |
| `PrimitivesProofs!HmacIsCorrect` | `HmacCorrect` | `HmacInv` |
| `PrimitivesProofs!PrfIsComplete` | `PrfComplete` | `PrfInv` |
| `PrimitivesProofs!CcmIsExact` | `CcmExact` | `CcmInv` |

**The engine: `HandshakeProofs`.** `TypeOK` is inductive as it
stands, because the histories, the queues and the reorder buffers are typed by the
same record sets as the messages they come from. There is one lemma for each operator
that builds a message, a peer or a queue, one for each handler (they share
`HandlerTypes`, the part of `TypeOK` that handlers change), one for each action.

**The engine: `AgreementProofs`.** That `Handshake` implements `SessionAgreement`
needs that each step which completes a session has the right to. `EngineInv` says
where that right is kept:

* a client that has not sent its Finished has a random that no offer has used, and
  one that can still confirm has not confirmed; the same for the server's random and
  what it accepted. Randoms are drawn freshly, and `Counted` ties them to the sessions.
* a Finished is evidence: one that is under way, queued for retransmission or
  waiting in the reorder buffer (`Sound`) belongs to a session that its sender has
  offered or accepted.
* the parameters a peer has in each state are those of the session that state is
  about; a server that waits for the Finished has those of the next epoch. This is
  `KeyedWhenConnected` and `AlwaysSecured`.
* each message type goes to one side, and each state belongs to one role; without
  this a client could be driven through the server's states by its own messages.
* application data is sealed under a key of the sender's completed sessions, and a
  send queue that is not empty belongs to a peer that lives.

Each handler is one lemma about a peer and a message (`Handling`), whatever was read
from freed storage; replay of the reorder buffer uses the same lemmas.

**The order of messages: `AgreementProofs`.** `OrderInv` relates the counters `mseq_r` and
`mseq_s`, the reorder buffer and the transcript: the entries of each side in the
transcript ascend and are below that side's counter, the buffer has nothing below
`mseq_r` and no number twice, and is empty without handshake parameters. Between
taking a message out of the datagram and its handler's end the counter is one behind,
which is the predicate `Ready`.

**Records: `RecordsProofs`.** `RecordsInv` has two halves. `Phase` lists what may
stand in `todo` together with the state and the keys of the peer, and the kept nodes:
before a switch there is no Finished in the queue, so a kept Finished is always of
the current epoch. `SecInv` and `PairInv` say that the counter of a set of parameters
is ahead of every record of its epoch, that nothing was sent in a later epoch than
the current, and that a key seals records of one epoch, one connection and one role.
That two records have different nonces then follows. Records in the clear before a
connection (HelloVerifyRequest) are separate, as they carry the numbers of no
parameters.

`TranscriptInv` follows one message through the loop that cuts it. While fragments
are left, what was hashed is what the other side has put together plus the header of
this message, and the receiver is at the offset that the sender has reached; at its
end both are equal. A message whose length is a multiple of the payload has no last
fragment and stays open: `Endless` says that such a message is in the transcript, and
nothing more is claimed then.

**Queues: `NetqProofs`.** `NetqInv` is `PoolConserved` and `NotLate` with the types,
the finiteness of the set of stored nodes and the order of the send queue. The order
is what makes one timer suffice: the head is due first, so setting the timer for it
is soon enough for the rest. `Delay` and `Kept` recurse over a queue; what
they compute is proved with the least counterexample.

**Negotiation: `SuitesProofs`.** `SuitesInv` gives to each state of the client and of
the server the checks that were made on the way to it: a certificate the application
accepted, a signature over both randoms and the ephemeral key, the client's
signature. It holds for both kinds of behaviours, that is also against a foreign
peer that sends anything at any time. `Choice` says that the suite of a server is
the first one in the hello that it supports, or without a list the one in use; list
and extensions are arbitrary.

`PairInv` is about two peers of this library, and follows them through the handshake:
what each state of one admits in the other, what the two channels hold (`ToClientPair`,
`ToServerPair`), that the server's randoms in messages under way ascend, and that the
client's suite is the one the server chose once it has the server's present random.
From a client that has claimed a session (`Claim`) and a server that is connected it
follows that they have one master secret, suite and identity.

**TESLA: `TeslaProofs`.** For `MacKeySecret` the invariant
says that nothing of a chain is disclosed before the chain exists
(`NoFutureKey`), that of the chain of the last MAC only lower keys are known
(`BelowMacKey`), and that of the client's present chain only keys below
`int_index - 1` are known, while `tsync` has the commitment of that very chain (`BelowIndex`). The
last part is what a renegotiation needs, where the chain changes and the index does
not, and a reconnection, where the index starts again but with no chain. The network
and the receiver do not occur in the argument.

For `AcceptedIsPrevious` the invariant `PacketInv` adds that for each chain the
number of a packet minus the index of its key is one constant, wherever the packet
is: on its way, stored, or about to be written. A packet whose MAC verifies under the
disclosed key has the index before it, hence the number before it. Nothing is assumed
of the network. `StoreInStep` speaks of a network that has kept order so far
(`faults = 0`); `FifoInv` says that the server's channel then leads, packet by packet
and session by session, from the stored packet to the last one written. Nothing is
proved of packets of different lengths, for which the check fails (section 4).

**Cover-free family: `K2snProofs`.** `cff()` has no test
that keeps it inside its table. It stays there because of the inductive invariant

* `Table`: zeros above the diagonal, ones on the borders, Pascal's rule in the rows
  filled so far;
* `Left`: while a key is looked for, what is left of the message is smaller than
  `binoTab[k2sn_t-q][tb2-i] + binoTab[k2sn_t-q][tb2-i+1]`, the number of ways to
  choose the missing keys from those not looked at;
* `Found`: the keys found ascend and lie behind `q`.

Skipping a key subtracts the first term, taking one drops the second; Pascal's rule
gives the bound for the next row. In row 0 the bound is at most 1, so nothing is left
to skip. That message number n gets the n-th set (`NthSet`) is the invariant
`Counted`: the message is what is left of it plus the number of sets that come before
every set beginning with the keys found so far. Skipping a key passes the sets that
begin with these keys and that one, and the cell subtracted is their number
(`TableCounts`: cell (n, m) of a full table is the number of sets of m keys among n,
by the least row for which it is not). Since the number of a set determines the
message, no two messages share their component keys.

**Long numbers: `K2snProofs`.** A number of limbs has one value, and the value grows
with the first limb that differs from above; so `isgteq` compares values. `sub` and
`add` are followed limb by limb, with what has been borrowed or carried so far as part
of the statement. All numbers that `cff()` handles are below the number of sets of keys
(`NthSet` and `TableCounts`), hence below `Weight[Top + 1]`.

**Merkle tree: `K2snProofs`.** For the bounds: heights on a TreeHash stack descend
strictly and lie below the height of the instance, so there are at most that many
(`InstancesInv`). For the paths, `TreeInv` says while the tree is built (`Growing`) that
the stack holds the nodes of the binary representation of the number of leaves, and
which nodes of the path and of the instances have been taken from it; while it
signs (`Signing`) that `auth` is the path of the next key, `keep` has the left nodes
that later paths need, each instance computes the right node that is due next, from
the leaves under it in order, and all of them are in time.

That they are in time is the hard part, as the instances share
`updateiter = hlength / 2 - 1` leaves per signature. `Due(j, n)` is the signature that
takes the node of instance j; `Need` counts twice the leaves that any instance can
still get before j is finished: lower ones are served first and start again each time
their node is taken, higher ones get a turn only until their lowest node is as high
as j. The sum of these needs is at most `2 * updateiter` for each signature left
(`InTime`). A turn takes 2 from both sides; a signature takes and restarts the instances
below the height of its lowest left node, all of which have finished by `InTime` with
no signature left. A restarted instance has just enough, whatever the height.

**Leaf: `K2snProofs`.** Each node of `create_L_tree` is over a segment of keys: nodes
already computed in the present layer over segments of that layer, the others of the
array still over those of the layer below (`Building`). `Border` is where the keys of
the second layer begin to come directly. A pad is used in the order of trees, layers
and nodes, and two places of that order give different pads (`PadsDiffer`), so counting
hashes counts pads.

**One-time signature: `K2snProofs`.** Packing in nine bits is exact (`PackingBack`): the
two halves of an element lie in bits of two bytes that no other element uses. A sum of
`tb2` bits fits its byte (`SumFits`). What the map makes of the sum of the first m keys of
the set is, modulo p, the sum of what it makes of each (`SumOfMapped`); as both sides are
reduced once more their differences are 0. Streams and coefficients enter only as bits
and natural numbers.

**Primitives: `PrimitivesProofs`.** For the transcript, the buffer of a context holds
the bytes of the text after its last full block and the chaining value is that of the
full blocks; the refinement of `StreamHash` takes the text as its mapping. HMAC: `pad` is
the inner key block, then after the second exclusive or the outer one. PRF: after k turns
the buffer holds the first k digests of the output and `A` is A(k + 1) (`Turn`); a call
that does not get both contexts leaves only zeros.

CCM (`CcmIsExact`, for every length of block, MAC, counter, message and additional data)
has a state invariant per phase. While additional data are authenticated, what is left of
them is the end of the padded text from a block on (`Left`) and `X` is the CBC-MAC of the
blocks before it (`Value`); after j blocks of the message, `pos`, the counter and `X`
stand at block j and `msg` holds the stream-ciphered bytes before `pos` and the input
behind it (`AfterBlocks`, `Done`). `B` is free, which is why the partial block needs
`FillB`: its bytes behind the message become those of `X`, so that the next `X` is that
of the block padded with zeros (`FinishStep`). The last step compares MACs. AES is a
one-to-one term, and no byte of an input holds an AES image, so a CBC-MAC can be read
backwards: its value tells the last block and the value before it, and so the additional
data and every byte of a message of that length (`TagTells`). The verdict then goes by
what became of the record (`Verdict`): unchanged, a byte of the message or of the MAC
flipped, or cut short, which puts a byte of the message where the MAC should begin. Like every statement about a keyed function as a term, this says
nothing of the probability of a collision in the 8 bytes of a real MAC.

**Only model-checked.**

* Liveness under fairness: `FirstFlightsRecover`, `GivenUp`, `Outcome`.
* `Ntp`, and the properties of the violated runs, which do not hold.

The library's induction theorems take the statement as an operator, which the provers
cannot be given. What recursive functions compute (`P_hash`, `FlattenSeq`, `Weight`,
`Value`, `SumOver`, `PathRoot`, `Climb`, the table of `Cff`) is proved with a set of
numbers in its place: by its least counterexample, or by a set that holds 0 and with m
holds m + 1.

## 6. What is not modelled

* AES, SHA-3, ECC, the compression function of SHA-256, ChaCha20's rounds and
  SWIFFT's number-theoretic transform: word arithmetic and tables without control,
  where a small instance says nothing about the real one. The header with the tables
  of the transform (`swifft-avx2-16.h`) is not in the repository. SHA-384 and SHA-512
  are not compiled in.
* The server's half of the ECDHE-ECDSA suite, which is commented out; the handlers
  for it are in `Suites`.
* A replay window: the library has none.
* Byte layout beyond what is said above, logging, sockets, options, random numbers.
* More than one client: the posix build has no limit on peers, Contiki has one.
* Wrap-around of the tick counter; rounding of doubles; clock skew between the sides.
* A foreign peer of `Suites` sends no messages of the other role; `Handshake` has
  those under way in the wrong direction only if the library sends them.
* The verdicts of `ksnmss_verify` and of the TESLA check have no effect in the code:
  they are printed. `ksnmss_verify` compares sums of bytes where `Mss` compares
  nodes: a path that is wrong in the model is refused but for coincidences of that sum.
* NTP functions that only `ntptest.c` calls; `isgt`, `iseq`, `isleeq` and `subone` of
  `1cff.c`, which nobody calls.

Known, and without a run of its own:

* Every handshake of a client signs with one-time key 0 (`dtls.c:3037`) but the tree
  is made when it connects: on a renegotiation the path is that of another key.
  `SignatureVerifies` is about keys used in order.
* 1500 keys are announced, 1000 exist and the index is not bounded (`dtls.c:549`,
  `tesla.h:20`, `dtls-peer.h:56`, `Tesla!ReadKey`); milliseconds lose a factor of a
  million (`ntp.c:200`, `Ntp!NTP_fromMillis`).
* `check_server_hello` does not look at the extensions it is sent (`dtls.c:3538`); a
  ServerKeyExchange before the ServerHello is accepted (`dtls.c:4188`), without
  effect on `ServerAuthenticated`; a no_renegotiation warning closes the connection
  (`dtls.c:5131`).
* The reassembly buffer is not freed with its handshake; `dtls_renegotiate` loses the
  handshake parameters it overwrites; `dtls_free_context` leaves the send queue; a
  half-open peer ignores the hello of a restarted client; the first packet after a
  renegotiation cannot authenticate the last one before it.

## 7. Plan

What could be added:

* `Netq` with a clock of limited width, several clients at one server, and `Records`
  composed with `Netq`, each as a module with a run of its own.
* The symmetry of the two endpoints' timers: a proof that a retransmission which finds
  other parameters than those it was queued under is never opened (now in `NonceOnce`
  and `FinishedSealed` only for what is sent).
