-------------------------- MODULE SessionAgreement --------------------------
(***************************************************************************)
(* What the DTLS handshake promises, without messages, timers or states.   *)
(* A session is a pair of a key (the two randoms under the shared PSK) and *)
(* a transcript of the handshake that produced it.  The client offers a    *)
(* session with its Finished, the server accepts an offered one with its   *)
(* own Finished, the client confirms an accepted one.  No key is offered   *)
(* or accepted twice, so a replayed handshake is never a new session.      *)
(***************************************************************************)
VARIABLES offered, accepted, confirmed

absvars == <<offered, accepted, confirmed>>

Init ==
    /\ offered = {}
    /\ accepted = {}
    /\ confirmed = {}

FreshKey(s, S) == \A t \in S : t.key # s.key

Offer(s) ==
    /\ FreshKey(s, offered)
    /\ offered' = offered \cup {s}
    /\ UNCHANGED <<accepted, confirmed>>

Accept(s) ==
    /\ s \in offered
    /\ FreshKey(s, accepted)
    /\ accepted' = accepted \cup {s}
    /\ UNCHANGED <<offered, confirmed>>

Confirm(s) ==
    /\ s \in accepted
    /\ s \notin confirmed
    /\ confirmed' = confirmed \cup {s}
    /\ UNCHANGED <<offered, accepted>>

Next ==
    \/ \E s \in offered' : Offer(s)
    \/ \E s \in offered : Accept(s)
    \/ \E s \in accepted : Confirm(s)

Spec == Init /\ [][Next]_absvars
=============================================================================
