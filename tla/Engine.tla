------------------------------- MODULE Engine -------------------------------
(***************************************************************************)
(* Two parts of the engine that Handshake abstracts from, side by side:    *)
(* the packet queues with their timer and the negotiation of a suite.      *)
(* They share no state (a queued node is a message, whatever is in it), so *)
(* a behaviour is about one of them.                                       *)
(***************************************************************************)
EXTENDS Netq, Suites

VARIABLE aspect     \* "queues" or "suites"; never changes

evars == <<netqvars, svars, aspect>>

\* Beside the queues stand applications without callbacks, which do nothing.
EngineInit ==
    /\ NetqInit /\ Init
    /\ aspect \in {"queues", "suites"}
    /\ aspect = "queues" =>
           /\ conf = [mode |-> "pair", cb |-> [e \in Endpoint |-> {}],
                      hint |-> "none", identity |-> "known"]

EngineNext ==
    \/ aspect = "queues" /\ NetqNext /\ UNCHANGED <<svars, aspect>>
    \/ aspect = "suites" /\ Next /\ UNCHANGED <<netqvars, aspect>>

\* The clock goes on and the timer's callback is called; the application
\* connects, and a message that has arrived is handled.
EngineFairness ==
    /\ WF_evars(aspect = "queues" /\ Tick /\ UNCHANGED <<svars, aspect>>)
    /\ WF_evars(aspect = "queues" /\ Fire /\ UNCHANGED <<svars, aspect>>)
    /\ WF_evars(aspect = "suites" /\ StartHello /\ UNCHANGED <<netqvars, aspect>>)
    /\ \A e \in Endpoint :
           WF_evars(aspect = "suites" /\ Deliver(e) /\ UNCHANGED <<netqvars, aspect>>)

EngineSpec == EngineInit /\ [][EngineNext]_evars /\ EngineFairness
=============================================================================
