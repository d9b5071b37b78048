-------------------------------- MODULE Ntp --------------------------------
(***************************************************************************)
(* The time arithmetic of ntp.c and the TESLA safety test built on it      *)
(* (dtls.c, application data): may the sender already have disclosed the   *)
(* key of the packet that arrives?  The receiver is the server, and the    *)
(* clocks of both sides agree.  A double is an exact rational, kept as a   *)
(* multiple of 1/FRAC_MAX.                                                 *)
(***************************************************************************)
EXTENDS Integers

CONSTANTS
    FRAC_MAX,   \* microseconds of a second (10^6 in the program)
    Milli,      \* milliseconds of a second (1000)
    StartDelay, \* rtt_temp2: the delay of T_start, in milliseconds (2000)
    MaxHellos,  \* bound: handshakes
    MaxClock,   \* bound: the last instant, in microseconds
    MaxIndex    \* bound: the last interval index

VARIABLES
    clock,      \* the time, in microseconds
    hellos,     \* hellos of the server so far
    t_R,        \* when the server sent its hello
    T_start,    \* tsync.T_start
    rtt,        \* ctx->rtt, in milliseconds
    int_index,  \* the index the receiver takes for the packet
    verdict     \* history: the last safety test

vars == <<clock, hellos, t_R, T_start, rtt, int_index, verdict>>

None == [tv_sec |-> -1, tv_usec |-> 0]

-----------------------------------------------------------------------------
(* ntp.c                                                                   *)

\* gettimeofday()
timeval(us) == [tv_sec |-> us \div FRAC_MAX, tv_usec |-> us % FRAC_MAX]

\* The macro: the seconds are divided, the microseconds are not.
NTP_TO_DOUBLE(a) == a.tv_sec + FRAC_MAX * a.tv_usec

\* The reference: a time as a number of microseconds.
Micros(a) == FRAC_MAX * a.tv_sec + a.tv_usec

\* A cast to an integer rounds towards zero.  The cast of a negative double to
\* uint64_t goes through the signed conversion of x86-64, the only machine the
\* program builds for (immintrin.h).
Toward0(x, n) == IF x >= 0 THEN x \div n ELSE -((-x) \div n)

\* The integer part becomes seconds, the rest microseconds.
Truncate(x) ==
    LET s == Toward0(x, FRAC_MAX)
    IN [tv_sec |-> s, tv_usec |-> x - s * FRAC_MAX]

NTP_sub(a, b) == Truncate(NTP_TO_DOUBLE(a) - NTP_TO_DOUBLE(b))

\* The carry is taken at 2^32 microseconds, which no sum reaches; a negative
\* sum of microseconds borrows a second and stays negative.
NTP_add(a, b) ==
    LET frac == a.tv_usec + b.tv_usec
    IN [tv_sec |-> a.tv_sec + b.tv_sec - (IF frac < 0 THEN 1 ELSE 0), tv_usec |-> frac]

\* The milliseconds are taken for seconds, weighed by the macro and divided.
NTP_fromMillis(m) ==
    LET s == Toward0(m, Milli * FRAC_MAX)
    IN [tv_sec |-> s, tv_usec |-> Toward0(m - s * Milli * FRAC_MAX, Milli)]

-----------------------------------------------------------------------------
(* The receiver                                                            *)

Init ==
    /\ clock = 0 /\ hellos = 0
    /\ t_R = None /\ T_start = None
    /\ rtt = 0
    /\ int_index = 0
    /\ verdict = [t |-> 0, t_s |-> None, T_0 |-> None, safe |-> TRUE]

Tick ==
    /\ clock < MaxClock
    /\ clock' = clock + 1
    /\ UNCHANGED <<hellos, t_R, T_start, rtt, int_index, verdict>>

\* The server sends its hello and notes the time.
Hello ==
    /\ hellos < MaxHellos
    /\ hellos' = hellos + 1
    /\ t_R' = timeval(clock)
    /\ UNCHANGED <<clock, T_start, rtt, int_index, verdict>>

\* ctx->rtt, as the integer it is cast to wherever it is used.
Discrepancy(t_S) == Toward0(Milli * NTP_TO_DOUBLE(NTP_sub(t_S, t_R)), FRAC_MAX)

\* The ClientKeyExchange made now brings the sender's time, from which the
\* server measures ctx->rtt, and the start of the session.  One key exchange
\* follows a hello, so that t_R is not read again.
Synchronise ==
    /\ t_R # None
    /\ LET t_S == timeval(clock) IN
       /\ rtt' = Discrepancy(t_S)
       /\ T_start' = NTP_add(t_S, NTP_fromMillis(StartDelay))
    /\ t_R' = None
    /\ UNCHANGED <<clock, hellos, int_index, verdict>>

\* A packet: the test, and the answer of the application, which counts it.
Receive ==
    /\ T_start # None
    /\ LET t_s == NTP_add(timeval(clock), NTP_fromMillis(rtt))
           test1 == NTP_TO_DOUBLE(NTP_sub(t_s, T_start))
       IN verdict' = [t |-> int_index, t_s |-> t_s, T_0 |-> T_start,
                      safe |-> test1 <= 2 * (int_index + 1) * FRAC_MAX]
    /\ int_index' \in {int_index, int_index + 1} \cap 0..MaxIndex
    /\ UNCHANGED <<clock, hellos, t_R, T_start, rtt>>

Next == Tick \/ Hello \/ Synchronise \/ Receive

Spec == Init /\ [][Next]_vars

-----------------------------------------------------------------------------
(* Properties *)

\* The last instant at which the key of the packet is certainly not disclosed.
Limit == Micros(verdict.T_0) + 2 * (verdict.t + 1) * FRAC_MAX

\* "Packet is safe iff x < i+d": a packet that the test calls safe arrives, by
\* the t_s that the test itself computes, before the sender may disclose its key.
SafeIsInTime == verdict.t_s # None /\ verdict.safe => Micros(verdict.t_s) <= Limit
=============================================================================
