----------------------------- MODULE MeasureFn ------------------------------
(***************************************************************************)
(* What a measurement promises the operations that are handed one (the     *)
(* MeasureFn protocol and the docstring of measure_concurrent_throughput,  *)
(* packages/testoperations/src/testoperations/throughput.py), whatever     *)
(* logs, clocks and retries it is made of:                                 *)
(*                                                                         *)
(*  - it answers once: a list of rows, ordered like the flows, or one      *)
(*    exception and no row at all;                                         *)
(*  - a row is of sessions that have completed in this call, read on the   *)
(*    side that observed them; a rate it cannot have is a NonCompletion,   *)
(*    and one is raised for the first flow that lacks it, after every flow *)
(*    before it had its own;                                               *)
(*  - when it answers it has stopped what it started, but for the stops    *)
(*    that failed and the process a driver error kept it from registering; *)
(*  - flows that share a port are refused before anything is started.      *)
(***************************************************************************)
EXTENDS Integers, Sequences

CONSTANTS
    N,      \* how many flows the call measures
    Ports   \* port numbers a flow may carry

Flow == 1..N
Proc == {"rx", "tx"} \X Flow
Kind == {"rated", "unrated"}

VARIABLES
    flows,      \* the flows argument
    wrote,      \* the kinds of document each process wrote for this call
    running,    \* the processes that run on the hosts
    refused,    \* those whose stop failed
    answer,     \* how the call ended, "pending" before
    rows        \* the rows of a call that returned

vars == <<flows, wrote, running, refused, answer, rows>>

Init ==
    /\ flows \in [Flow -> [port : Ports, reverse : BOOLEAN]]
    /\ wrote = [p \in Proc |-> {}]
    /\ running = {} /\ refused = {}
    /\ answer = [kind |-> "pending", at |-> <<"none", 0>>]
    /\ rows = <<>>

UniquePorts == \A f, g \in Flow : flows[f].port = flows[g].port => f = g

\* Rate from the data-receiving side's own log, RTT from the data-sending side's.
Receiving(f) == <<IF flows[f].reverse THEN "tx" ELSE "rx", f>>
Sending(f) == <<IF flows[f].reverse THEN "rx" ELSE "tx", f>>

Rated(p) == "rated" \in wrote[p]
Session(p) == [proc |-> p, own |-> TRUE, kind |-> "rated"]
NoDoc == [proc |-> "none"]

\* The server of a flow confirms it, and in reverse the client as well.
Confirmed(f) == Rated(<<"rx", f>>) /\ Rated(Receiving(f))

\* A forward flow degrades to a row without RTT.
RowsOf(f) ==
    {[port |-> flows[f].port, rate |-> Session(Receiving(f)), rtt |-> rtt] :
        rtt \in {Session(p) : p \in {q \in {Sending(f)} : Rated(q)}}
                \cup IF flows[f].reverse THEN {} ELSE {NoDoc}}

-----------------------------------------------------------------------------
\* The call starts processes and stops them; a failed stop is remembered.
Drive ==
    /\ answer.kind = "pending" /\ UniquePorts
    /\ running' \in SUBSET Proc
    /\ refused \subseteq refused' /\ refused' \subseteq Proc
    /\ UNCHANGED <<flows, wrote, answer, rows>>

\* A running process ends its one session; a client exits with it.  The hosts do
\* not wait for the call: this happens before the answer and after it.
Finish(p, kind) ==
    /\ p \in running /\ wrote[p] = {}
    /\ wrote' = [wrote EXCEPT ![p] = {kind}]
    /\ running' \in {running, running \ {p}}
    /\ UNCHANGED <<flows, refused, answer, rows>>

\* The last thing the call does; an exception brings no rows.
Answer(kind, p) ==
    /\ answer.kind = "pending"
    /\ answer' = [kind |-> kind, at |-> p]
    /\ running' \subseteq running
    /\ refused \subseteq refused' /\ refused' \subseteq Proc
    /\ UNCHANGED <<flows, wrote>>

StoppedAll == running' \subseteq refused'

\* ValueError: nothing has been started.
Refuse ==
    /\ ~UniquePorts /\ running = {} /\ wrote = [p \in Proc |-> {}]
    /\ Answer("value_error", <<"none", 0>>)
    /\ UNCHANGED <<running, refused, rows>>

Return ==
    /\ UniquePorts
    /\ Answer("returned", <<"none", 0>>)
    /\ StoppedAll
    /\ \A f \in Flow : Confirmed(f)
    /\ Len(rows') = N /\ \A f \in Flow : rows'[f] \in RowsOf(f)

\* NonCompletion: of a receiver, or of the client of a reverse flow.
NonComplete(f) ==
    /\ UniquePorts
    /\ \A g \in 1..(f - 1) : Confirmed(g)
    /\ \/ Answer("noncompletion", <<"rx", f>>)
       \/ /\ flows[f].reverse /\ Rated(<<"rx", f>>)
          /\ Answer("noncompletion", <<"tx", f>>)
    /\ StoppedAll
    /\ UNCHANGED rows

\* A driver call raised: at most its own process is left that was not stopped.
Raise(p) ==
    /\ UniquePorts
    /\ Answer("driver_error", p)
    /\ running' \ refused' \subseteq {p}
    /\ UNCHANGED rows

Next ==
    \/ Drive \/ Refuse \/ Return
    \/ \E p \in Proc : Raise(p) \/ \E kind \in Kind : Finish(p, kind)
    \/ \E f \in Flow : NonComplete(f)

Spec == Init /\ [][Next]_vars
=============================================================================
