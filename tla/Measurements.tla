---- MODULE Measurements ----
(***************************************************************************)
(* What a rated measurement of throughput.py asks for and what it reads:   *)
(* the flows of a path round, on a testbed-managed path and towards an     *)
(* external endpoint, and the facts in the last document of an iperf3 log. *)
(*                                                                         *)
(* A JSON value is a record of one field, named for what the value is: a   *)
(* number, an object (a function), a list, a text, a bool or a null.       *)
(* json.loads reads a rate, an RTT or a count of Infinity too: INFINITE is *)
(* that number, above every other. A missing fact is <<>>, a fact that is  *)
(* there <<fact>>; OVERFLOW is what a reader gives that raises.            *)
(***************************************************************************)
EXTENDS Integers, SequencesExt

----------------------------------------------------------------------------
INFINITE == 1000000
OVERFLOW == <<"raises", "OverflowError">>

\* The narrowers: what has not the shape asked for reads as absent.
NULL == [null |-> 0]
Is(value, shape) == shape \in DOMAIN value
Obj(value) == IF Is(value, "object") THEN value.object ELSE <<>>
Elements(value) == IF Is(value, "list") THEN value.list ELSE <<>>
Num(value) == IF Is(value, "number") THEN <<value.number>> ELSE <<>>
At(object, key) == IF key \in DOMAIN object THEN object[key] ELSE NULL

\* The documents are those that iter_json_docs found; only the last one counts.
End(docs) == IF docs = <<>> THEN <<>> ELSE Obj(At(Obj(docs[Len(docs)]), "end"))
Rate(end, key) == Num(At(Obj(At(end, key)), "bits_per_second"))

\* The receive-side goodput, else the summary of a UDP session.
LastSessionMbps(docs) ==
    IF Rate(End(docs), "sum_received") # <<>> THEN Rate(End(docs), "sum_received")
    ELSE Rate(End(docs), "sum")
\* A count is an int: an infinite one cannot be converted to it and raises.
LastSessionRetransmits(docs) ==
    LET count == Num(At(Obj(At(End(docs), "sum_sent")), "retransmits"))
    IN IF count = <<INFINITE>> THEN OVERFLOW ELSE count

\* The minimum of the minima, and the sum and the number of the means.
Total(numbers) == IF INFINITE \in ToSet(numbers) THEN INFINITE ELSE FoldLeft(+, 0, numbers)
Samples(docs, field) ==
    LET streams == Elements(At(End(docs), "streams"))
    IN FlattenSeq([i \in DOMAIN streams |-> Num(At(Obj(At(Obj(streams[i]), "sender")), field))])
LastSessionRttMs(docs) ==
    LET mins == Samples(docs, "min_rtt")
        means == Samples(docs, "mean_rtt")
    IN IF mins = <<>> \/ means = <<>> THEN <<>>
       ELSE << [ min |-> Min(ToSet(mins)), sum |-> Total(means), of |-> Len(means) ] >>

\* The value of "error" when Python takes it for true.
FALSY == { NULL, [object |-> <<>>], [list |-> <<>>], [number |-> 0], [text |-> ""],
           [bool |-> FALSE] }
LastSessionError(docs) ==
    LET error == IF docs = <<>> THEN NULL ELSE At(Obj(docs[Len(docs)]), "error")
    IN IF error \in FALSY THEN <<>> ELSE <<error>>

----------------------------------------------------------------------------
\* measure_external_flow, once its client's log is what it is at the deadline.

NonCompletion(side, what) == [which_side |-> side, what |-> what]
FlowThroughput(port, rate, rtt, retransmits) ==
    [port |-> port, bps |-> rate, rtt |-> rtt, retransmits |-> retransmits]

\* The data sender of a reverse flow is the endpoint, whose kernel nobody reads.
ExternalFacts(flow, docs) ==
    IF LastSessionError(docs) # <<>> THEN NonCompletion("endpoint", "error_document")
    ELSE IF LastSessionMbps(docs) = <<>> THEN NonCompletion("unknown", "no_completed_session")
    ELSE IF LastSessionRetransmits(docs) = OVERFLOW THEN [raises |-> OVERFLOW]
    ELSE FlowThroughput(flow.port, LastSessionMbps(docs)[1],
                        IF flow.reverse THEN <<>> ELSE LastSessionRttMs(docs),
                        LastSessionRetransmits(docs))

----------------------------------------------------------------------------
\* The flow of a round and its duration: with `spec` <<>> the unloaded probe,
\* else the direction spec[1]. An option that is not given is left out.

DEFAULTS == [reverse |-> FALSE, omit_s |-> 0, bandwidth_mbps |-> <<>>,
             parallel |-> <<>>, window |-> <<>>]
Asks(given, duration) == [flow |-> given @@ DEFAULTS, duration_s |-> duration]

\* Capped, and never pinned or multiplied into streams.
ProbeFlow(port, o) ==
    Asks([managed |-> TRUE, port |-> port, bandwidth_mbps |-> <<o.probe_rate_mbps>>],
         o.probe_duration_s)
MeasureOneDirection(port, reverse, o) ==
    Asks([ managed |-> TRUE, port |-> port, reverse |-> reverse, omit_s |-> o.omit_s,
           window |-> o.window, parallel |-> o.parallel ], o.measure_duration_s)

PathFlow(port, spec, o) ==
    IF spec = <<>> THEN ProbeFlow(port, o) ELSE MeasureOneDirection(port, spec[1].reverse, o)
ExternalPathFlow(port, spec, o) ==
    IF spec = <<>>
    THEN Asks([managed |-> FALSE, port |-> port, bandwidth_mbps |-> <<o.probe_rate_mbps>>],
              o.probe_duration_s)
    ELSE Asks([ managed |-> FALSE, port |-> port, reverse |-> spec[1].reverse,
                parallel |-> o.parallel, omit_s |-> o.omit_s, window |-> o.window ],
              o.measure_duration_s)
====
