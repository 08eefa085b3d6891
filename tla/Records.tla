---- MODULE Records ----
(***************************************************************************)
(* What a test reads of records: a record that replaced a released dict    *)
(* (_released.py, and the records of iperf_client.py, iperf_generator.py   *)
(* and homing.py), a window size (_compat.py), the frames of a flow by     *)
(* their marking (marking_observation.py), and an HTTP response            *)
(* (testprotocols/models/networking.py).                                   *)
(***************************************************************************)
EXTENDS Readers

----------------------------------------------------------------------------
\* _released.py. A record is [type, fields]; a dict is [type |-> "dict", items].

IperfSession(sender, receiver) ==
    [type |-> "IperfSession", fields |-> [sender |-> sender, receiver |-> receiver]]
FlowPair(aToB, bToA) == [type |-> "FlowPair", fields |-> [a_to_b |-> aToB, b_to_a |-> bToA]]

\* The text of a peer's state.
VPN_PEER_STATES == [REACHABLE |-> "reachable", UNREACHABLE |-> "unreachable", UNKNOWN |-> "unknown"]
HomeDetails(details) ==
    [details EXCEPT !.peer_states = [p \in DOMAIN @ |-> VPN_PEER_STATES[@[p]]]]
HomeVerification(facts, details) ==
    [type |-> "HomeVerification", fields |-> [facts |-> facts, details |-> details]]

Released(record) ==
    CASE record.type = "IperfSession" ->
             [ sender_pid |-> record.fields.sender.pid, sender_log |-> record.fields.sender.log,
               receiver_pid |-> record.fields.receiver.pid,
               receiver_log |-> record.fields.receiver.log ]
      [] record.type = "FlowPair" -> record.fields
      [] record.type = "HomeVerification" ->
             [facts |-> record.fields.facts, details |-> HomeDetails(record.fields.details)]

\* record == other
Equals(record, other) ==
    IF other.type = "dict" THEN Released(record) = other.items
    ELSE record.type = other.type /\ record.fields = other.fields

----------------------------------------------------------------------------
\* _compat.py. A size text is [quarters, suffix]: its number in quarters, -1 for
\* what is no number, and its unit.

SIZE_UNITS == [none |-> 1, k |-> 1024, m |-> 1024 * 1024]
ParseWindowSize(text) ==
    LET size == (text.quarters * SIZE_UNITS[text.suffix]) \div 4
    IN IF text.quarters < 0 \/ size <= 0 THEN RAISES ELSE Ok(size)

----------------------------------------------------------------------------
\* marking_observation.py. A frame is [headers, transports]: its IP headers,
\* outermost first, each [family, src, dst, dscp], and its <<transport, port>>
\* pairs. A selector is [dst, src, protocol, port], the last three optional.

ValidSelector(s) ==
    /\ s.port # <<>> => s.protocol \in {<<"tcp">>, <<"udp">>}
    /\ s.dst.family # "malformed"
    /\ s.src # <<>> => s.src[1].family = s.dst.family

PROTOCOL_TOKENS == [tcp |-> "tcp", udp |-> "udp", icmp |-> "icmp", icmp6 |-> "icmpv6"]
FlowFilter(s) ==
    LET token == IF s.protocol # <<>> /\ s.protocol[1] \in DOMAIN PROTOCOL_TOKENS
                 THEN <<PROTOCOL_TOKENS[s.protocol[1]]>> ELSE <<>>
    IN {[field |-> "dst", of |-> s.dst.family, is |-> s.dst.host]}
         \cup {[field |-> "src", of |-> s.dst.family, is |-> s.src[i].host] : i \in DOMAIN s.src}
         \cup {[field |-> "protocol", of |-> token[i], is |-> ""] : i \in DOMAIN token}
         \cup {[field |-> "dstport", of |-> token[1], is |-> s.port[i]] :
                  i \in IF token = <<>> THEN {} ELSE DOMAIN s.port}

\* The tool that reads the capture: a clause holds of any occurrence of its
\* field, a column shows the first one.
Shows(frame, clause) ==
    CASE clause.field = "dst" ->
             \E h \in ToSet(frame.headers) : h.family = clause.of /\ h.dst = clause.is
      [] clause.field = "src" ->
             \E h \in ToSet(frame.headers) : h.family = clause.of /\ h.src = clause.is
      [] clause.field = "protocol" -> \E t \in frame.transports : t[1] = clause.of
      [] clause.field = "dstport" -> <<clause.of, clause.is>> \in frame.transports
Columns(frame) ==
    LET First(family) ==
            LET at == SelectInSeq(frame.headers, LAMBDA h : h.family = family)
            IN IF at = 0 THEN <<>> ELSE <<frame.headers[at].dscp>>
    IN [ v4 |-> First("4"), v6 |-> First("6"),
         chain |-> <<"eth">> \o [i \in DOMAIN frame.headers |->
                                    IF frame.headers[i].family = "4" THEN "ip" ELSE "ipv6"] ]

\* The outermost of the two when both columns are filled; <<>> without either.
LineDscp(line) ==
    IF line.v4 # <<>> /\ line.v6 # <<>>
    THEN LET at == SelectInSeq(line.chain, LAMBDA token : token \in {"ip", "ipv6"})
         IN IF at # 0 /\ line.chain[at] = "ipv6" THEN line.v6 ELSE line.v4
    ELSE line.v4 \o line.v6

\* Per flow, how many of its frames carry each value.
ObserveFlowDscp(flows, frames) ==
    [ f \in DOMAIN flows |->
        LET lines == SelectSeq(frames, LAMBDA fr : \A c \in FlowFilter(flows[f]) : Shows(fr, c))
        IN FoldLeft(LAMBDA histogram, fr : histogram (+) SetToBag(ToSet(LineDscp(Columns(fr)))),
                    EmptyBag, lines) ]

----------------------------------------------------------------------------
\* models/networking.py, HTTPResult. A response is what follows its status
\* line: CRLF and LF, and words between them.

CRLF == "crlf"
LF == "lf"
Blank(text) ==
    LET crlfs == {i \in 1..(Len(text) - 1) : text[i] = CRLF /\ text[i + 1] = CRLF}
    IN IF crlfs # {} THEN crlfs
       ELSE {i \in 1..(Len(text) - 1) : text[i] \in {CRLF, LF} /\ text[i + 1] = LF}
ParseResponse(text) ==
    LET crlf == SelectInSeq(text, LAMBDA t : t = CRLF)
        at == IF crlf # 0 THEN crlf ELSE SelectInSeq(text, LAMBDA t : t = LF)
        From(s, i) == SubSeq(s, i, Len(s))
        rest == IF at = 0 THEN <<>> ELSE From(text, at + 1)
    IN IF Blank(rest) # {} THEN From(rest, Min(Blank(rest)) + 2)
       ELSE IF rest # <<>> /\ rest[1] \in {CRLF, LF} THEN Tail(rest) ELSE rest
====
