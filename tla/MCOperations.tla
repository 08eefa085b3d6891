---- MODULE MCOperations ----
EXTENDS Operations

CONSTANTS h1, h2, p1

UpTo(S, n) == UNION {[1..k -> S] : k \in 0..n}

Items == {<<1>>, <<2>>, <<1, 2>>, <<2, 1>>, <<3>>, <<JUNK>>}
Ranges == {[first |-> 1, last |-> 1], [first |-> 1, last |-> 2]}
AboutPorts ==
    {[about |-> "ports", value |-> v, other |-> [word |-> "list", items |-> t]] :
        v \in UpTo(Ranges, 2), t \in {<<i>> : i \in Items}}

Terms == {[key |-> "vlan", value |-> "10"], [key |-> "srcPort", value |-> "80"],
          [key |-> "srcPortRange", value |-> "bad"], [key |-> "dscp", value |-> "10"]}
AboutOthers == {[about |-> "others", terms |-> t, time |-> w] :
                   t \in UpTo(Terms, 2), w \in {"malformed", "noon"}}

Rule(action, protocol, dst, ports) ==
    [action |-> action, protocol |-> protocol, src |-> "h1", dst |-> dst, ports |-> ports]
Policies == UpTo({ Rule("allow", "icmp", "h2", ANY), Rule("deny", "tcp", "h2", ANY),
                   Rule("deny", "icmp", "h2", ANY), Rule("deny", "icmp", "h2", "some"),
                   [Rule("deny", "icmp", "n2", ANY) EXCEPT !.src = "n1"] }, 2)
AboutDeny == {[ about |-> "deny", policy |-> p, scope |-> s,
                spokes |-> << [host |-> "h1", subnet |-> "n1"], [host |-> "h2", subnet |-> "n2"] >> ] :
                 p \in Policies, s \in {"host", "subnet"}}

Candidates == {[up |-> u, peers |-> n] : u \in {0, 1}, n \in {1, 2, JUNK}}
Criteria == {[attribute |-> "up", atLeast |-> FALSE, value |-> 1],
             [attribute |-> "peers", atLeast |-> TRUE, value |-> 2],
             [attribute |-> "speed", atLeast |-> FALSE, value |-> 1]}
AboutCandidates ==
    {[about |-> "candidates", candidates |-> c, criteria |-> k, vocabulary |-> {"up", "peers"}] :
        c \in UpTo(Candidates, 2), k \in UpTo(Criteria, 2)}

Spokes == {s \in UpTo({[name |-> n, model |-> m, hub |-> h] :
                          n \in 1..4, m \in {"mx1", "mx2"}, h \in {"x", "y"}}, 3) :
              \A i, j \in DOMAIN s : i # j => s[i].name # s[j].name}
AboutRoles == {[about |-> "roles", candidates |-> s, model |-> "mx1"] : s \in Spokes}

Intervals(starts) == {[i \in 1..k |-> <<f[i], f[i] + 1, i>>] : k \in 1..3, f \in starts}
AboutLife == {[about |-> "life", intervals |-> l, summary |-> s] :
                 l \in Intervals({f \in [1..3 -> 0..5] : f[1] < f[2] /\ f[2] < f[3]}),
                 s \in BOOLEAN}

Line(literals, py) == [literals |-> literals, py |-> py, allow |-> FALSE, inTests |-> FALSE,
                       signedOff |-> FALSE]
Lines == {Line({}, TRUE), Line({HOST}, TRUE)}
Raw == {[mark |-> m, dashes |-> d, n |-> "b.py", quotes |-> q, line |-> l] :
           m \in {"+", "-", " "}, d \in BOOLEAN, q \in BOOLEAN, l \in Lines}
Kept == {r \in Raw : /\ r.mark = " " => ~r.dashes
                     /\ r.mark # "+" => r.line.literals = {}
                     /\ r.dashes => ~r.quotes}
AboutDiff == {[about |-> "diff", path |-> "a.py", first |-> 3, body |-> b] : b \in UpTo(Kept, 3)}

Net(family, low, high) == [family |-> family, low |-> low, high |-> high]
Nets == {Net("4", 0, 7), Net("4", 5, 5), Net("4", 1, 2), Net("4", 6, 6), Net("6", 5, 5),
         Net("malformed", 0, 0)}
AboutDecoy == {[about |-> "decoy", inUse |-> n, decoy |-> Net("4", 4, 5)] : n \in SUBSET Nets}

Processes == {[pid |-> p, log |-> l] : p \in 1..2, l \in {"x", "y"}}
Details == {[defined |-> s, peer_states |-> p] :
               s \in {"n1", "n2"}, p \in [{"hub", "spoke"} -> DOMAIN VPN_PEER_STATES]}
AboutOne(recs) == {[about |-> "records", a |-> a, b |-> b] : a \in recs, b \in recs}
AboutRecords == AboutOne({IperfSession(a, b) : a \in Processes, b \in Processes})
                  \cup AboutOne({FlowPair(a, b) : a \in {"f", "g"}, b \in {"f", "g"}})
                  \cup AboutOne({HomeVerification("all hold", d) : d \in Details})

AboutSize == {[about |-> "size", quarters |-> q] : q \in -1..40}

Endpoints == {[family |-> "4", host |-> "a"], [family |-> "4", host |-> "b"],
              [family |-> "6", host |-> "c"]}
Selectors(protocols, ports) ==
    {[dst |-> d, src |-> <<>>, protocol |-> p, port |-> n] :
        d \in Endpoints \cup {[family |-> "malformed", host |-> "a"]}, p \in protocols, n \in ports}
Headers == {[family |-> d.family, src |-> "s", dst |-> d.host, dscp |-> v] :
               d \in Endpoints, v \in {0, 46}}
Marked(h, t) == [headers |-> h, transports |-> t]
Plain == {Marked(<<x>>, t) : x \in Headers, t \in {{}, {<<"udp", 5>>}, {<<"tcp", 5>>}}}
Nested == {Marked(<<x, y>>, {<<"udp", 5>>}) : x \in Headers, y \in Headers}
AboutFrames ==
    {[about |-> "frames", flow |-> f, beside |-> g, frames |-> s] :
        f \in Selectors({<<>>, <<"udp">>, <<"icmp">>}, {<<>>, <<5>>}),
        g \in {s \in Selectors({<<>>}, {<<>>}) : s.dst.host = "c"},
        s \in {<<x, Marked(<<y>>, {<<"udp", 5>>})>> :
                  x \in Plain \cup Nested, y \in {h \in Headers : h.dscp = 46}}}

AboutResponse == {[about |-> "response", eol |-> e, headers |-> h, rest |-> b] :
                     e \in {CRLF, LF}, h \in 0..2, b \in UpTo({CRLF, LF, "word"}, 4)}

AboutDriver == UNION {{[about |-> "driver", archetype |-> a, against |-> b, lacks |-> l] :
                          b \in Archetypes, l \in Members(a)} : a \in Archetypes}
AboutClass == {[about |-> "class", class |-> [extends |-> a, declares |-> d], name |-> n] :
                  a \in {"QoeMeasurementClientDevice", "TftpDevice"}, n \in {"linux_tftp", "own"},
                  d \in UNION {[s -> FORMS] : s \in SUBSET {"pcap", "syslog", "extra", "device_name"}}}

Number(n) == [number |-> n]
Object(f) == [object |-> f]
JunkValue == [text |-> "12"]
Summaries(key) == {JunkValue, Object(<<>>), Object(key :> JunkValue), Object(key :> Number(2))}
Counts == Summaries("retransmits") \cup {Object("retransmits" :> Number(INFINITE))}
Stream(lowest, mean) == Object("sender" :> Object(("min_rtt" :> lowest) @@ ("mean_rtt" :> mean)))
Streams == {Stream(Number(1), Number(3)), Stream(Number(3), Number(INFINITE)), Stream(Number(2), Number(2)),
            Stream(Number(1), JunkValue), Stream(JunkValue, Number(3)), JunkValue}
StreamLists == {JunkValue} \cup {[list |-> s] : s \in UpTo(Streams, 2)}
Ends == {[sum_received |-> a, sum |-> b, sum_sent |-> c, streams |-> d] :
            a \in Summaries("bits_per_second"), b \in Summaries("bits_per_second"),
            c \in Counts, d \in StreamLists}
Documents == {Object("end" :> Object(e)) : e \in Ends}
               \cup {Object(("end" :> Object(<<>>)) @@ ("error" :> e)) :
                        e \in {Number(0), Object(<<>>), NULL, [bool |-> TRUE], JunkValue}}
               \cup {Object(("end" :> Object([sum_sent |-> s])) @@ ("error" :> JunkValue)) :
                        s \in Counts}
Earlier == Object("end" :> Object("sum" :> Object("bits_per_second" :> Number(9))))
AboutLog == {[about |-> "log", docs |-> d] :
                d \in {<<x>> : x \in Documents} \cup {<<Earlier, x>> : x \in Documents}}

Optional == {<<>>, <<4>>}
AboutPath == {[about |-> "path", spec |-> s,
               options |-> [probe_rate_mbps |-> 1, probe_duration_s |-> 3, measure_duration_s |-> d,
                            omit_s |-> o, window |-> w, parallel |-> p]] :
                 s \in {<<>>} \cup {<<[name |-> "upload", reverse |-> r]>> : r \in BOOLEAN},
                 d \in {3, 10}, o \in {0, 2}, w \in Optional, p \in Optional}

Entries == {VpnSubnet(s, a) : s \in {"n1", "n2"}, a \in BOOLEAN}
Home == VlanConfig(1, "n1", "g1")
Defined == {<<>>, 1 :> Home, 1 :> VlanConfig(1, "n1", "g2"), 1 :> VlanConfig(1, "n2", "g1"),
            2 :> VlanConfig(2, "n1", "g1")}
Peers == {VpnPeerStatus(n, s) : n \in {"hub", "spoke"}, s \in {"REACHABLE", "UNKNOWN"}}
Lists == {<<e, p>> \in UpTo(Entries, 3) \X UpTo(Peers, 2) : Len(e) + Len(p) <= 3}
AboutHome == {[about |-> "home", vlan |-> Home, vlans |-> v, advertise |-> a,
               cfg |-> SiteToSiteVpnConfig("spoke", l[1]), peers |-> l[2]] :
                 v \in Defined, a \in BOOLEAN, l \in Lists}

MCQuestions ==
    UNION { AboutPorts, AboutOthers, AboutDeny, AboutCandidates, AboutRoles, AboutLife, AboutDiff,
            AboutDecoy, AboutRecords, AboutSize, AboutFrames, AboutResponse, AboutDriver,
            AboutClass, AboutLog, AboutPath, AboutHome }
====
