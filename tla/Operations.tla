---- MODULE Operations ----
(***************************************************************************)
(* The operations of a test: those that act on devices (Sessions), one after *)
(* another, and what is read of records, texts, logs, configurations and   *)
(* archetypes (Records, Readers, Measurements, OverlayConfig, Archetypes), *)
(* asked once at the start.                                                *)
(***************************************************************************)
EXTENDS Sessions, OverlayConfig, Archetypes, Measurements

CONSTANTS Questions,  \* [about, ...], by what they are about
          NoQuestion

VARIABLE asked

Ask == /\ ops = 0 /\ asked = NoQuestion
       /\ asked' \in Questions
       /\ UNCHANGED vars

OpsInit == Init /\ asked = NoQuestion
OpsNext == (asked = NoQuestion /\ Next /\ UNCHANGED asked) \/ Ask
OpsSpec == OpsInit /\ [][OpsNext]_<<vars, asked>>

----------------------------------------------------------------------------
\* The same value reads the same from either form and from both, also where the
\* text of a filled typed field is another, or was left at the default of its
\* record, which says any port; no text reads as that default.
FormsAgree(value, other) ==
    LET spelled == IF value = <<>> THEN Word(ANY)
                   ELSE [ word |-> "list", items |->
                            [i \in DOMAIN value |-> IF value[i].first = value[i].last
                                                    THEN <<value[i].first>>
                                                    ELSE <<value[i].first, value[i].last>>] ]
        Rule(given) == FirewallRule(<<Word(ANY)>>, given)
        Agree(Read(_), New(_)) ==
            /\ Read(New([text |-> <<spelled>>])) = Ok(value)
            /\ Read(New([typed |-> <<value>>, text |-> <<other>>])) = Ok(value)
            /\ Read(New([typed |-> <<value>>, text |-> <<>>])) = Ok(value)
            /\ Read(New([typed |-> <<value>>])) = Ok(value)
            /\ Read(New(<<>>)) = Ok(<<>>)
    IN /\ Agree(FirewallRuleDstPorts, Rule) /\ FirewallRuleDstPorts(FirewallRule(<<>>, <<>>)) = RAISES
       /\ Agree(NatRulePorts, NatRule) /\ NatRulePorts(NatRule([text |-> <<>>])) = Ok(<<>>)
       /\ Agree(L3RulePorts, L3Rule) /\ L3RulePorts(L3Rule([text |-> <<>>])) = Ok(<<>>)

\* A classifier reads the same from both forms, whatever the order of its terms;
\* an event's time too, and a text that repeats a key is never a classifier.
OthersAgree(terms, time) ==
    LET classifier == {<<Group(t.key), t.value>> : t \in ToSet(terms)}
        Repeats == Cardinality({Group(t.key) : t \in ToSet(terms)}) < Len(terms)
        text == QosRuleClassifier(QosRule(<<terms>>, <<>>))
        Time(spelled, given) == SecurityEventTimestamp(SecurityEvent(spelled, given))
        typed == Time(<<>>, [typed |-> <<time>>])
    IN /\ text = QosRuleClassifier(QosRule(<<Reverse(terms)>>, <<>>))
       /\ text # RAISES /\ text # Ok({}) =>
             /\ ~Repeats
             /\ text = QosRuleClassifier(QosRule(<<>>, [typed |-> <<classifier>>]))
       /\ Time(<<time>>, <<>>) = IF time = "malformed" THEN RAISES ELSE typed
       /\ Time(<<time>>, [typed |-> <<"noon">>]) = Ok(<<"noon">>)
       /\ Time(<<EMPTY>>, <<>>) = Time(<<>>, <<>>)

\* A rule of some shape is found again in a policy that holds it. What is found
\* denies the protocol between the two addresses, the first to do so: it is the
\* rule itself, or one that denies no more of it than some ports.
DenyIsFound(policy, scope, spokes) ==
    LET rule == BuildDenyRule(scope, "icmp", spokes[1], spokes[2])
        at == FindMatchingDeny(policy, rule)
        Denies(r) == [r EXCEPT !.ports = ANY] = rule
    IN /\ rule \in ToSet(policy) => at # 0
       /\ at = 0 => \A i \in DOMAIN policy : ~Denies(policy[i])
       /\ at # 0 => /\ Denies(policy[at]) /\ \A i \in 1..(at - 1) : ~Denies(policy[i])
                    /\ policy[at] = rule \/ policy[at].ports # ANY

\* The first candidate in the caller's order that meets every criterion, judged
\* whole; when there is none, every candidate is accounted for.
OneCandidate(candidates, criteria, vocabulary) ==
    LET answer == SelectOne(candidates, criteria, vocabulary)
        Meets(i) == \A j \in DOMAIN criteria :
                       CriterionMatches(criteria[j], candidates[i][criteria[j].attribute])
    IN answer # RAISES =>
          IF answer[1] = 0 THEN /\ Len(answer[2]) = Len(candidates)
                                /\ \A i \in DOMAIN candidates : ~Meets(i)
          ELSE Meets(answer[1]) /\ \A i \in 1..(answer[1] - 1) : ~Meets(i)

\* The roles of a topology do not depend on the order it was discovered in, are
\* three spokes, and share a hub (select_roles: "for determinism").
RolesAreStable(candidates, model) ==
    LET roles == SelectRoles(candidates, model)
        Reversed == Reverse(candidates)
        Rotated == IF candidates = <<>> THEN <<>> ELSE Tail(candidates) \o <<candidates[1]>>
    IN /\ roles = SelectRoles(Reversed, model) /\ roles = SelectRoles(Rotated, model)
       /\ roles # RAISES => /\ Cardinality({roles[i].name : i \in 1..3}) = 3
                            /\ Cardinality({roles[i].hub : i \in 1..3}) = 1
                            /\ roles[1].model = model

\* The record of a run is that of its intervals: their number and bytes, and
\* the holes between them. The summary below them, when printed, is not in it
\* (sender_life_record: "is recognized ... and is excluded"), but that of a run of
\* one interval is: it has the span of the interval, the fallback keeps both, and
\* the run counts twice, which the docstring does not say.
LifeIsWhole(intervals, summary) ==
    LET n == Len(intervals)
        log == IF summary THEN Append(intervals, <<intervals[1][1], intervals[n][2],
                                                   SumOfSizes(intervals)>>)
               ELSE intervals
        record == SenderLifeRecord(log, 0)
        CountedTwice == n = 1 /\ summary
        times == IF CountedTwice THEN 2 ELSE 1
    IN n > 0 => /\ record.intervals = times * n /\ record.bytes = times * SumOfSizes(intervals)
                /\ record.gaps = {<<intervals[i][2], intervals[i + 1][1]>> :
                                     i \in {j \in 1..(n - 1) : intervals[j][2] < intervals[j + 1][1]}}

HOST == [kind |-> "hostname", network |-> "", prose |-> TRUE]

\* Every added line of a file is found once, at its own line number, unless a
\* removed `-- ` line stands before an added `++ ` line: those two read as the
\* headers of another file. Between triple quotes, as far as the hunk shows, a
\* host name counts in any file.
LinesAreFound(path, first, body) ==
    LET header(mark, of) == [mark |-> mark, dashes |-> TRUE, n |-> of, quotes |-> FALSE]
        diff == <<header("-", path), header("+", path),
                  [mark |-> "@", dashes |-> FALSE, n |-> first, quotes |-> FALSE]>> \o body
        Place(i) == first + Cardinality({j \in 1..(i - 1) : body[j].mark # "-"})
        Odd(m) == Cardinality({j \in 1..m : body[j].mark # "-" /\ body[j].quotes}) % 2 = 1
        Prose(i) == Odd(i - 1) \/ body[i].quotes
        added == SelectSeq([i \in DOMAIN body |-> i], LAMBDA i : body[i].mark = "+")
        found == AddedLines(diff)
        taken == \E i \in 1..(Len(body) - 1) : /\ body[i].mark = "-" /\ body[i].dashes
                                               /\ body[i + 1].mark = "+" /\ body[i + 1].dashes
    IN ~taken => /\ \A i \in DOMAIN body :
                       /\ body[i].mark = "+" /\ Odd(i - 1) /\ path \notin SELF_EXEMPT_PATHS
                       /\ ~body[i].line.allow /\ HOST \in body[i].line.literals
                       => \E hit \in ScanDiff(diff) : hit[2] = Place(i) /\ HOST \in hit[3]
                 /\ Len(found) = Len(added)
                 /\ \A k \in DOMAIN added :
                       found[k] = <<path, Place(added[k]), Prose(added[k]), body[added[k]].line>>

\* The decoy collides with whatever overlaps it either way, and a network that
\* cannot be read is never passed over.
DecoyIsChecked(inUse, decoy) ==
    LET answer == DeriveDecoyTarget(inUse, decoy)
        Shared(n) == n.family = "4" /\ (n.low..n.high) \cap (decoy.low..decoy.high) # {}
    IN answer = Ok({}) => \A n \in inUse : n.family # "malformed" /\ ~Shared(n)

\* A record reads as the dict it replaced: two records of one type are equal
\* exactly when they replace the same dict, so what equals one dict is equal.
RecordsAreDicts(a, b) ==
    LET dict(r) == [type |-> "dict", items |-> Released(r)]
    IN /\ Equals(a, dict(a))
       /\ a.type = b.type => /\ Equals(a, b) <=> Equals(a, dict(b))
                             /\ Equals(a, b) <=> Equals(b, a)

\* A size says the same in every unit that it is a whole number of, and what is
\* cut off of a fraction is less than a byte.
SizesAgree(quarters) ==
    LET Size(q, suffix) == ParseWindowSize([quarters |-> q, suffix |-> suffix])
    IN IF quarters <= 0 THEN \A u \in {"none", "k", "m"} : Size(quarters, u) = RAISES
       ELSE /\ Size(quarters, "m") = Size(quarters * 1024, "k")
            /\ Size(quarters, "k") = Size(quarters * 1024, "none")
            /\ LET bytes == Size(quarters, "none")
               IN IF quarters < 4 THEN bytes = RAISES
                  ELSE bytes[2] * 4 <= quarters /\ quarters < bytes[2] * 4 + 4

\* Each frame of a flow is counted once, by the header that is outermost on it,
\* whatever flows are read beside it: no flow is taken for absent for being of
\* the other family (observe_flow_dscp).
FramesCountOnce(flow, other, frames) ==
    LET Of(h) == h.dst = flow.dst.host /\ h.family = flow.dst.family
        mine == {i \in DOMAIN frames :
                    /\ \E h \in ToSet(frames[i].headers) : Of(h)
                    /\ flow.protocol # <<>> =>
                          \E t \in frames[i].transports :
                             /\ t[1] = flow.protocol[1]
                             /\ flow.port = <<>> \/ t[2] = flow.port[1]}
        read == ObserveFlowDscp(<<flow, other>>, frames)[1]
        values == {h.dscp : h \in UNION {ToSet(fr.headers) : fr \in ToSet(frames)}}
    IN ValidSelector(flow) /\ ValidSelector(other) =>
         /\ \A v \in values : (IF BagIn(v, read) THEN read[v] ELSE 0)
                               = Cardinality({i \in mine : frames[i].headers[1].dscp = v})
         /\ BagToSet(read) \subseteq values

\* The body of a response is what follows its headers, in either line end,
\* unless its lines end in LF and a CRLF stands in it, or it has no header and
\* a blank line stands in what follows.
BodyIsFound(eol, headers, body) ==
    LET text == <<eol>> \o FlattenSeq([i \in 1..headers |-> <<"header", eol>>]) \o <<eol>> \o body
    IN /\ eol = LF => CRLF \notin ToSet(body)
       /\ headers = 0 => Blank(<<eol>> \o body) = {}
       => ParseResponse(text) = body

\* A driver written for one archetype passes for it and for those it extends,
\* and for no other: no archetype's members are another's by chance; without
\* one of its members it passes for none that has it.
DriversAreTold(a, b, lacks) ==
    /\ Satisfies(Members(a), b) <=> b \in Ancestors(a)
    /\ Satisfies(Members(a) \ {lacks}, b) => lacks \notin Members(b)

\* A class of a test bed's own takes a name or is refused as a whole: it is
\* refused when it declares a scalar, or a property that it does not inherit as
\* a capability.
ClassIsGated(before, class, name) ==
    LET registry == RegisterDeviceType(before, name, class)
        Drifts == {m \in DOMAIN class.declares \ IDENTITY :
                      \/ class.declares[m] = "scalar"
                      \/ class.declares[m] = "property" /\ m \notin Members(class.extends)}
    IN IF Drifts # {} THEN registry = before
       ELSE /\ Members(class.extends) \subseteq GetDeviceType(registry, name)[1]
            /\ \A n \in DOMAIN before \ {name} :
                  GetDeviceType(registry, n) = GetDeviceType(before, n)

\* So every name of the table serves the drivers of its archetype.
ClassesAreGated(class, name) ==
    /\ \A i \in DOMAIN REGISTRATIONS :
          GetDeviceType(Registry, REGISTRATIONS[i][1]) = <<Members(REGISTRATIONS[i][2])>>
    /\ ClassIsGated(Registry, class, name)

\* A fact of a log comes of the last document, and of its own part of it: a part
\* that is not what it should be costs that fact and no other, and a missing
\* receive summary falls back on the other. The samples of the streams are one
\* fact whatever their order, the least of them no more than their mean. A
\* document with an error gives no row, and the direction changes the RTT alone.
FactsAreRead(docs) ==
    LET last_doc == Obj(docs[Len(docs)])
        keys == DOMAIN End(docs)
        With(end) == << [object |-> [last_doc EXCEPT !["end"] = [object |-> end]]] >>
        Spoiled(key) == With([End(docs) EXCEPT ![key] = [text |-> "bad"]])
        facts_of(d) == <<LastSessionMbps(d), LastSessionRttMs(d), LastSessionRetransmits(d)>>
        OWNER == [sum_received |-> 1, sum |-> 1, streams |-> 2, sum_sent |-> 3]
        rtt == LastSessionRttMs(docs)
        streams == Elements(At(End(docs), "streams"))
        Row(reverse) == ExternalFacts([port |-> 1, reverse |-> reverse], docs)
    IN /\ facts_of(docs) = facts_of(<<docs[Len(docs)]>>)
       /\ \A key \in keys :
             /\ \A f \in (1..3) \ {OWNER[key]} : facts_of(Spoiled(key))[f] = facts_of(docs)[f]
             /\ key \in {"streams", "sum_sent"} => facts_of(Spoiled(key))[OWNER[key]] = <<>>
             /\ key = "sum_received" => LastSessionMbps(Spoiled(key)) = Rate(End(docs), "sum")
       /\ "streams" \in keys =>
             rtt = LastSessionRttMs(With([End(docs) EXCEPT !["streams"] =
                                            [list |-> Reverse(streams)]]))
       /\ rtt # <<>> => rtt[1].of > 0
       /\ rtt # <<>> /\ rtt[1].sum # INFINITE
            /\ Len(Samples(docs, "min_rtt")) = Len(Samples(docs, "mean_rtt"))
            => rtt[1].min * rtt[1].of <= rtt[1].sum
       /\ LastSessionRetransmits(docs) = OVERFLOW
             <=> At(Obj(At(End(docs), "sum_sent")), "retransmits") = [number |-> INFINITE]
       /\ \A reverse \in BOOLEAN :
             "bps" \in DOMAIN Row(reverse) => /\ LastSessionError(docs) = <<>>
                                              /\ Row(reverse).rtt = IF reverse THEN <<>> ELSE rtt
                                              /\ Row(FALSE) = [Row(reverse) EXCEPT !.rtt = rtt]

\* Both chains ask for the same flows ("Identical framing"), the probe is the
\* same whatever its round saturates with, and only the probe is capped.
ChainsAgree(spec, options) ==
    LET ask == PathFlow(1, spec, options)
        plain == [options EXCEPT !.window = <<>>, !.parallel = <<>>, !.omit_s = 0]
    IN /\ ExternalPathFlow(1, spec, options) = [ask EXCEPT !.flow.managed = FALSE]
       /\ (ask.flow.bandwidth_mbps # <<>>) <=> (spec = <<>>)
       /\ spec = <<>> => ask = PathFlow(1, <<>>, plain) /\ ~ask.flow.reverse
       /\ spec # <<>> => ask.flow = [PathFlow(1, spec, plain).flow EXCEPT
                                        !.window = options.window, !.parallel = options.parallel,
                                        !.omit_s = options.omit_s]

\* What set_subnet_advertised makes of a configuration: the entries of the others
\* keep their place and their flags, one entry is added at most, the home reads as
\* verified accordingly and by nothing else, and what it made it would not change.
SubnetIsSet(vlan, vlans, cfg, peers, advertise) ==
    LET changed == Written(cfg, ChangeSubnet(cfg, vlan.subnet, advertise))
        Facts(c) == VerifyHome(vlan, vlans, c, peers).fields.facts
    IN /\ \A i \in DOMAIN cfg.subnets :
             /\ changed.subnets[i].subnet = cfg.subnets[i].subnet
             /\ cfg.subnets[i].subnet # vlan.subnet => changed.subnets[i] = cfg.subnets[i]
       /\ Len(changed.subnets) = Len(cfg.subnets)
                                   + IF advertise /\ ~Has(cfg, vlan.subnet) THEN 1 ELSE 0
       /\ changed.role = cfg.role
       /\ Facts(changed) = [Facts(cfg) EXCEPT !.subnet_advertised = advertise]
       /\ ChangeSubnet(changed, vlan.subnet, advertise) = <<>>

\* Both changes of the overlay say of the subnet what Homing has them say, and a
\* home reads as verified accordingly.
HomeIsRead(vlan, vlans, cfg, peers, advertise) ==
    LET entry(c, s) == IF ~Has(c, s) THEN "absent"
                       ELSE IF VpnSubnet(s, TRUE) \in ToSet(c.subnets) THEN "on" ELSE "off"
        others(c) == SelectSeq(c.subnets, LAMBDA s : s.subnet # vlan.subnet)
        set == SetAdvertise(cfg, vlan.subnet, advertise)
        changed == Written(cfg, ChangeSubnet(cfg, vlan.subnet, advertise))
        Facts(c) == VerifyHome(vlan, vlans, c, peers).fields.facts
    IN /\ entry(set, vlan.subnet) = IF advertise THEN "on" ELSE "absent"
       /\ entry(changed, vlan.subnet) =
             IF advertise THEN "on" ELSE IF Has(cfg, vlan.subnet) THEN "off" ELSE "absent"
       /\ others(set) = others(cfg) /\ set.role = cfg.role
       /\ Facts(set) = [Facts(cfg) EXCEPT !.subnet_advertised = advertise]
       /\ SubnetIsSet(vlan, vlans, cfg, peers, advertise)
       /\ Facts(cfg).vlan_defined <=> \E id \in DOMAIN vlans : vlans[id] = vlan
       /\ Facts(cfg).peers_reachable =>
             LET states == VerifyHome(vlan, vlans, cfg, peers).fields.details.peer_states
             IN DOMAIN states # {} /\ \A n \in DOMAIN states : states[n] = "REACHABLE"

Asked(about) == asked # NoQuestion /\ asked.about = about

\* What replaced a released form says what it said: a port text, a classifier or
\* a time reads as its typed field does (pairs.py), a record as its dict
\* (_compat.py, models).
RecordsReadAlike ==
    /\ Asked("ports") => FormsAgree(asked.value, asked.other)
    /\ Asked("others") => OthersAgree(asked.terms, asked.time)
    /\ Asked("records") => RecordsAreDicts(asked.a, asked.b)

\* What a test runs on is chosen right: the candidate, the roles, the rule that
\* stands in a policy and the decoy network (selection.py, segmentation.py).
ChoicesAreRight ==
    /\ Asked("candidates") =>
           OneCandidate(asked.candidates, asked.criteria, asked.vocabulary)
    /\ Asked("roles") => RolesAreStable(asked.candidates, asked.model)
    /\ Asked("deny") => DenyIsFound(asked.policy, asked.scope, asked.spokes)
    /\ Asked("decoy") => DecoyIsChecked(asked.inUse, asked.decoy)

\* What a device's output says is what is read of it: interval reports, iperf3
\* documents, window sizes, captured frames and HTTP responses, whole or not.
OutputsAreRead ==
    /\ Asked("life") => LifeIsWhole(asked.intervals, asked.summary)
    /\ Asked("log") => FactsAreRead(asked.docs)
    /\ Asked("size") => SizesAgree(asked.quarters)
    /\ Asked("frames") => FramesCountOnce(asked.flow, asked.beside, asked.frames)
    /\ Asked("response") => BodyIsFound(asked.eol, asked.headers, asked.rest)

\* The neutrality scan misses no added line of a diff and names it by its place
\* (scripts/neutrality_scan.py).
DiffsAreScanned == Asked("diff") => LinesAreFound(asked.path, asked.first, asked.body)

\* What is asked of a device is what was meant: the flows of a round on either
\* path (throughput.py), and an overlay configuration that says of one subnet
\* what it should and of the others what it said (homing.py).
RequestsAreRight ==
    /\ Asked("path") => ChainsAgree(asked.spec, asked.options)
    /\ Asked("home") => HomeIsRead(asked.vlan, asked.vlans, asked.cfg, asked.peers, asked.advertise)

\* A driver passes for the archetypes whose members it has, inherited ones
\* included, and a class that is no archetype takes no name (devices).
ArchetypesAreTold ==
    /\ Asked("driver") => DriversAreTold(asked.archetype, asked.against, asked.lacks)
    /\ Asked("class") => ClassesAreGated(asked.class, asked.name)
====
