---- MODULE Readers ----
(***************************************************************************)
(* The pure readers of the operations: a field in its released or its      *)
(* typed form (pairs.py), the candidate or the roles a test runs on        *)
(* (selection.py, segmentation.py), a sender's log (iperf_client.py), and  *)
(* the added lines of a diff (scripts/neutrality_scan.py).                 *)
(*                                                                         *)
(* An optional value is <<>> or <<value>>; RAISES is what a reader gives   *)
(* that raises.                                                            *)
(***************************************************************************)
EXTENDS Integers, FiniteSets, SequencesExt

CONSTANTS MAX_PORT

RAISES == <<"raises">>
Ok(value) == <<"ok", value>>

----------------------------------------------------------------------------
\* pairs.py. A port text is ANY, EMPTY or a sequence of items, <<first>> or
\* <<first, last>>, of integers and JUNK (a number outside the ports).

ANY == "any"
EMPTY == ""
JUNK == -1
PortNumber(n) == n \in 1..MAX_PORT
PortItem(item) == /\ \A i \in DOMAIN item : PortNumber(item[i])
                  /\ item[1] <= item[Len(item)]
PortRange(item) == [first |-> item[1], last |-> item[Len(item)]]

\* A port text is [word, items]: the word ANY or EMPTY, or "list".
ParsePortRanges(text) ==
    IF text.word = ANY THEN Ok(<<>>)
    ELSE IF text.word = EMPTY \/ \E i \in DOMAIN text.items : ~PortItem(text.items[i]) THEN RAISES
    ELSE Ok([i \in DOMAIN text.items |-> PortRange(text.items[i])])
ParseNatPortRanges(text) == IF text.word = EMPTY THEN Ok(<<>>) ELSE ParsePortRanges(text)

Word(w) == [word |-> w, items |-> <<>>]
\* `parse` is the parser: "nat" for the one that reads EMPTY as no port.
PortsOf_TextFirst(typed, text, unset, parse) ==
    LET Parse(t) == IF parse = "nat" THEN ParseNatPortRanges(t) ELSE ParsePortRanges(t)
    IN IF text # <<>> THEN Parse(text[1])
       ELSE IF typed # <<>> THEN Ok(typed[1])
       ELSE IF unset = <<>> THEN RAISES ELSE Parse(Word(unset[1]))
PortsOf(typed, text, unset, parse) ==
    LET Parse(t) == IF parse = "nat" THEN ParseNatPortRanges(t) ELSE ParsePortRanges(t)
    IN IF typed # <<>> THEN Ok(typed[1])
       ELSE IF text # <<>> THEN Parse(text[1])
       ELSE IF unset = <<>> THEN RAISES ELSE Parse(Word(unset[1]))

\* The two forms of a record's ports, as its constructor fills what is not given:
\* the text is required of a FirewallRule, and has its released default elsewhere.
FirewallRule(text, given) == given @@ [typed |-> <<>>, text |-> text]
NatRule(given) == given @@ [typed |-> <<>>, text |-> <<Word(EMPTY)>>]
L3Rule(given) == given @@ [typed |-> <<>>, text |-> <<Word(ANY)>>]
FirewallRuleDstPorts(rule) == PortsOf(rule.typed, rule.text, <<>>, "plain")
NatRulePorts(rule) == PortsOf(rule.typed, rule.text, <<EMPTY>>, "nat")
L3RulePorts(rule) == PortsOf(rule.typed, rule.text, <<ANY>>, "plain")

\* A timestamp text is EMPTY, "malformed" or what it spells.
ParseTimestamp(text) ==
    IF text = EMPTY THEN Ok(<<>>) ELSE IF text = "malformed" THEN RAISES ELSE Ok(<<text>>)
SecurityEvent(text, given) == given @@ [typed |-> <<>>, text |-> text]
SecurityEventTimestamp(event) ==
    IF event.typed # <<>> THEN Ok(event.typed)
    ELSE IF event.text # <<>> THEN ParseTimestamp(event.text[1]) ELSE Ok(<<>>)

\* A classifier text is a sequence of terms [key, value], a value being "bad"
\* when it is not one of its key; `group` is the key without its Range.
QOS_KEYS == {"vlan", "protocol", "srcPort", "srcPortRange", "dstPort", "dstPortRange"}
Group(key) == CASE key = "srcPortRange" -> "srcPort" [] key = "dstPortRange" -> "dstPort"
                [] OTHER -> key
ParseQosClassifier(terms) ==
    IF terms = <<>> \/ \E i \in DOMAIN terms : terms[i].key \notin QOS_KEYS THEN Ok({})
    ELSE IF \E i, j \in DOMAIN terms : i # j /\ Group(terms[i].key) = Group(terms[j].key) THEN RAISES
    ELSE IF \E i \in DOMAIN terms : terms[i].value = "bad" THEN Ok({})
    ELSE Ok({<<Group(t.key), t.value>> : t \in ToSet(terms)})
QosRule(text, given) == given @@ [typed |-> <<>>, text |-> text]
QosRuleClassifier(rule) ==
    IF rule.typed # <<>> THEN Ok(rule.typed[1])
    ELSE IF rule.text # <<>> THEN ParseQosClassifier(rule.text[1]) ELSE Ok({})

----------------------------------------------------------------------------
\* selection.py. A criterion is [attribute, atLeast, value]; a candidate a
\* function from the vocabulary's attributes to what is observed, JUNK for what
\* is no number.

CriterionMatches(criterion, got) ==
    IF criterion.atLeast THEN got # JUNK /\ got >= criterion.value ELSE got = criterion.value
FirstMismatch(candidate, criteria) ==
    SelectInSeq(criteria, LAMBDA c : ~CriterionMatches(c, candidate[c.attribute]))
\* The candidate's place; or, place 0, each one's first failing criterion.
SelectOne(candidates, criteria, vocabulary) ==
    IF \E i \in DOMAIN criteria : criteria[i].attribute \notin vocabulary THEN RAISES
    ELSE LET at == SelectInSeq(candidates, LAMBDA c : FirstMismatch(c, criteria) = 0)
         IN <<at, IF at # 0 THEN <<>>
                  ELSE [i \in DOMAIN candidates |-> FirstMismatch(candidates[i], criteria)]>>

\* segmentation.py. A spoke is [name, model, hub], names by their order.
SelectRoles(candidates, model) ==
    LET ordered == SortSeq(candidates, LAMBDA c, d : c.name < d.name)
        at == SelectInSeq(ordered, LAMBDA c : c.model = model)
        peers == SelectSeq(ordered, LAMBDA c : c # ordered[at] /\ c.hub = ordered[at].hub)
    IN IF at = 0 THEN RAISES
       ELSE IF Len(peers) < 2 THEN RAISES ELSE <<ordered[at], peers[1], peers[2]>>

\* A deny rule of every port, and the first one that a policy holds of its match:
\* what the rule says of the ports is not compared.
BuildDenyRule(scope, protocol, source, destination) ==
    [ action |-> "deny", protocol |-> protocol, ports |-> ANY,
      src |-> IF scope = "host" THEN source.host ELSE source.subnet,
      dst |-> IF scope = "host" THEN destination.host ELSE destination.subnet ]
FindMatchingDeny_AnyAction(rules, wanted) ==
    SelectInSeq(rules, LAMBDA r : /\ r.protocol = wanted.protocol
                                  /\ r.src = wanted.src /\ r.dst = wanted.dst)
FindMatchingDeny(rules, wanted) ==
    SelectInSeq(rules, LAMBDA r : /\ r.action = "deny" /\ r.protocol = wanted.protocol
                                  /\ r.src = wanted.src /\ r.dst = wanted.dst)

\* Networks are [family, low, high], the family "4", "6" or "malformed"; the
\* decoy is one of family 4.
Overlap(a, b) == a.low <= b.high /\ b.low <= a.high
DeriveDecoyTarget(inUse, decoy) ==
    IF \E n \in inUse : n.family = "malformed" THEN RAISES
    ELSE Ok({n \in inUse : n.family = "4" /\ Overlap(n, decoy)})

----------------------------------------------------------------------------
\* iperf_client.py, sender_life_record. A row is <<start, end, size>>.

SumOfSizes(rows) == FoldLeft(LAMBDA sum, r : sum + r[3], 0, rows)
SenderLifeRecord_KeepsSummary(log, tolerance) ==
    LET rows == SortSeq(log, LAMBDA r, s : r[1] < s[1] \/ (r[1] = s[1] /\ r[2] < s[2]))
        holes == {i \in 1..(Len(rows) - 1) : rows[i + 1][1] - rows[i][2] > tolerance}
    IN IF log = <<>> THEN [intervals |-> 0, gaps |-> {}, bytes |-> 0]
       ELSE [ intervals |-> Len(rows),
              gaps |-> {<<rows[i][2], rows[i + 1][1]>> : i \in holes},
              bytes |-> SumOfSizes(rows) ]
SenderLifeRecord(log, tolerance) ==
    LET rows == SortSeq(log, LAMBDA r, s : r[1] < s[1] \/ (r[1] = s[1] /\ r[2] < s[2]))
        lastEnd == Max({r[2] : r \in ToSet(rows)})
        Summary(r) == r[1] = rows[1][1] /\ r[2] = lastEnd
        kept == SelectSeq(rows, LAMBDA r : ~Summary(r))
        periodic == IF kept = <<>> THEN rows ELSE kept
        holes == {i \in 1..(Len(periodic) - 1) : periodic[i + 1][1] - periodic[i][2] > tolerance}
    IN IF log = <<>> THEN [intervals |-> 0, gaps |-> {}, bytes |-> 0]
       ELSE [ intervals |-> Len(periodic),
              gaps |-> {<<periodic[i][2], periodic[i + 1][1]>> : i \in holes},
              bytes |-> SumOfSizes(periodic) ]

----------------------------------------------------------------------------
\* neutrality_scan.py. A raw line is [mark, dashes, n, quotes, line]: its first
\* character ("@" for a hunk's header), whether it reads as `--- ` or `+++ `,
\* the path of such a line or the line number of a hunk, whether it holds an
\* odd number of triple quotes, and what the rules see in its text.

NoPath == "/dev/null"
Advance_AnyHeader(state, raw) ==
    IF raw.mark = "+" /\ raw.dashes THEN [state EXCEPT !.path = raw.n, !.previous = raw]
    ELSE IF raw.mark = "@"
    THEN [state EXCEPT !.previous = raw, !.lineNo = raw.n, !.inString = FALSE]
    ELSE IF state.path = NoPath \/ raw.mark \notin {"+", " "} THEN [state EXCEPT !.previous = raw]
    ELSE [ state EXCEPT !.previous = raw, !.lineNo = @ + 1, !.inString = (@ # raw.quotes),
                        !.found = IF raw.mark = " " THEN @
                                  ELSE Append(@, <<state.path, state.lineNo,
                                                   state.inString \/ raw.quotes, raw.line>>) ]
Advance(state, raw) ==
    IF raw.mark = "+" /\ raw.dashes /\ state.previous.mark = "-" /\ state.previous.dashes
    THEN [state EXCEPT !.path = raw.n, !.previous = raw]
    ELSE IF raw.mark = "@"
    THEN [state EXCEPT !.previous = raw, !.lineNo = raw.n, !.inString = FALSE]
    ELSE IF state.path = NoPath \/ raw.mark \notin {"+", " "} THEN [state EXCEPT !.previous = raw]
    ELSE [ state EXCEPT !.previous = raw, !.lineNo = @ + 1, !.inString = (@ # raw.quotes),
                        !.found = IF raw.mark = " " THEN @
                                  ELSE Append(@, <<state.path, state.lineNo,
                                                   state.inString \/ raw.quotes, raw.line>>) ]
Nothing == [mark |-> "", dashes |-> FALSE]
AddedLines(diff) ==
    FoldLeft(Advance, [ path |-> NoPath, lineNo |-> 0, inString |-> FALSE,
                        previous |-> Nothing, found |-> <<>> ], diff).found

\* A line's literals are hits unless it or its file is exempt. A literal is
\* [kind, network, prose]; prose: it stands outside the string literals of its
\* line, where a `.py` file is not searched for host names.
SELF_EXEMPT_PATHS == {"scripts/neutrality_scan.py", "scripts/tests/test_neutrality_scan.py"}
AddressAllowed(network, inTests) ==
    network \in {"special", "documentation"} \/ (inTests /\ network = "private")
Hit(literal, line, inString) ==
    CASE literal.kind = "address" -> ~AddressAllowed(literal.network, line.inTests)
      [] literal.kind = "hostname" -> ~line.py \/ inString \/ ~literal.prose
      [] literal.kind = "email" -> ~line.signedOff /\ literal.network # "example"
      [] literal.kind = "ticket" -> literal.network # "standard"
CheckLine(line, inString) ==
    IF line.allow THEN {}
    ELSE {l \in line.literals : Hit(l, line, inString)}
ScanDiff(diff) ==
    {<<found[1], found[2], CheckLine(found[4], found[3])>> :
        found \in {f \in ToSet(AddedLines(diff)) : f[1] \notin SELF_EXEMPT_PATHS}}
====
