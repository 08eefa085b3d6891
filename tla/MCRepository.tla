---- MODULE MCRepository ----
(***************************************************************************)
(* A repository of one protocol, one record, one operation and one design  *)
(* document, and the branches that may be opened on it: each change of the *)
(* contract with the entry it needs and without it.                        *)
(***************************************************************************)
EXTENDS Repository

Def(name, args, kwonly, returns) ==
    [ form |-> "def", name |-> name, decorators |-> {}, marker |-> NoMarker, doc |-> NoDoc,
      posonly |-> <<>>, args |-> args, vararg |-> <<>>, kwonly |-> kwonly, kwarg |-> <<>>,
      returns |-> returns ]
Arg(name, type, default) == [name |-> name, annotation |-> {type}, default |-> default]
Self == [name |-> "self", annotation |-> {}, default |-> NoDefault]
ClassOf(name, bases, decorators, body) ==
    [ form |-> "class", name |-> name, bases |-> bases, decorators |-> decorators,
      marker |-> NoMarker, doc |-> NoDoc, body |-> body ]
Var(name, type, default) ==
    [ form |-> "var", name |-> name, role |-> "field", annotation |-> {type},
      default |-> default, kwOnly |-> FALSE ]

PortArg == Arg("port", "str", NoDefault)
Raise == Def("raise_", <<Self, PortArg>>, <<>>, {"None"})
Drop == Def("drop", <<Self, PortArg>>, <<>>, {"bool"})
Flap == Def("flap", <<Self, PortArg>>, <<>>, {"None"})
Deprecate(def) == [def EXCEPT !.decorators = {"deprecated"}, !.marker = "use raise_",
                              !.doc = [paragraph |-> "use raise_", stated |-> TRUE]]
LinkModule(body) == [ package |-> "testprotocols", isPackage |-> FALSE,
                      body |-> <<ClassOf("Link", {"Protocol"}, {}, body)>> ]
LinkStart == LinkModule(<<Raise, Drop, Deprecate(Flap)>>)
LinkForced == LinkModule(<<[Raise EXCEPT !.args = @ \o <<Arg("force", "bool", "False")>>], Drop,
                           Deprecate(Flap)>>)
LinkDeprecated == LinkModule(<<Raise, Deprecate(Drop), Deprecate(Flap)>>)
LinkRemoved == LinkModule(<<Raise, Drop>>)

RecordsModule(fields) == [ package |-> "testprotocols", isPackage |-> FALSE,
                           body |-> <<ClassOf("State", {}, {"dataclass"}, fields)>> ]
RecordsStart == RecordsModule(<<Var("up", "bool", NoDefault), Var("rate", "int", "0")>>)
RecordsSwapped == RecordsModule(<<Var("up", "bool", NoDefault), Var("duplex", "str", "full"),
                                  Var("rate", "int", "0")>>)

OperationModule(args, kwonly) == [ package |-> "testoperations", isPackage |-> FALSE,
                                   body |-> <<Def("wait_up", args, kwonly, {"bool"})>> ]
LinkArg == Arg("link", "Link", NoDefault)
TimeoutArg == Arg("timeout", "float", "10")
OperationStart == OperationModule(<<LinkArg, TimeoutArg>>, <<>>)
OperationKeyword == OperationModule(<<LinkArg>>, <<TimeoutArg>>)

LinkPath == <<SRC, "link.py">>
RecordsPath == <<SRC, "records.py">>
OperationPath == <<SRC, "waiting.py">>
MCModuleOf == LinkPath :> <<"testprotocols", "link">> @@ RecordsPath :> <<"testprotocols", "records">>
              @@ OperationPath :> <<"testoperations", "waiting">>

Design(status, sections) == [ status |-> status, sections |-> sections, header |-> {"mechanism"},
                              rows |-> {[mechanism |-> "extend", breaking |-> FALSE,
                                         placement |-> "tier-staged"]} ]
Wlan == DocPath("wlan")
Chartered == Design("chartered", << <<1, "Charter">> >>)
Accepted == Design("accepted for verification", << <<1, "Charter">>, <<12, "Manifest">> >>)
Verified == Design("verified", << <<1, "Charter">>, <<12, "Manifest">> >>)
ProposalPath == <<PROPOSAL_DIR, "2026-01-01-link.md">>
Proposal == [ rows |-> HEADER_ROWS, items |-> {[id |-> "P1", mechanism |-> "extend"]},
              declined |-> FALSE ]

Entry(package, subsection, kind, module, chain) ==
    [ text |-> ENTRY, package |-> package, subsection |-> subsection, kind |-> kind,
      subject |-> <<[module |-> module, chain |-> chain, params |-> {}]>>, fields |-> <<>> ]
Placeholding == [Entry("", "", NoKind, <<>>, <<>>) EXCEPT !.text = NO_ENTRIES]
LinkEntry(subsection, member) ==
    Entry("testprotocols", subsection, "member", <<"testprotocols", "link">>, <<"Link", member>>)
StateEntry == Entry("testprotocols", CONSUMER, "field", <<"testprotocols", "records">>,
                    <<"State", "rate">>)
WaitEntry == Entry("testoperations", CONSUMER, "parameter", <<"testoperations", "waiting">>,
                   <<"wait_up", "timeout">>)
Row(member, version) ==
    [ package |-> "testprotocols", kind |-> "member", deprecatedIn |-> version,
      item |-> <<[module |-> <<"testprotocols", "link">>, chain |-> <<"Link", member>>,
                  params |-> {}]>>, ofReturn |-> FALSE ]

Log(heading, dated, entries) == [heading |-> heading, dated |-> dated, entries |-> entries]
First == LinkEntry("Added", "raise_")
MCStart ==
    LinkPath :> LinkStart @@ RecordsPath :> RecordsStart @@ OperationPath :> OperationStart
    @@ Wlan :> Chartered
    @@ CHANGELOG :> <<Log(UNRELEASED, FALSE, <<>>),
                      Log("1.0.0", TRUE, <<[First EXCEPT !.fields = <<CITATION, 1>>]>>)>>
    @@ DEPRECATIONS :> <<Row("flap", "1.0.0")>> @@ GAPS :> {} @@ MAINTAINERS_FILE :> {"mia"}
    @@ [v \in VERSION_FILES |-> "1.0.0"]

Edit(from, to) == [from |-> <<from>>, to |-> to]
Add(content) == [from |-> <<>>, to |-> content]
Branch(prefix, rest, author, edits, entries, rows) ==
    [ title |-> [prefix |-> prefix, rest |-> rest], author |-> author, edits |-> edits,
      entries |-> entries, rows |-> rows, gone |-> {} ]
Feat(path, from, to, entries, rows) == Branch("feat", "", "dan", path :> Edit(from, to), entries, rows)
Forcing(entries) == Feat(LinkPath, LinkStart, LinkForced, entries, <<>>)
Deprecating(entries, rows) == Feat(LinkPath, LinkStart, LinkDeprecated, entries, rows)
Removing(subsection) ==
    [Feat(LinkPath, LinkStart, LinkRemoved, <<LinkEntry(subsection, "flap")>>, <<>>)
        EXCEPT !.gone = {Row("flap", "1.0.0")}]
Recorded == Feat(RecordsPath, RecordsStart, RecordsSwapped, <<StateEntry>>, <<>>)
DropDeprecated == Deprecating(<<LinkEntry(DEPRECATED, "drop")>>, <<Row("drop", NEXT_RELEASE)>>)

\* Changes of the contract, with what they need and with less.
Coded == {
    Forcing(<<LinkEntry(BREAKING, "raise_")>>), Forcing(<<LinkEntry("Added", "raise_")>>),
    DropDeprecated, Deprecating(<<LinkEntry(DEPRECATED, "drop")>>, <<>>),
    Removing(CONSUMER), Recorded,
    Feat(OperationPath, OperationStart, OperationKeyword, <<WaitEntry>>, <<>>),
    Feat(OperationPath, OperationStart, OperationKeyword, <<>>, <<>>) }
\* Documents and their routes.
Documents == {
    Branch("docs", "", "dan", Wlan :> Edit(Chartered, Accepted), <<>>, <<>>),
    Branch("docs", "", "dan", <<TESTS, "waiting.py">> :> Add("a test"), <<>>, <<>>),
    Branch("archetype", "wlan", "mia", Wlan :> Edit(Chartered, Accepted), <<>>, <<>>),
    Branch("archetype", "wlan", "mia", Wlan :> Edit(Accepted, Verified) @@
                                       GAPS :> Edit({}, {Wlan}), <<>>, <<>>),
    Branch("proposal", "", "dan", ProposalPath :> Add(Proposal), <<>>, <<>>) }
MCContributions == Coded \cup Documents
RaceContributions == {DropDeprecated, Recorded}

MCSlugs == {"wlan"}
MCVersions == {"1.1.0", "1.2.0"}
MCReleases == <<"1.1.0", "1.2.0">>
Proposals == {ProposalPath[2]}
Perms == Permutations(Slots)

\* The contributions of the run are ones that the theorem is about.
ASSUME MCEdits == EditsAreAccountedFor
====
