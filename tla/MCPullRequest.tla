---- MODULE MCPullRequest ----
(***************************************************************************)
(* A pull request whose title goes between a kind that hygiene decides and *)
(* a kind an agent reviews, and whose head is a guide, a design or code.   *)
(***************************************************************************)
EXTENDS PullRequest

docs == [prefix |-> "docs", rest |-> "words"]
feat == [prefix |-> "feat", rest |-> "words"]

guide == <<"docs", "guide.md">>
design == <<ARCH_DIR, "tr069-protocol-design.md">>
source == <<SRC, "throughput.py">>

entry == [ text |-> ENTRY, package |-> "testoperations", subsection |-> "Added",
           kind |-> "function", subject |-> <<[module |-> <<"m">>, chain |-> <<"f">>, params |-> {}]>>,
           fields |-> <<CITATION, 7>> ]
log == << [heading |-> UNRELEASED, dated |-> FALSE, entries |-> <<>>] >>

main == (MAINTAINERS_FILE :> {"mia"}) @@ (CHANGELOG :> log) @@ (DEPRECATIONS :> <<>>)

Changed(paths, tree, neutral) ==
    [ files |-> {[path |-> p, status |-> "modified"] : p \in paths}, tree |-> tree,
      neutral |-> neutral ]

aGuide == Changed({guide}, main, TRUE)

code == Changed({source, design, CHANGELOG}, [main EXCEPT ![CHANGELOG][1].entries = <<entry>>], TRUE)

titles == {docs, feat}
contents == [guide |-> aGuide, code |-> code]
slugs == {"tr069"}
none == {}
====
