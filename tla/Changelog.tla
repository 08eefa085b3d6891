---- MODULE Changelog ----
(***************************************************************************)
(* The text files a pull request keeps beside the code: CHANGELOG.md and   *)
(* the deprecation register (scripts/changelog_entries.py,                 *)
(* scripts/changelog_section.py), as the records their readers make of     *)
(* them.                                                                   *)
(*                                                                         *)
(* A changelog is the sequence of its `## ` sections, newest first:        *)
(*   [heading, dated, entries].                                            *)
(* An entry is [text, package, subsection, kind, subject, fields]: text is *)
(* ENTRY or a placeholder line, subject the code spans before the dash,    *)
(* fields what follows it, in order: CITATION or the number of a pull      *)
(* request. A code span is [module, chain, params]; a span without a       *)
(* module prefix has module <<>>, and a bare module path has chain <<>>.   *)
(* A register is the sequence of its rows [package, item, kind,            *)
(* deprecatedIn, ofReturn]; ofReturn: the item says `return`.              *)
(***************************************************************************)
EXTENDS Integers, FiniteSets, SequencesExt

ENTRY == "entry"
NO_ENTRIES == "no entries yet"
VERSION_BUMP_ONLY == "no API change (version bump only)"
PLACEHOLDERS == {NO_ENTRIES, VERSION_BUMP_ONLY}
UNRELEASED == "Unreleased"
NEXT_RELEASE == "next release"
CITATION == 0  \* the proposal path and item id, or `no proposal`
NoKind == "no kind field"
NO_SYMBOL_KINDS == {"behaviour", "marker", "type checking"}
MODULE_KINDS == {"module", "modules"}

Problem(holds, name) == IF holds THEN {name} ELSE {}

Placeholder(e) == e.text \in PLACEHOLDERS

\* The first [Unreleased] section; 0 when there is none.
Unreleased(changelog) == SelectInSeq(changelog, LAMBDA s : s.heading = UNRELEASED)
UnreleasedEntries(changelog) ==
    IF Unreleased(changelog) = 0 THEN <<>> ELSE changelog[Unreleased(changelog)].entries

Importable(subject) == \E s \in ToSet(subject) : s.module # <<>> /\ s.chain # <<>>
ModulePath(subject) == \E s \in ToSet(subject) : Len(s.module) > 1 /\ s.chain = <<>>
CitedPrs(e) == ToSet(e.fields) \ {CITATION}

Key(e) == << e.package, e.subsection, e.kind,
             IF e.subject = <<>> THEN <<>> ELSE <<e.subject[1]>> >>

FormatProblems(e) ==
    IF Placeholder(e) THEN {}
    ELSE IF e.kind = NoKind THEN {"no kind field"}
    ELSE LET cited == {i \in DOMAIN e.fields : e.fields[i] = CITATION}
             refs == DOMAIN e.fields \ cited
         IN UNION {
              Problem(/\ e.kind \in MODULE_KINDS
                      /\ ~ModulePath(e.subject) /\ ~Importable(e.subject), "no module path"),
              Problem(/\ e.kind \notin MODULE_KINDS \cup NO_SYMBOL_KINDS
                      /\ ~Importable(e.subject), "no symbol"),
              Problem(cited = {}, "no citation"),
              Problem(refs = {}, "no PR number"),
              Problem(refs # {} /\ cited # {} /\ Max(refs) < Min(cited),
                      "PR number before the citation") }

\* The k-th entry with a key is the pull request's own when main has fewer.
EntryProblems(head, main, number) ==
    IF Unreleased(head) = 0 THEN {"no [Unreleased] heading"}
    ELSE LET entries == UnreleasedEntries(head)
             Counted(e) == ~Placeholder(e)
             OnMain(k) == Len(SelectSeq(UnreleasedEntries(main),
                                        LAMBDA e : Counted(e) /\ Key(e) = k))
             Seen(i) == Cardinality({j \in 1..i : /\ Counted(entries[j])
                                                  /\ Key(entries[j]) = Key(entries[i])})
             Added(i) == /\ Counted(entries[i]) /\ entries[i].kind # NoKind
                         /\ Seen(i) > OnMain(Key(entries[i]))
         IN (UNION {FormatProblems(e) : e \in ToSet(entries)})
              \cup Problem(/\ number > 0
                           /\ \E i \in DOMAIN entries :
                                 Added(i) /\ number \notin CitedPrs(entries[i]),
                           "an added entry does not cite this pull request")

\* Rows and entries are compared with the module prefixes dropped.
Spans(item) == [i \in DOMAIN item |-> [item[i] EXCEPT !.module = <<>>]]

\* Matching one row with the first entry left, row by row, leaves something
\* over exactly when some key has unequal numbers of rows and entries.
RegisterProblems(changelog, register) ==
    LET rows == SelectSeq(register, LAMBDA r : r.deprecatedIn = NEXT_RELEASE)
        entries == SelectSeq(UnreleasedEntries(changelog),
                             LAMBDA e : e.subsection = "Deprecated" /\ ~Placeholder(e))
        RowKey(r) == <<r.package, r.kind, Spans(r.item)>>
        EntryKey(e) == <<e.package, e.kind, Spans(e.subject)>>
        Rows(k) == Len(SelectSeq(rows, LAMBDA r : RowKey(r) = k))
        Entries(k) == Len(SelectSeq(entries, LAMBDA e : EntryKey(e) = k))
        keys == {RowKey(r) : r \in ToSet(rows)} \cup {EntryKey(e) : e \in ToSet(entries)}
    IN Problem(\E k \in keys : Rows(k) > Entries(k), "a row without an entry")
         \cup Problem(\E k \in keys : Entries(k) > Rows(k), "an entry without a row")

----------------------------------------------------------------------------
\* A released section (changelog_section.py).

Section(changelog, version, allowEmpty) ==
    LET found == {i \in DOMAIN changelog : changelog[i].heading = version /\ changelog[i].dated}
        texts == {e.text : e \in UNION {ToSet(changelog[i].entries) : i \in found}}
    IN IF Cardinality(found) # 1 THEN {"no heading, or several"}
       ELSE IF texts = {} THEN {"empty"}
       ELSE IF NO_ENTRIES \in texts THEN {"still says no entries yet"}
       ELSE Problem(~allowEmpty /\ texts = {VERSION_BUMP_ONLY}, "version bump only")

\* versions is what could be read of the two files, by path.
VersionProblems(versions, version, files) ==
    Problem(\E f \in files : f \notin DOMAIN versions \/ versions[f] # version, "another version")
====
