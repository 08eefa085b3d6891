---- MODULE Repository ----
(***************************************************************************)
(* The main branch under several pull requests at once. Each branch leaves *)
(* main somewhere, is judged by hygiene (its own files, against main as it *)
(* is by then) and by the contract step of lint (the merge of the two,     *)
(* against main at the push), and lands when both are green: the branch    *)
(* protection does not ask it to be up to date (CONTRIBUTING.md, Branch    *)
(* protection). A release is such a branch too.                            *)
(*                                                                         *)
(* Trees and rules are those of Hygiene, module contents and their         *)
(* differences those of Surface.                                           *)
(***************************************************************************)
EXTENDS Hygiene, Surface

CONSTANTS Contributions,  \* what a branch may do: [title, author, edits, entries, rows, gone]
          Start,          \* the tree of main at the beginning
          ModuleOf,       \* the module that a source path holds
          Slots,          \* names of the pull requests that may be open at once
          Releases,       \* the versions that may be released, as a sequence
          MaxPrs, MaxUpdates   \* bounds of the exploration

\* What the files are at the beginning, and what authors do: the versions to come
\* are new, [Unreleased] stands on top, and a branch that is no release adds
\* entries to the changelog, never a line that stands for there being none, and
\* leaves the versions alone (CONTRIBUTING.md; the preamble of CHANGELOG.md).
ASSUME RepositoryAssumption ==
    LET log == Start[CHANGELOG]
        headings == {s.heading : s \in ToSet(log)}
        entries == UNION {ToSet(s.entries) : s \in ToSet(log)}
    IN /\ MaxPrs \in Nat
       /\ {CHANGELOG, DEPRECATIONS, MAINTAINERS_FILE} \cup VERSION_FILES \subseteq DOMAIN Start
       /\ log \in Seq([heading : headings, dated : BOOLEAN, entries : Seq(entries)])
       /\ log # <<>> /\ log[1].heading = UNRELEASED /\ ~log[1].dated
       /\ \A i \in DOMAIN log : log[i].heading = UNRELEASED => i = 1
       /\ Releases \in Seq(Versions \ (headings \cup {UNRELEASED}))
       /\ \A i, j \in DOMAIN Releases : Releases[i] = Releases[j] => i = j
       /\ \A c \in Contributions :
             /\ c.title.prefix # "release"
             /\ DOMAIN c.edits \cap (CHANGELOG_FILES \cup VERSION_FILES) = {}
             /\ c.entries \in Seq(ToSet(c.entries))
             /\ \A e \in ToSet(c.entries) : "text" \in DOMAIN e /\ e.text \notin PLACEHOLDERS

VARIABLES mainTree,
          prs,        \* per slot, NoPr or the open pull request
          numbers,    \* how many were opened
          shipped,    \* how many releases landed
          updates

vars == <<mainTree, prs, numbers, shipped, updates>>

NoPr == [open |-> FALSE]
Open == {s \in Slots : prs[s].open}

ModulesIn(tree) ==
    [m \in {ModuleOf[p] : p \in DOMAIN tree \cap DOMAIN ModuleOf} |->
        tree[CHOOSE p \in DOMAIN tree \cap DOMAIN ModuleOf : ModuleOf[p] = m]]
SurfaceOf(tree) == ReadSurface(ModulesIn(tree))

----------------------------------------------------------------------------
\* git: a merge keeps what one side changed, and two changes of one file are
\* a conflict, except in the changelog, whose sections merge one by one: both
\* sides may add to a section under different packages or subsections, and a
\* heading renamed by one side keeps what the other adds below it.

\* What a path holds: no content, one, or the two of a conflict.
At(tree, p) == IF p \in DOMAIN tree THEN <<tree[p]>> ELSE <<>>
Conflict == <<"ours", "theirs">>

FromBottom(log, k) == log[Len(log) + 1 - k]
AddedTo(log, base, k) == SubSeq(FromBottom(log, k).entries,
                                Len(FromBottom(base, k).entries) + 1,
                                Len(FromBottom(log, k).entries))
Places(entries) == {<<e.package, e.subsection>> : e \in ToSet(entries)}

MergeLog(base, ours, theirs) ==
    LET n == Len(base)
        newer == IF Len(ours) > n THEN ours ELSE theirs
        Kept(k) == LET o == FromBottom(ours, k)
                       added == AddedTo(theirs, base, k)
                   IN [ heading |-> IF o.heading # FromBottom(base, k).heading
                                    THEN o.heading ELSE FromBottom(theirs, k).heading,
                        dated |-> o.dated \/ FromBottom(theirs, k).dated,
                        entries |-> o.entries \o added ]
        sameHeading == Len(ours) > n /\ Len(theirs) > n
        samePlace == \E k \in 1..n : Places(AddedTo(ours, base, k))
                                       \cap Places(AddedTo(theirs, base, k)) # {}
    IN IF sameHeading \/ samePlace
       THEN Conflict ELSE << SubSeq(newer, 1, Len(newer) - n) \o [i \in 1..n |-> Kept(n + 1 - i)] >>

MergeFile(p, base, ours, theirs) ==
    IF At(theirs, p) \in {At(ours, p), At(base, p)} THEN At(ours, p)
    ELSE IF At(ours, p) = At(base, p) THEN At(theirs, p)
    ELSE IF p = CHANGELOG THEN MergeLog(base[p], ours[p], theirs[p]) ELSE Conflict

Merges(base, ours, theirs) ==
    \A p \in DOMAIN ours \cup DOMAIN theirs : MergeFile(p, base, ours, theirs) # Conflict
Merge(base, ours, theirs) ==
    LET Of(p) == MergeFile(p, base, ours, theirs)
    IN [p \in {q \in DOMAIN ours \cup DOMAIN theirs : Of(q) # <<>>} |-> Of(p)[1]]

----------------------------------------------------------------------------
\* A pull request: [open, title, author, number, base, head, hygiene, lint],
\* the verdicts as check conclusions.

Files(pr) ==
    {[path |-> p, status |-> IF p \notin DOMAIN pr.base THEN "added"
                             ELSE IF p \notin DOMAIN pr.head THEN "removed" ELSE "modified"] :
        p \in {q \in DOMAIN pr.base \cup DOMAIN pr.head : At(pr.base, q) # At(pr.head, q)}}
AsPr(pr) == [ title |-> pr.title, labels |-> {}, files |-> Files(pr), author |-> pr.author,
              number |-> pr.number ]
\* A file that could not be fetched is removed with a warning.
Fetched(pr, lost) == [p \in (HeadPaths(AsPr(pr)) \cap DOMAIN pr.head) \ lost |-> pr.head[p]]

\* The contract step of lint.yml, and the parity check that CONTRIBUTING.md
\* runs beside it. A branch that does not merge is not run at all.
ContractJob(base, head) ==
    LET merged == Merge(base, mainTree, head)
        old == SurfaceOf(mainTree)
        new == SurfaceOf(merged)
    IN IF ~Merges(base, mainTree, head) THEN "none"
       ELSE IF \/ CheckChangelog(old, new, merged[CHANGELOG], merged[DEPRECATIONS]) # {}
               \/ EnumParamProblems(old, new) # {}
               \/ ParityProblems(new, merged[DEPRECATIONS]) # {}
       THEN "failure" ELSE "success"

Pushed(title, author, number, base, head) ==
    [ open |-> TRUE, title |-> title, author |-> author, number |-> number, base |-> base,
      head |-> head, hygiene |-> "none", lint |-> ContractJob(base, head) ]

\* What a contribution makes of main: it turns the `from` of its files into
\* their `to`, adds its entries to [Unreleased], citing its number, and its rows,
\* and takes out the rows of what is gone.
AppliesTo(c, tree) == \A p \in DOMAIN c.edits : At(tree, p) = c.edits[p].from
Contribute(c, number) ==
    LET u == Unreleased(mainTree[CHANGELOG])
        entries == [i \in DOMAIN c.entries |-> [c.entries[i] EXCEPT !.fields = <<CITATION, number>>]]
        recorded == [mainTree EXCEPT ![CHANGELOG][u].entries = @ \o entries,
                                     ![DEPRECATIONS] =
                                         SelectSeq(@, LAMBDA r : r \notin c.gone) \o c.rows]
    IN [p \in DOMAIN mainTree \cup DOMAIN c.edits |->
           IF p \in DOMAIN c.edits THEN c.edits[p].to ELSE recorded[p]]

\* A release renames [Unreleased], opens a fresh one, fills the register in and
\* bumps both versions (CHANGELOG.md, the preamble; DEPRECATIONS.md, Adding a
\* row).
Cut(version) ==
    LET log == mainTree[CHANGELOG]
        u == Unreleased(log)
        fresh == [heading |-> UNRELEASED, dated |-> FALSE, entries |-> <<>>]
        filled == [i \in DOMAIN mainTree[DEPRECATIONS] |->
                      IF mainTree[DEPRECATIONS][i].deprecatedIn = NEXT_RELEASE
                      THEN [mainTree[DEPRECATIONS][i] EXCEPT !.deprecatedIn = version]
                      ELSE mainTree[DEPRECATIONS][i]]
    IN [mainTree EXCEPT ![CHANGELOG] = <<fresh>> \o
                            [log EXCEPT ![u].heading = version, ![u].dated = TRUE],
                        ![DEPRECATIONS] = filled,
                        ![Tracking("pyproject.toml")] = version,
                        ![<<"packages/testoperations", "pyproject.toml">>] = version]

OpenPr ==
    /\ numbers < MaxPrs
    /\ \E s \in Slots \ Open, c \in {d \in Contributions : AppliesTo(d, mainTree)} :
          prs' = [prs EXCEPT ![s] = Pushed(c.title, c.author, numbers + 1, mainTree,
                                           Contribute(c, numbers + 1))]
    /\ numbers' = numbers + 1
    /\ UNCHANGED <<mainTree, shipped, updates>>

OpenRelease ==
    /\ shipped < Len(Releases) /\ numbers < MaxPrs
    /\ \A s \in Open : prs[s].title.prefix # "release"
    /\ \E s \in Slots \ Open :
          prs' = [prs EXCEPT ![s] =
                     Pushed([prefix |-> "release", rest |-> Releases[shipped + 1]], "mia",
                            numbers + 1, mainTree, Cut(Releases[shipped + 1]))]
    /\ numbers' = numbers + 1
    /\ UNCHANGED <<mainTree, shipped, updates>>

HygieneJob ==
    /\ \E s \in Open :
          /\ prs[s].hygiene = "none"
          /\ \E lost \in SUBSET HeadPaths(AsPr(prs[s])) :
                LET result == RunChecks(AsPr(prs[s]), mainTree, Fetched(prs[s], lost))
                IN prs' = [prs EXCEPT ![s].hygiene =
                              IF result.problems = {} THEN "success" ELSE "failure"]
    /\ UNCHANGED <<mainTree, numbers, shipped, updates>>

\* A push runs both jobs anew: of the same changes, or with main merged in.
Push ==
    /\ updates < MaxUpdates
    /\ \E s \in Open :
          /\ prs[s].base # mainTree
          /\ \/ prs' = [prs EXCEPT ![s] = Pushed(prs[s].title, prs[s].author, prs[s].number,
                                                 prs[s].base, prs[s].head)]
             \/ /\ Merges(prs[s].base, mainTree, prs[s].head)
                /\ prs' = [prs EXCEPT ![s] =
                              Pushed(prs[s].title, prs[s].author, prs[s].number, mainTree,
                                     Merge(prs[s].base, mainTree, prs[s].head))]
    /\ updates' = updates + 1
    /\ UNCHANGED <<mainTree, numbers, shipped>>

Land_Uncounted ==
    /\ \E s \in Open :
          /\ prs[s].hygiene = "success" /\ prs[s].lint = "success"
          /\ Merges(prs[s].base, mainTree, prs[s].head)
          /\ mainTree' = Merge(prs[s].base, mainTree, prs[s].head)
          /\ prs' = [prs EXCEPT ![s] = NoPr]
    /\ UNCHANGED <<numbers, updates, shipped>>

Land ==
    /\ \E s \in Open :
          /\ prs[s].hygiene = "success" /\ prs[s].lint = "success"
          /\ Merges(prs[s].base, mainTree, prs[s].head)
          /\ mainTree' = Merge(prs[s].base, mainTree, prs[s].head)
          /\ prs' = [prs EXCEPT ![s] = NoPr]
          /\ shipped' = IF prs[s].title.prefix = "release" THEN shipped + 1 ELSE shipped
    /\ UNCHANGED <<numbers, updates>>

Close ==
    /\ \E s \in Open : prs' = [prs EXCEPT ![s] = NoPr]
    /\ UNCHANGED <<mainTree, numbers, shipped, updates>>

Init ==
    /\ mainTree = Start
    /\ prs = [s \in Slots |-> NoPr]
    /\ numbers = 0 /\ shipped = 0 /\ updates = 0

Next == OpenPr \/ OpenRelease \/ HygieneJob \/ Push \/ Land \/ Close

Spec == Init /\ [][Next]_vars

----------------------------------------------------------------------------
TypeOK ==
    /\ {CHANGELOG, DEPRECATIONS, MAINTAINERS_FILE} \cup VERSION_FILES \subseteq DOMAIN mainTree
    /\ Unreleased(mainTree[CHANGELOG]) = 1
    /\ Len(mainTree[CHANGELOG]) = Len(Start[CHANGELOG]) + shipped
    /\ \A s \in Open : /\ prs[s].number \in 1..numbers
                       /\ prs[s].hygiene \in {"none", "success", "failure"}
                       /\ prs[s].lint \in {"none", "success", "failure"}

\* What a call of the old signature meets under a new one. A call gives n
\* arguments by position and the others by the names in K.
Place(sig, n, K, name) ==
    LET i == PositionOf(sig.params, Positional(sig.params), name)
    IN IF i \in 1..n THEN <<"position", i>>
       ELSE IF name \in K THEN <<"keyword", name>> ELSE <<"default", Named(sig.params, name).default>>
Legal(sig, n, K) ==
    LET positional == Cardinality(Positional(sig.params))
        byName == {p.name : p \in {q \in ToSet(sig.params) : q.kind \in {"positional", "keyword-only"}}}
        Has(kind) == \E p \in ToSet(sig.params) : p.kind = kind
        first == {x \in Names(sig.params) :
                     PositionOf(sig.params, Positional(sig.params), x) \in 1..n}
    IN /\ n <= positional \/ Has("var-positional")
       /\ K \subseteq byName \/ Has("var-keyword")
       /\ K \cap first = {}
       /\ \A p \in ToSet(sig.params) :
             \/ p.kind \in {"var-positional", "var-keyword"} \/ p.default # NoDefault
             \/ p.name \in first \cup K
CallsBreak(old, new) ==
    \E n \in 0..Cardinality(Positional(old.params)) : \E K \in SUBSET Names(old.params) :
       /\ Legal(old, n, K)
       /\ \/ ~Legal(new, n, K)
          \/ \E x \in Names(old.params) \cap Names(new.params) :
                Place(old, n, K, x) # Place(new, n, K, x)

Accepts(wide, given) ==
    UnionOf(wide) \cap TOP_TYPES # {}
    \/ (UnionOf(given) \cap TOP_TYPES = {} /\ UnionOf(given) \subseteq UnionOf(wide))

\* Who calls the old form: other arguments, other bindings, a result it does
\* not know. Who implements it: calls of the new form that it does not take.
BreaksCallers(old, new) ==
    \/ old.kind # new.kind
    \/ CallsBreak(old, new)
    \/ \E x \in Names(old.params) \cap Names(new.params) :
          ~Accepts(Named(new.params, x).annotation, Named(old.params, x).annotation)
    \/ ~Accepts(old.returns, new.returns)
BreaksDrivers(old, new) == CallsBreak(new, old) \/ ~Accepts(new.returns, old.returns)

\* A record's constructor, from its fields.
Constructor(sym) ==
    [ params |-> [i \in DOMAIN sym.fields |->
                    [name |-> sym.fields[i].name, default |-> sym.fields[i].default,
                     kind |-> IF sym.fields[i].kwOnly THEN "keyword-only" ELSE "positional"]] ]

\* The broken parts of one released symbol: NoMember stands for the whole.
Broken(old, new) ==
    LET kept == DOMAIN old.members \cap DOMAIN new.members
    IN (IF \/ old.kind # new.kind
           \/ old.kind = "function" /\ BreaksCallers(old.function[1], new.function[1])
           \/ old.kind \in RECORDS /\ CallsBreak(Constructor(old), Constructor(new))
           \/ new.frozen /\ ~old.frozen
           \/ \E x \in DOMAIN old.enum : x \notin DOMAIN new.enum \/ old.enum[x] # new.enum[x]
        THEN {NoMember} ELSE {})
       \cup (DOMAIN old.members \ DOMAIN new.members)
       \cup {x \in kept : BreaksCallers(old.members[x], new.members[x])}
       \cup IF {old.kind, new.kind} # {"protocol"} THEN {}
            ELSE {x \in kept : BreaksDrivers(old.members[x], new.members[x])}

\* Of a whole surface: what is in it as it was cannot be broken.
BreaksSince(start, now) ==
    UNION {IF k \in DOMAIN now THEN {<<k, x>> : x \in Broken(start[k], now[k])}
           ELSE {<<k, NoMember>>} :
              k \in {s \in DOMAIN start : s \in DOMAIN now => start[s] # now[s]}}

Tells(e, b) ==
    /\ e.subsection \in UNKNOWN
    /\ b[1][2] \in Tokens(e.subject)
    /\ b[2] = NoMember \/ b[2] \in Tokens(e.subject)
Said(log) == UNION {ToSet(log[i].entries) : i \in DOMAIN log}
RecordedIn(log, b) == \E e \in Said(log) : Tells(e, b)

\* Whatever lands in whatever order, judged on a main that has moved on since:
\* what no longer works as in the surface the branch started from is named by
\* an entry that tells so, in [Unreleased] or in the section it was released
\* with (contract_surface.py against Python's own rules for calls).
BreaksAreRecorded ==
    \A b \in BreaksSince(SurfaceOf(Start), SurfaceOf(mainTree)) : RecordedIn(mainTree[CHANGELOG], b)

\* A pull request that hygiene passes has either its review set by hygiene or
\* reviewers that take it, and never both (pr_hygiene.py, check_kind_scope and
\* reviewers_for, decide from the same files independently).
RoutedOnce ==
    \A s \in Open : prs[s].hygiene = "success" =>
        (CheckKindScope(AsPr(prs[s])).setReview <=> ReviewersFor(AsPr(prs[s])) = {})

\* Of a branch about to be judged, whatever main has become: the few head files
\* that the workflow fetches are all the rules read, with the whole head they say
\* the same. And a fetch that fails, which is a warning
\* only, passes nothing that the whole head does not (hygiene.yml, the fetch
\* step): of the register of a release, which counts as empty when it is not
\* there, the rule for the changelog files tells, where the release changes them
\* (pr_hygiene.py, unfilled_register_rows).
FilesFetched ==
    \A s \in Open : prs[s].hygiene = "none" =>
        LET pr == AsPr(prs[s])
            whole == RunChecks(pr, mainTree, prs[s].head)
        IN \A lost \in SUBSET HeadPaths(pr) :
              LET judged == RunChecks(pr, mainTree, Fetched(prs[s], lost))
              IN /\ lost = {} => judged = whole
                 /\ /\ judged.problems = {}
                    /\ Kind(pr) = "release" => ChangesChangelogFiles(pr)
                    => judged = whole

\* What keeps changelog_section.py from printing the notes of a version.
ReleaseNotes(tree, version, allowEmpty, checkVersions) ==
    Section(tree[CHANGELOG], version, allowEmpty)
      \cup IF checkVersions THEN VersionProblems(tree, version, VERSION_FILES) ELSE {}

\* Once a release has landed, on whatever main, its notes can be extracted and
\* the versions agree (release.yml runs section() again on the tag).
NotesPublishable ==
    \A i \in 1..shipped : ReleaseNotes(mainTree, Releases[i], FALSE, i = shipped) = {}

\* What DEPRECATIONS.md says: the Deprecated sections of the changelog list
\* exactly its rows, and a release fills in the rows it ships.
RegisterAgrees == RegisterProblems(mainTree[CHANGELOG], mainTree[DEPRECATIONS]) = {}

----------------------------------------------------------------------------
\* Contributions of which BreaksAreRecorded is proved: what each of them does to
\* each file that it edits, by itself and whatever the other files hold.

\* The contents that a source path may have: none, or one.
Held(p) ==
    {At(Start, p)} \cup UNION {{c.edits[p].from, <<c.edits[p].to>>} :
                                   c \in {d \in Contributions : p \in DOMAIN d.edits}}
Alone(p, at) == [q \in {r \in {p} : at # <<>>} |-> at[1]]
SurfaceAt(p, at) == SurfaceOf(Alone(p, at))
BreaksAt(p, old, new) == BreaksSince(SurfaceAt(p, old), SurfaceAt(p, new))

\* What the parser of Python sees to: the names of a signature, or of a record,
\* are different ones, and *args and **kwargs have no default.
Distinct(seq) ==
    /\ seq \in Seq(ToSet(seq))
    /\ \A i, j \in DOMAIN seq : seq[i].name = seq[j].name => i = j
Variadic(p) == p.kind \in {"var-positional", "var-keyword"}
IsSignature(params) ==
    Distinct(params) /\ \A p \in ToSet(params) : Variadic(p) => p.default = NoDefault
Parses(sym) ==
    /\ \A m \in DOMAIN sym.members : IsSignature(sym.members[m].params)
    /\ \A f \in ToSet(sym.function) : IsSignature(f.params)
    /\ Distinct(sym.fields)

\* An entry that names a class and a parameter of a member names the member: of
\* the others names_change is content with the parameter, of whichever member.
NamesMembers(e, sym) ==
    sym.name \in Tokens(e.subject) =>
       \A m \in DOMAIN sym.members :
          Names(sym.members[m].params) \cap Tokens(e.subject) # {} => m \in Tokens(e.subject)

\* Nothing is deprecated as a whole, where one entry stands for all that comes of
\* it; and what an edit breaks, and what the edits before it broke, is all that is
\* broken after it: nothing that was taken away comes back in another form.
EditsAreAccountedFor ==
    /\ \A p, q \in DOMAIN ModuleOf : ModuleOf[p] = ModuleOf[q] => p = q
    /\ DOMAIN ModuleOf \cap (CHANGELOG_FILES \cup VERSION_FILES) = {}
    /\ \A c \in Contributions : \A e \in ToSet(c.entries) : "subject" \in DOMAIN e
    /\ \A p \in DOMAIN ModuleOf : \A at \in Held(p) :
          /\ \A k \in DOMAIN SurfaceAt(p, at) :
                LET sym == SurfaceAt(p, at)[k]
                IN /\ Parses(sym) /\ ~sym.deprecated
                   /\ \A e \in Said(Start[CHANGELOG]) \cup UNION {ToSet(c.entries) : c \in Contributions} :
                         NamesMembers(e, sym)
          /\ \A c \in Contributions : p \in DOMAIN c.edits =>
                BreaksAt(p, at, <<c.edits[p].to>>)
                   \subseteq BreaksAt(p, at, c.edits[p].from)
                                \cup BreaksAt(p, c.edits[p].from, <<c.edits[p].to>>)
====
