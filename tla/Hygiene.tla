---- MODULE Hygiene ----
(***************************************************************************)
(* The deterministic rules over one pull request (scripts/pr_hygiene.py)   *)
(* and the readers of a design document they use (scripts/design_doc.py).  *)
(*                                                                         *)
(* A path is <<directory, name>>; a tree is a function from the paths that *)
(* exist to their contents. A pull request is                              *)
(*   [title |-> [prefix, rest], labels, files, author, number]             *)
(* with files a set of [path, status]. A rule returns the set of problems  *)
(* it reports, so a pull request is clean when the union is empty.         *)
(***************************************************************************)
EXTENDS Changelog

CONSTANTS Slugs,          \* the well-formed slugs
          Versions,       \* the well-formed versions X.Y.Z
          ProposalNames   \* the names of the form YYYY-MM-DD-<slug>.md

None == "none"
KINDS == {"proposal", "delta", "charter", "archetype", "feat", "fix", "docs", "chore",
          "ci", "test", "release"}
HYGIENE_ONLY_KINDS == {"docs", "chore", "ci", "test"}
ARCHETYPE_KINDS == {"charter", "archetype"}

SRC == "packages/*/src"
TESTS == "packages/*/tests"
ARCH_DIR == "docs/architecture"
\* The directory itself, one somewhere below it, and a spelling that leaves it.
PROPOSAL_DIR == "docs/proposals"
PROPOSAL_SUBDIR == "docs/proposals/*"
PROPOSAL_ESCAPE == "docs/proposals/../*"
Tracking(name) == <<"packages/testprotocols", name>>
CHANGELOG == <<"", "CHANGELOG.md">>
MAINTAINERS_FILE == <<"", "MAINTAINERS.md">>
DEPRECATIONS == Tracking("DEPRECATIONS.md")
GAPS == Tracking("GAPS.md")
TRACKING_FILES == {GAPS, Tracking("SPLITS.md"), Tracking("LEVELS.md"), DEPRECATIONS}
CHANGELOG_FILES == {CHANGELOG, DEPRECATIONS}
VERSION_FILES == {Tracking("pyproject.toml"), <<"packages/testoperations", "pyproject.toml">>}
DocPath(slug) == <<ARCH_DIR, slug>>   \* docs/architecture/<slug>-protocol-design.md

ParseKind(t) ==
    IF t.prefix = "feat!" THEN "feat" ELSE IF t.prefix \in KINDS THEN t.prefix ELSE None

Kind(pr) == ParseKind(pr.title)
Paths(pr) == {f.path : f \in pr.files}
IsSourcePath(p) == p[1] = SRC
\* A directory below docs/architecture has a name of its own: one level deep.
IsDecisionFile(p) == p[1] = ARCH_DIR \/ p \in TRACKING_FILES
IsProposalDoc(p) == /\ p[1] \in {PROPOSAL_DIR, PROPOSAL_SUBDIR, PROPOSAL_ESCAPE}
                    /\ p # <<PROPOSAL_DIR, "README.md">>
SafeRelative(p) == p[1] # PROPOSAL_ESCAPE
AddedProposals(pr) == {f.path : f \in {g \in pr.files : g.status = "added" /\ IsProposalDoc(g.path)}}
TouchesSource(pr) == \E p \in Paths(pr) : IsSourcePath(p)

----------------------------------------------------------------------------
\* A design document: [status, sections, header, rows]; sections a sequence
\* of <<number, title>>, header the named columns of the manifest's table,
\* rows a set of [mechanism, breaking, placement].

STATUSES == <<"chartered", "accepted for verification", "verified">>
MECHANISMS == {"driver-only", "reuse", "defaulted field", "white-box", "extend", "deprecate",
               "remove", "new capability", "archetype", "record"}
BREAKING_MECHANISMS == {"extend", "remove"}
PROPOSAL_MECHANISMS == MECHANISMS \ {"record"}

StatusRank(s) == CHOOSE i \in DOMAIN STATUSES : STATUSES[i] = s
HasManifest(doc) == \E i \in DOMAIN doc.sections : doc.sections[i][1] = 12
ManifestProblems(doc) ==
    IF ~HasManifest(doc) \/ doc.header = {} THEN {}
    ELSE IF "mechanism" \notin doc.header THEN {"no Mechanism column"}
    ELSE UNION {IF r.mechanism \notin MECHANISMS THEN {"not a rung"}
                ELSE Problem(/\ "breaking" \in doc.header
                             /\ r.breaking # (r.mechanism \in BREAKING_MECHANISMS),
                             "Breaking does not follow from the rung")
                : r \in doc.rows}
TierStagedRows(doc) ==
    IF HasManifest(doc) THEN {r \in doc.rows : r.placement = "tier-staged"} ELSE {}

----------------------------------------------------------------------------
\* The rules, in the order run_checks applies them.

CheckTitle(pr) == Problem(Kind(pr) = None, "no kind prefix")

CheckKindScope_AnyFile(pr) ==
    [ problems |-> Problem(Kind(pr) \in HYGIENE_ONLY_KINDS /\ TouchesSource(pr),
                           "changes package source"),
      setReview |-> Kind(pr) \in HYGIENE_ONLY_KINDS /\ ~TouchesSource(pr) ]

\* The problems, and whether the job sets the review status itself.
CheckKindScope(pr) ==
    IF Kind(pr) \notin HYGIENE_ONLY_KINDS THEN [problems |-> {}, setReview |-> FALSE]
    ELSE IF TouchesSource(pr)
    THEN [problems |-> {"changes package source"}, setReview |-> FALSE]
    ELSE [problems |-> {}, setReview |-> ~\E p \in Paths(pr) : IsDecisionFile(p)]

CheckChangelogTouched(pr) ==
    Problem(/\ "skip-changelog" \notin pr.labels
            /\ TouchesSource(pr) /\ CHANGELOG \notin Paths(pr), "no changelog entry")

ChangesChangelogFiles(pr) == Paths(pr) \cap CHANGELOG_FILES # {}
MainChangelog(main) == IF CHANGELOG \in DOMAIN main THEN main[CHANGELOG] ELSE <<>>

CheckChangelogEntries(pr, main, head) ==
    IF ~ChangesChangelogFiles(pr) THEN {}
    ELSE IF ~(CHANGELOG_FILES \subseteq DOMAIN head) THEN {"could not read"}
    ELSE EntryProblems(head[CHANGELOG], MainChangelog(main), pr.number)
           \cup RegisterProblems(head[CHANGELOG], head[DEPRECATIONS])

CheckProposalDir(pr) ==
    IF Kind(pr) \in {"proposal", "delta"} THEN {}
    ELSE Problem(AddedProposals(pr) # {}, "a proposal enters by a proposal PR")
           \cup Problem(/\ Kind(pr) \in HYGIENE_ONLY_KINDS
                        /\ \E f \in pr.files : f.status # "added" /\ IsProposalDoc(f.path),
                        "a hygiene-only kind may not change a proposal")

ProposalItemProblems(doc) ==
    UNION {IF i.mechanism = None THEN {"no Mechanism"}
           ELSE Problem(i.mechanism \notin PROPOSAL_MECHANISMS, "not a rung") : i \in doc.items}

HEADER_ROWS == {"Date", "Use case", "Round", "Status"}
CheckProposal(pr, head) ==
    IF Kind(pr) # "proposal" THEN {}
    ELSE IF Cardinality(AddedProposals(pr)) # 1 \/ Paths(pr) # AddedProposals(pr)
    THEN {"not exactly one added proposal"}
    ELSE LET path == CHOOSE p \in AddedProposals(pr) : TRUE
         IN IF path[1] # PROPOSAL_DIR \/ path[2] \notin ProposalNames
            THEN {"proposal file name"}
            ELSE IF path \notin DOMAIN head THEN {"could not read"}
            ELSE UNION { Problem(~(HEADER_ROWS \subseteq head[path].rows), "header rows"),
                         Problem(~\E i \in head[path].items : i.id = "P1", "no P1"),
                         ProposalItemProblems(head[path]) }

CheckDelta(pr) ==
    Problem(/\ Kind(pr) = "delta"
            /\ ~(\E p \in Paths(pr) : /\ IsProposalDoc(p)
                                      /\ pr.files = {[path |-> p, status |-> "modified"]}),
            "not exactly one modified proposal")

TitleSlug(pr) ==
    IF Kind(pr) \in ARCHETYPE_KINDS /\ pr.title.rest \in Slugs THEN pr.title.rest ELSE None

CheckMaintainerOpened(pr, main) ==
    Problem(/\ Kind(pr) \in ARCHETYPE_KINDS
            /\ ~(MAINTAINERS_FILE \in DOMAIN main /\ pr.author \in main[MAINTAINERS_FILE]),
            "not opened by a maintainer")

CheckCharter(pr, head) ==
    IF Kind(pr) # "charter" THEN {}
    ELSE IF TitleSlug(pr) = None THEN {"title is no slug"}
    ELSE LET path == DocPath(TitleSlug(pr))
         IN IF pr.files # {[path |-> path, status |-> "added"]} THEN {"not exactly the charter"}
            ELSE IF path \notin DOMAIN head THEN {"could not read"}
            ELSE Problem(head[path].status # "chartered", "enters as chartered")
                   \cup Problem(head[path].sections # << <<1, "Charter">> >>, "only the charter")

ArchetypeCompanion(f) ==
    \/ f.path[1] \in {SRC, TESTS} \/ f.path \in TRACKING_FILES \cup {CHANGELOG}
    \/ f.path[1] = ARCH_DIR /\ f.status = "modified"

CheckArchetype(pr, main, head) ==
    LET path == DocPath(TitleSlug(pr))
        InStatuses(doc) == doc.status \in ToSet(STATUSES)
        unmodified == Problem([path |-> path, status |-> "modified"] \notin pr.files,
                              "does not modify its design")
        others == Problem(\E f \in pr.files : f.path # path /\ ~ArchetypeCompanion(f),
                          "changes another file")
    IN IF Kind(pr) # "archetype" THEN {}
       ELSE IF TitleSlug(pr) = None THEN {"title is no slug"}
       ELSE IF path \notin DOMAIN main THEN unmodified \cup {"no charter on main"}
       ELSE IF path \notin DOMAIN head THEN unmodified \cup others \cup {"could not read"}
       ELSE IF ~InStatuses(head[path]) THEN unmodified \cup others \cup {"no such Status"}
       ELSE UNION {
              unmodified, others,
              Problem(/\ InStatuses(main[path])
                      /\ StatusRank(head[path].status) < StatusRank(main[path].status),
                      "Status moves backwards"),
              Problem(TouchesSource(pr) /\ head[path].status = "chartered", "source at stage 4"),
              Problem(TouchesSource(pr) /\ ~HasManifest(head[path]), "no landing manifest"),
              ManifestProblems(head[path]),
              IF head[path].status # "verified" \/ TierStagedRows(head[path]) = {} THEN {}
              ELSE IF GAPS \notin DOMAIN head THEN {"could not read"}
              ELSE Problem(path \notin head[GAPS], "no pointer in GAPS.md") }

UnfilledRegisterRows(register) ==
    Problem(\E r \in ToSet(register) : r.deprecatedIn = NEXT_RELEASE, "unfilled row")

CheckRelease_HeadingOnly(pr, head) ==
    IF Kind(pr) # "release" THEN {}
    ELSE IF pr.title.rest \notin Versions THEN {"title is no version"}
    ELSE IF CHANGELOG \notin DOMAIN head THEN {"could not read"}
    ELSE VersionProblems(head, pr.title.rest, VERSION_FILES)
           \cup UnfilledRegisterRows(IF DEPRECATIONS \in DOMAIN head
                                     THEN head[DEPRECATIONS] ELSE <<>>)

CheckRelease(pr, head) ==
    LET version == pr.title.rest
        versions == VersionProblems(head, version, VERSION_FILES)
    IN IF Kind(pr) # "release" THEN {}
       ELSE IF version \notin Versions THEN {"title is no version"}
       ELSE IF CHANGELOG \notin DOMAIN head THEN versions \cup {"could not read"}
       ELSE LET log == head[CHANGELOG]
                heading == SelectInSeq(log, LAMBDA s : s.heading = version /\ s.dated)
            IN IF heading = 0 THEN versions \cup {"no dated heading"}
               ELSE IF Unreleased(log) = 0 \/ Unreleased(log) > heading
               THEN versions \cup {"no fresh [Unreleased]"}
               ELSE UNION { versions, Section(log, version, FALSE),
                            UnfilledRegisterRows(IF DEPRECATIONS \in DOMAIN head
                                                 THEN head[DEPRECATIONS] ELSE <<>>) }

CheckGapsPointers(pr, main) ==
    Problem(/\ Kind(pr) \in {"proposal", "release"}
            /\ \E p \in DOMAIN main :
                  /\ IsProposalDoc(p) /\ p[1] = PROPOSAL_DIR /\ main[p].declined
                  /\ ~(GAPS \in DOMAIN main /\ p \in main[GAPS]),
            "an outcome without a pointer")

RunChecks(pr, main, head) ==
    LET problems == UNION {
            CheckTitle(pr), CheckKindScope(pr).problems, CheckChangelogTouched(pr),
            CheckChangelogEntries(pr, main, head), CheckProposalDir(pr), CheckProposal(pr, head),
            CheckDelta(pr), CheckMaintainerOpened(pr, main), CheckCharter(pr, head),
            CheckArchetype(pr, main, head), CheckRelease(pr, head), CheckGapsPointers(pr, main) }
    IN [problems |-> problems, setReview |-> CheckKindScope(pr).setReview /\ problems = {}]

----------------------------------------------------------------------------
\* What the workflow asks before and beside the check.

REVIEWED_KINDS ==
    [proposal |-> "proposal", delta |-> "proposal", charter |-> "archetype",
     archetype |-> "archetype", feat |-> "code", fix |-> "code", release |-> "release"]

IsDesignRecord(decision) ==
    LET designs == {p \in decision : p[1] = ARCH_DIR}
    IN designs # {} /\ decision \subseteq designs \cup {GAPS}

ReviewersFor(pr) ==
    LET kind == Kind(pr)
        decision == {p \in Paths(pr) : IsDecisionFile(p)}
    IN IF kind = None THEN {}
       ELSE (IF kind \in DOMAIN REVIEWED_KINDS THEN {REVIEWED_KINDS[kind]} ELSE {})
              \cup (IF kind \in ARCHETYPE_KINDS
                    THEN IF TouchesSource(pr) THEN {"code"} ELSE {}
                    ELSE IF decision = {} THEN {}
                    ELSE IF kind = "docs" /\ IsDesignRecord(decision) THEN {"archetype"}
                    ELSE {"proposal"})

HeadPaths_NoPointers(pr) ==
    (IF Kind(pr) = "proposal" THEN {p \in AddedProposals(pr) : SafeRelative(p)}
     ELSE IF Kind(pr) = "release" THEN VERSION_FILES \cup CHANGELOG_FILES
     ELSE IF TitleSlug(pr) = None THEN {} ELSE {DocPath(TitleSlug(pr))})
    \cup (IF ChangesChangelogFiles(pr) THEN CHANGELOG_FILES ELSE {})

HeadPaths(pr) ==
    (IF Kind(pr) = "proposal" THEN {p \in AddedProposals(pr) : SafeRelative(p)}
     ELSE IF Kind(pr) = "release" THEN VERSION_FILES \cup CHANGELOG_FILES
     ELSE IF TitleSlug(pr) = None THEN {}
     ELSE {DocPath(TitleSlug(pr))} \cup (IF Kind(pr) = "archetype" THEN {GAPS} ELSE {}))
    \cup (IF ChangesChangelogFiles(pr) THEN CHANGELOG_FILES ELSE {})
====
