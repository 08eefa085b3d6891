---- MODULE RepositoryProofs ----
(***************************************************************************)
(* What holds of main under any number of pull requests, whatever they     *)
(* change, in whatever order they are judged, pushed and land.             *)
(*                                                                         *)
(* The rules of hygiene read no more of a head than the workflow fetches,  *)
(* and decide about the review as reviewers_for does.                      *)
(*                                                                         *)
(* The changelog keeps what was said in it, and every release in it can be *)
(* printed. Main is judged through the heads of the branches only, and a   *)
(* merge makes of two files one that nobody judged: LogInv says what a     *)
(* branch has in common with the main that it left, and with main as it is *)
(* by now.                                                                 *)
(*                                                                         *)
(* What breaks the surface of main is told in its changelog. The surface   *)
(* tool finds every break of two surfaces (DiffFindsBreaks), lint has each *)
(* of them told by an entry of the change, and RecInv says what main and   *)
(* every branch told of the trees they come from, so that what two merges  *)
(* break between them is told too.                                         *)
(***************************************************************************)
EXTENDS Repository, FiniteSetTheorems, SequenceTheorems, TLAPS

\* What the fetch step leaves of a head.
Part(pr, head) == [p \in HeadPaths(pr) \cap DOMAIN head |-> head[p]]

\* A path that is fetched is there, and holds, what it is and holds in the head.
LEMMA PartAgrees ==
    ASSUME NEW pr, NEW head, NEW p \in HeadPaths(pr)
    PROVE  /\ p \in DOMAIN Part(pr, head) <=> p \in DOMAIN head
           /\ p \in DOMAIN head => Part(pr, head)[p] = head[p]
BY DEF Part

LEMMA FilesAgree ==
    ASSUME NEW pr, NEW head, NEW S \in SUBSET HeadPaths(pr)
    PROVE  S \subseteq DOMAIN Part(pr, head) <=> S \subseteq DOMAIN head
BY DEF Part

\* One lemma per rule that reads the head.
LEMMA EntriesAgree ==
    ASSUME NEW pr, NEW main, NEW head
    PROVE  CheckChangelogEntries(pr, main, Part(pr, head)) = CheckChangelogEntries(pr, main, head)
<1>1. CASE ~ChangesChangelogFiles(pr)
  BY <1>1 DEF CheckChangelogEntries
<1>2. CASE ChangesChangelogFiles(pr)
  <2>1. CHANGELOG_FILES \subseteq HeadPaths(pr)
    BY <1>2 DEF HeadPaths
  <2>2. CHANGELOG \in CHANGELOG_FILES /\ DEPRECATIONS \in CHANGELOG_FILES
    BY DEF CHANGELOG_FILES
  <2>3. CHANGELOG_FILES \subseteq DOMAIN Part(pr, head) <=> CHANGELOG_FILES \subseteq DOMAIN head
    BY <2>1, FilesAgree
  <2>4. CHANGELOG_FILES \subseteq DOMAIN head =>
           /\ Part(pr, head)[CHANGELOG] = head[CHANGELOG]
           /\ Part(pr, head)[DEPRECATIONS] = head[DEPRECATIONS]
    BY <2>1, <2>2, PartAgrees
  <2> QED  BY <1>2, <2>3, <2>4 DEF CheckChangelogEntries
<1> QED  BY <1>1, <1>2

LEMMA ProposalAgrees ==
    ASSUME NEW pr, NEW head
    PROVE  CheckProposal(pr, Part(pr, head)) = CheckProposal(pr, head)
<1> DEFINE path == CHOOSE p \in AddedProposals(pr) : TRUE
<1>1. CASE Kind(pr) # "proposal" \/ Cardinality(AddedProposals(pr)) # 1
  BY <1>1 DEF CheckProposal
<1>2. CASE Kind(pr) = "proposal" /\ Cardinality(AddedProposals(pr)) = 1
  <2>1. AddedProposals(pr) # {}
    BY <1>2, FS_EmptySet
  <2>2. CASE path[1] # PROPOSAL_DIR
    BY <1>2, <2>2 DEF CheckProposal
  <2>3. CASE path[1] = PROPOSAL_DIR
    <3>1. SafeRelative(path)
      BY <2>3 DEF SafeRelative, PROPOSAL_DIR, PROPOSAL_ESCAPE
    <3>2. path \in HeadPaths(pr)
      BY <1>2, <2>1, <3>1 DEF HeadPaths
    <3>3. /\ path \in DOMAIN Part(pr, head) <=> path \in DOMAIN head
          /\ path \in DOMAIN head => Part(pr, head)[path] = head[path]
      BY <3>2, PartAgrees
    <3> QED  BY <1>2, <3>3 DEF CheckProposal
  <2> QED  BY <2>2, <2>3
<1> QED  BY <1>1, <1>2

LEMMA CharterAgrees ==
    ASSUME NEW pr, NEW head
    PROVE  CheckCharter(pr, Part(pr, head)) = CheckCharter(pr, head)
<1> DEFINE path == DocPath(TitleSlug(pr))
<1>1. CASE Kind(pr) # "charter" \/ TitleSlug(pr) = None
  BY <1>1 DEF CheckCharter
<1>2. CASE Kind(pr) = "charter" /\ TitleSlug(pr) # None
  <2>1. path \in HeadPaths(pr)
    BY <1>2 DEF HeadPaths
  <2>2. /\ path \in DOMAIN Part(pr, head) <=> path \in DOMAIN head
        /\ path \in DOMAIN head => Part(pr, head)[path] = head[path]
    BY <2>1, PartAgrees
  <2> QED  BY <1>2, <2>2 DEF CheckCharter
<1> QED  BY <1>1, <1>2

LEMMA ArchetypeAgrees ==
    ASSUME NEW pr, NEW main, NEW head
    PROVE  CheckArchetype(pr, main, Part(pr, head)) = CheckArchetype(pr, main, head)
<1> DEFINE path == DocPath(TitleSlug(pr))
<1>1. CASE Kind(pr) # "archetype" \/ TitleSlug(pr) = None
  BY <1>1 DEF CheckArchetype
<1>2. CASE Kind(pr) = "archetype" /\ TitleSlug(pr) # None
  <2>1. path \in HeadPaths(pr) /\ GAPS \in HeadPaths(pr)
    BY <1>2 DEF HeadPaths
  <2>2. /\ path \in DOMAIN Part(pr, head) <=> path \in DOMAIN head
        /\ path \in DOMAIN head => Part(pr, head)[path] = head[path]
        /\ GAPS \in DOMAIN Part(pr, head) <=> GAPS \in DOMAIN head
        /\ GAPS \in DOMAIN head => Part(pr, head)[GAPS] = head[GAPS]
    BY <2>1, PartAgrees
  <2>3. CASE path \notin DOMAIN head
    BY <1>2, <2>2, <2>3 DEF CheckArchetype
  <2>4. CASE path \in DOMAIN head
    <3>1. CASE GAPS \in DOMAIN head
      BY <1>2, <2>2, <2>4, <3>1 DEF CheckArchetype
    <3>2. CASE GAPS \notin DOMAIN head
      BY <1>2, <2>2, <2>4, <3>2 DEF CheckArchetype
    <3> QED  BY <3>1, <3>2
  <2> QED  BY <2>3, <2>4
<1> QED  BY <1>1, <1>2

LEMMA ReleaseAgrees ==
    ASSUME NEW pr, NEW head
    PROVE  CheckRelease(pr, Part(pr, head)) = CheckRelease(pr, head)
<1>1. CASE Kind(pr) # "release"
  BY <1>1 DEF CheckRelease
<1>2. CASE Kind(pr) = "release"
  <2>1. VERSION_FILES \cup CHANGELOG_FILES \subseteq HeadPaths(pr)
    BY <1>2 DEF HeadPaths
  <2>2. \A f \in VERSION_FILES : /\ f \in DOMAIN Part(pr, head) <=> f \in DOMAIN head
                                 /\ f \in DOMAIN head => Part(pr, head)[f] = head[f]
    BY <2>1, PartAgrees
  <2>3. VersionProblems(Part(pr, head), pr.title.rest, VERSION_FILES)
          = VersionProblems(head, pr.title.rest, VERSION_FILES)
    BY <2>2 DEF VersionProblems
  <2>4. CHANGELOG \in HeadPaths(pr) /\ DEPRECATIONS \in HeadPaths(pr)
    BY <2>1 DEF CHANGELOG_FILES
  <2>5. /\ CHANGELOG \in DOMAIN Part(pr, head) <=> CHANGELOG \in DOMAIN head
        /\ CHANGELOG \in DOMAIN head => Part(pr, head)[CHANGELOG] = head[CHANGELOG]
        /\ DEPRECATIONS \in DOMAIN Part(pr, head) <=> DEPRECATIONS \in DOMAIN head
        /\ DEPRECATIONS \in DOMAIN head => Part(pr, head)[DEPRECATIONS] = head[DEPRECATIONS]
    BY <2>4, PartAgrees
  <2>6. CASE CHANGELOG \notin DOMAIN head
    BY <1>2, <2>3, <2>5, <2>6 DEF CheckRelease
  <2>7. CASE CHANGELOG \in DOMAIN head
    <3>1. CASE DEPRECATIONS \in DOMAIN head
      BY <1>2, <2>3, <2>5, <2>7, <3>1 DEF CheckRelease
    <3>2. CASE DEPRECATIONS \notin DOMAIN head
      BY <1>2, <2>3, <2>5, <2>7, <3>2 DEF CheckRelease
    <3> QED  BY <3>1, <3>2
  <2> QED  BY <2>6, <2>7
<1> QED  BY <1>1, <1>2

LEMMA PartIsEnough ==
    ASSUME NEW pr, NEW main, NEW head
    PROVE  RunChecks(pr, main, Part(pr, head)) = RunChecks(pr, main, head)
BY EntriesAgree, ProposalAgrees, CharterAgrees, ArchetypeAgrees, ReleaseAgrees, Zenon DEF RunChecks

\* A part of a head, of which a rule that passes it has seen all that it reads:
\* a file that is not there is told, but for the register of a release.
PartOf(part, head) ==
    DOMAIN part \subseteq DOMAIN head /\ \A p \in DOMAIN part : part[p] = head[p]

LEMMA EntriesMissed ==
    ASSUME NEW pr, NEW main, NEW head, NEW part, PartOf(part, head),
           CheckChangelogEntries(pr, main, part) = {}
    PROVE  /\ CheckChangelogEntries(pr, main, head) = {}
           /\ ChangesChangelogFiles(pr) => CHANGELOG_FILES \subseteq DOMAIN part
<1>1. CASE ~ChangesChangelogFiles(pr)
  BY <1>1 DEF CheckChangelogEntries
<1>2. CASE ChangesChangelogFiles(pr)
  <2>1. CHANGELOG_FILES \subseteq DOMAIN part
    BY <1>2 DEF CheckChangelogEntries
  <2>2. /\ CHANGELOG_FILES \subseteq DOMAIN head
        /\ part[CHANGELOG] = head[CHANGELOG] /\ part[DEPRECATIONS] = head[DEPRECATIONS]
    BY <2>1 DEF PartOf, CHANGELOG_FILES
  <2> QED  BY <1>2, <2>1, <2>2 DEF CheckChangelogEntries
<1> QED  BY <1>1, <1>2

LEMMA ProposalMissed ==
    ASSUME NEW pr, NEW head, NEW part, PartOf(part, head), CheckProposal(pr, part) = {}
    PROVE  CheckProposal(pr, head) = {}
<1> DEFINE path == CHOOSE p \in AddedProposals(pr) : TRUE
<1>1. CASE Kind(pr) # "proposal"
  BY <1>1 DEF CheckProposal
<1>2. CASE Kind(pr) = "proposal"
  <2>1. path \in DOMAIN part
    BY <1>2 DEF CheckProposal
  <2>2. path \in DOMAIN head /\ part[path] = head[path]
    BY <2>1 DEF PartOf
  <2> QED  BY <1>2, <2>1, <2>2 DEF CheckProposal
<1> QED  BY <1>1, <1>2

LEMMA CharterMissed ==
    ASSUME NEW pr, NEW head, NEW part, PartOf(part, head), CheckCharter(pr, part) = {}
    PROVE  CheckCharter(pr, head) = {}
<1> DEFINE path == DocPath(TitleSlug(pr))
<1>1. CASE Kind(pr) # "charter"
  BY <1>1 DEF CheckCharter
<1>2. CASE Kind(pr) = "charter"
  <2>1. path \in DOMAIN part
    BY <1>2 DEF CheckCharter
  <2>2. path \in DOMAIN head /\ part[path] = head[path]
    BY <2>1 DEF PartOf
  <2> QED  BY <1>2, <2>1, <2>2 DEF CheckCharter
<1> QED  BY <1>1, <1>2

LEMMA ArchetypeMissed ==
    ASSUME NEW pr, NEW main, NEW head, NEW part, PartOf(part, head),
           CheckArchetype(pr, main, part) = {}
    PROVE  CheckArchetype(pr, main, head) = {}
<1> DEFINE path == DocPath(TitleSlug(pr))
<1>1. CASE Kind(pr) # "archetype"
  BY <1>1 DEF CheckArchetype
<1>2. CASE Kind(pr) = "archetype"
  <2>1. path \in DOMAIN part
    BY <1>2 DEF CheckArchetype
  <2>2. path \in DOMAIN head /\ part[path] = head[path]
    BY <2>1 DEF PartOf
  <2>3. CASE head[path].status # "verified" \/ TierStagedRows(head[path]) = {}
    <3>1. CheckArchetype(pr, main, head) = CheckArchetype(pr, main, part)
      BY <1>2, <2>1, <2>2, <2>3 DEF CheckArchetype
    <3> QED  BY <3>1
  <2>4. CASE ~(head[path].status # "verified" \/ TierStagedRows(head[path]) = {})
    <3>1. GAPS \in DOMAIN part
      BY <1>2, <2>1, <2>2, <2>4 DEF CheckArchetype
    <3>2. GAPS \in DOMAIN head /\ head[GAPS] = part[GAPS]
      BY <3>1 DEF PartOf
    <3>3. CheckArchetype(pr, main, head) = CheckArchetype(pr, main, part)
      BY <1>2, <2>1, <2>2, <2>4, <3>1, <3>2 DEF CheckArchetype
    <3> QED  BY <3>3
  <2> QED  BY <2>3, <2>4
<1> QED  BY <1>1, <1>2

\* What a release tells of itself, without the rows of its register.
LEMMA ReleaseMissed ==
    ASSUME NEW pr, NEW head, NEW part, PartOf(part, head), CheckRelease(pr, part) = {}
    PROVE  /\ CheckRelease(pr, head) \subseteq {"unfilled row"}
           /\ Kind(pr) = "release" /\ DEPRECATIONS \in DOMAIN part => CheckRelease(pr, head) = {}
<1>1. CASE Kind(pr) # "release"
  BY <1>1 DEF CheckRelease
<1>2. CASE Kind(pr) = "release"
  <2>1. VersionProblems(part, pr.title.rest, VERSION_FILES) = {}
    BY <1>2 DEF CheckRelease
  <2>2. VersionProblems(head, pr.title.rest, VERSION_FILES) = {}
    BY <2>1 DEF VersionProblems, Problem, PartOf
  <2>3. CHANGELOG \in DOMAIN part
    BY <1>2 DEF CheckRelease
  <2>4. CHANGELOG \in DOMAIN head /\ part[CHANGELOG] = head[CHANGELOG]
    BY <2>3 DEF PartOf
  <2>5. \A register : UnfilledRegisterRows(register) \subseteq {"unfilled row"}
    BY DEF UnfilledRegisterRows, Problem
  <2>6. CheckRelease(pr, head) \subseteq {"unfilled row"}
    BY <1>2, <2>1, <2>2, <2>3, <2>4, <2>5 DEF CheckRelease
  <2>7. CASE DEPRECATIONS \in DOMAIN part
    <3>1. DEPRECATIONS \in DOMAIN head /\ part[DEPRECATIONS] = head[DEPRECATIONS]
      BY <2>7 DEF PartOf
    <3>2. CheckRelease(pr, head) = CheckRelease(pr, part)
      BY <1>2, <2>1, <2>2, <2>3, <2>4, <2>7, <3>1 DEF CheckRelease
    <3> QED  BY <2>6, <3>2
  <2> QED  BY <2>6, <2>7
<1> QED  BY <1>1, <1>2

LEMMA LostIsMissed ==
    ASSUME NEW pr, NEW main, NEW head, NEW part, PartOf(part, head),
           RunChecks(pr, main, part).problems = {}
    PROVE  /\ CheckRelease(pr, head) \subseteq {"unfilled row"}
           /\ (Kind(pr) = "release" => ChangesChangelogFiles(pr))
                => RunChecks(pr, main, part) = RunChecks(pr, main, head)
<1>1. /\ CheckChangelogEntries(pr, main, part) = {} /\ CheckProposal(pr, part) = {}
      /\ CheckCharter(pr, part) = {} /\ CheckArchetype(pr, main, part) = {}
      /\ CheckRelease(pr, part) = {}
  BY DEF RunChecks
<1>2. /\ CheckChangelogEntries(pr, main, head) = {} /\ CheckProposal(pr, head) = {}
      /\ CheckCharter(pr, head) = {} /\ CheckArchetype(pr, main, head) = {}
  BY <1>1, EntriesMissed, ProposalMissed, CharterMissed, ArchetypeMissed
<1>3. CheckRelease(pr, head) \subseteq {"unfilled row"}
  BY <1>1, ReleaseMissed
<1>4. ASSUME Kind(pr) = "release" => ChangesChangelogFiles(pr)
      PROVE  RunChecks(pr, main, part) = RunChecks(pr, main, head)
  <2>1. CASE Kind(pr) = "release"
    <3>1. DEPRECATIONS \in DOMAIN part
      BY <1>1, <1>4, <2>1, EntriesMissed DEF CHANGELOG_FILES
    <3>2. CheckRelease(pr, head) = {}
      BY <1>1, <2>1, <3>1, ReleaseMissed
    <3> QED  BY <1>1, <1>2, <3>2, Zenon DEF RunChecks
  <2>2. CASE Kind(pr) # "release"
    <3>1. CheckRelease(pr, head) = {}
      BY <2>2 DEF CheckRelease
    <3> QED  BY <1>1, <1>2, <3>1, Zenon DEF RunChecks
  <2> QED  BY <2>1, <2>2
<1> QED  BY <1>3, <1>4

LEMMA FetchedIsPart ==
    ASSUME NEW pr, NEW lost
    PROVE  /\ PartOf(Fetched(pr, lost), pr.head)
           /\ lost = {} => Fetched(pr, lost) = Part(AsPr(pr), pr.head)
BY DEF PartOf, Fetched, Part

\* The fetch step of hygiene.yml leaves the rules all they read, of every head of
\* every kind of pull request, and where it fails the rules tell.
THEOREM FilesFetchedCorrect == Spec => []FilesFetched
<1>1. FilesFetched
  <2>1. ASSUME NEW s \in Open, NEW lost \in SUBSET HeadPaths(AsPr(prs[s])), lost = {}
        PROVE  RunChecks(AsPr(prs[s]), mainTree, Fetched(prs[s], lost))
                 = RunChecks(AsPr(prs[s]), mainTree, prs[s].head)
    BY <2>1, FetchedIsPart, PartIsEnough
  <2>2. ASSUME NEW s \in Open, NEW lost \in SUBSET HeadPaths(AsPr(prs[s])),
               RunChecks(AsPr(prs[s]), mainTree, Fetched(prs[s], lost)).problems = {},
               Kind(AsPr(prs[s])) = "release" => ChangesChangelogFiles(AsPr(prs[s]))
        PROVE  RunChecks(AsPr(prs[s]), mainTree, Fetched(prs[s], lost))
                 = RunChecks(AsPr(prs[s]), mainTree, prs[s].head)
    BY <2>2, FetchedIsPart, LostIsMissed
  <2> QED  BY <2>1, <2>2 DEF FilesFetched
<1> QED  BY <1>1, PTL

----------------------------------------------------------------------------
\* check_kind_scope and reviewers_for agree about a pull request whose title and
\* scope pass.
LEMMA Routes ==
    ASSUME NEW pr, CheckTitle(pr) = {}, CheckKindScope(pr).problems = {}
    PROVE  CheckKindScope(pr).setReview <=> ReviewersFor(pr) = {}
<1> DEFINE decision == {p \in Paths(pr) : IsDecisionFile(p)}
<1>1. Kind(pr) \in KINDS /\ Kind(pr) # None
  BY DEF CheckTitle, Problem, Kind, ParseKind, KINDS
<1>2. CASE Kind(pr) \in HYGIENE_ONLY_KINDS
  <2>1. ~TouchesSource(pr)
    BY <1>2 DEF CheckKindScope
  <2>2. CheckKindScope(pr).setReview <=> decision = {}
    BY <1>2, <2>1 DEF CheckKindScope
  <2>3. Kind(pr) \notin DOMAIN REVIEWED_KINDS /\ Kind(pr) \notin ARCHETYPE_KINDS
    BY <1>2 DEF HYGIENE_ONLY_KINDS, REVIEWED_KINDS, ARCHETYPE_KINDS
  <2>4. ReviewersFor(pr) = {} <=> decision = {}
    BY <1>1, <2>3 DEF ReviewersFor
  <2> QED  BY <2>2, <2>4
<1>3. CASE Kind(pr) \notin HYGIENE_ONLY_KINDS
  <2>1. ~CheckKindScope(pr).setReview
    BY <1>3 DEF CheckKindScope
  <2>2. Kind(pr) \in DOMAIN REVIEWED_KINDS
    BY <1>1, <1>3 DEF KINDS, HYGIENE_ONLY_KINDS, REVIEWED_KINDS
  <2>3. REVIEWED_KINDS[Kind(pr)] \in ReviewersFor(pr)
    BY <1>1, <2>2 DEF ReviewersFor
  <2> QED  BY <2>1, <2>3
<1> QED  BY <1>2, <1>3

\* A pull request that is open is a whole record, and one that passed still has
\* the title and the scope that passed: a push takes the verdict back.
FIELDS == {"open", "title", "author", "number", "base", "head", "hygiene", "lint"}
Passed(pr) == /\ CheckTitle(AsPr(pr)) = {}
              /\ CheckKindScope(AsPr(pr)).problems = {}
KeptPr(pr) == pr.open => /\ DOMAIN pr = FIELDS
                         /\ pr.hygiene = "success" => Passed(pr)
KeptInv == DOMAIN prs = Slots /\ \A s \in Slots : KeptPr(prs[s])

LEMMA PushedIsKept ==
    ASSUME NEW title, NEW author, NEW number, NEW base, NEW head
    PROVE  KeptPr(Pushed(title, author, number, base, head))
BY DEF KeptPr, Pushed, FIELDS

LEMMA ClosedIsKept == KeptPr(NoPr)
BY DEF KeptPr, NoPr

\* A step that puts one record in one slot.
LEMMA OneSlot ==
    ASSUME KeptInv, NEW s \in Slots, NEW pr, KeptPr(pr), prs' = [prs EXCEPT ![s] = pr]
    PROVE  KeptInv'
BY DEF KeptInv

LEMMA ClearRules ==
    ASSUME NEW pr, NEW main, NEW head, RunChecks(pr, main, head).problems = {}
    PROVE  CheckTitle(pr) = {} /\ CheckKindScope(pr).problems = {}
BY DEF RunChecks

\* What a verdict changes of a pull request: nothing that the rules read.
JudgedAs(s, pr) ==
    /\ prs' = [prs EXCEPT ![s] = pr] /\ DOMAIN pr = FIELDS
    /\ \A f \in FIELDS \ {"hygiene"} : pr[f] = prs[s][f]
    /\ AsPr(pr) = AsPr(prs[s]) /\ pr.hygiene \in {"success", "failure"}
    /\ pr.hygiene = "success" =>
          Passed(pr) /\ CheckRelease(AsPr(pr), pr.head) \subseteq {"unfilled row"}

LEMMA Judged ==
    ASSUME KeptInv, HygieneJob
    PROVE  \E s \in Open : \E pr : JudgedAs(s, pr)
<1>1. PICK s \in Open : \E lost \in SUBSET HeadPaths(AsPr(prs[s])) :
         prs' = [prs EXCEPT ![s].hygiene =
                    IF RunChecks(AsPr(prs[s]), mainTree, Fetched(prs[s], lost)).problems = {}
                    THEN "success" ELSE "failure"]
  BY DEF HygieneJob
<1>a. PICK lost \in SUBSET HeadPaths(AsPr(prs[s])) :
         prs' = [prs EXCEPT ![s].hygiene =
                    IF RunChecks(AsPr(prs[s]), mainTree, Fetched(prs[s], lost)).problems = {}
                    THEN "success" ELSE "failure"]
  BY <1>1
<1> DEFINE result == RunChecks(AsPr(prs[s]), mainTree, Fetched(prs[s], lost))
           verdict == IF result.problems = {} THEN "success" ELSE "failure"
           pr == [prs[s] EXCEPT !.hygiene = verdict]
<1>2. s \in Slots /\ DOMAIN prs[s] = FIELDS
  BY DEF Open, KeptInv, KeptPr
<1>3. prs' = [prs EXCEPT ![s] = pr]
  BY <1>a
<1>4. /\ DOMAIN pr = FIELDS /\ pr.hygiene = verdict
      /\ \A f \in FIELDS \ {"hygiene"} : pr[f] = prs[s][f]
  BY <1>2 DEF FIELDS
<1>5. /\ pr.title = prs[s].title /\ pr.author = prs[s].author /\ pr.number = prs[s].number
      /\ pr.base = prs[s].base /\ pr.head = prs[s].head
  BY <1>4 DEF FIELDS
<1> HIDE DEF pr
<1>6. AsPr(pr) = AsPr(prs[s])
  BY <1>5 DEF AsPr, Files
<1>7. verdict = "success" => Passed(pr) /\ CheckRelease(AsPr(pr), pr.head) \subseteq {"unfilled row"}
  BY <1>5, <1>6, FetchedIsPart, LostIsMissed, ClearRules DEF Passed
<1> QED  BY <1>3, <1>4, <1>6, <1>7 DEF JudgedAs

LEMMA JudgedIsKept == ASSUME KeptInv, HygieneJob PROVE KeptInv'
<1>1. PICK s \in Open : \E pr : JudgedAs(s, pr)
  BY Judged
<1>2. PICK pr : JudgedAs(s, pr)
  BY <1>1
<1>3. KeptPr(pr)
  BY <1>2 DEF JudgedAs, KeptPr
<1> QED  BY <1>2, <1>3, OneSlot DEF JudgedAs, Open

LEMMA KeptNext == KeptInv /\ [Next]_vars => KeptInv'
<1> SUFFICES ASSUME KeptInv, [Next]_vars  PROVE KeptInv'
  OBVIOUS
<1>1. CASE OpenPr
  BY <1>1, OneSlot, PushedIsKept DEF OpenPr
<1>2. CASE OpenRelease
  BY <1>2, OneSlot, PushedIsKept DEF OpenRelease
<1>3. CASE HygieneJob
  BY <1>3, JudgedIsKept
<1>4. CASE Push
  BY <1>4, OneSlot, PushedIsKept DEF Push, Open
<1>5. CASE Land
  BY <1>5, OneSlot, ClosedIsKept DEF Land, Open
<1>6. CASE Close
  BY <1>6, OneSlot, ClosedIsKept DEF Close, Open
<1>7. CASE UNCHANGED vars
  BY <1>7 DEF vars, KeptInv, KeptPr, Passed, AsPr, Files
<1> QED  BY <1>1, <1>2, <1>3, <1>4, <1>5, <1>6, <1>7 DEF Next

\* Whatever was pushed and whatever landed meanwhile: a pull request that
\* hygiene passes is either passed without a review or has reviewers.
THEOREM RoutedOnceCorrect == Spec => []RoutedOnce
<1>1. Init => KeptInv
  BY ClosedIsKept DEF Init, KeptInv
<1>2. KeptInv => RoutedOnce
  BY Routes DEF KeptInv, KeptPr, Passed, RoutedOnce, Open
<1> QED  BY <1>1, <1>2, KeptNext, PTL DEF Spec

----------------------------------------------------------------------------
\* What main's files are like, whatever landed on it. A branch carries the files
\* of the main that it left, so what is to be kept is a relation between main,
\* what each branch left, and what each branch has.

\* The sections of a changelog from the bottom: those of the start, the releases
\* in the order they landed, [Unreleased] on top; s is how many releases are in it.
Old == Len(Start[CHANGELOG])
HeadingAt(k, s) ==
    IF k = Old + s THEN UNRELEASED
    ELSE IF k >= Old THEN Releases[k - Old + 1] ELSE FromBottom(Start[CHANGELOG], k).heading
DatedAt(k, s) ==
    IF k = Old + s THEN FALSE
    ELSE IF k >= Old THEN TRUE ELSE FromBottom(Start[CHANGELOG], k).dated
HEADINGS == {sec.heading : sec \in ToSet(Start[CHANGELOG])} \cup {UNRELEASED} \cup ToSet(Releases)
Citing(e) == {[e EXCEPT !.fields = <<CITATION, n>>] : n \in 1..MaxPrs}
CONTRIBUTED == UNION {ToSet(c.entries) : c \in Contributions}
STARTED == UNION {ToSet(sec.entries) : sec \in ToSet(Start[CHANGELOG])}
CITED == UNION {Citing(e) : e \in CONTRIBUTED}
ENTRIES == STARTED \cup CITED
SECTIONS == [heading : HEADINGS, dated : BOOLEAN, entries : Seq(ENTRIES)]
LogOf(log, s) ==
    /\ log \in Seq(SECTIONS) /\ Len(log) = Old + s
    /\ \A k \in 1..Len(log) : /\ FromBottom(log, k).heading = HeadingAt(k, s)
                              /\ FromBottom(log, k).dated = DatedAt(k, s)

\* A changelog goes on from another: no section and no entry is lost or moved, and
\* what is new in a section that was there stands for something.
Before(old, log, k) ==
    LET was == FromBottom(old, k).entries
        is == FromBottom(log, k).entries
    IN /\ Len(was) <= Len(is)
       /\ \A i \in 1..Len(was) : is[i] = was[i]
       /\ \A i \in 1..Len(is) : i > Len(was) => is[i].text \notin PLACEHOLDERS
GoesOn(old, log) ==
    /\ Len(old) <= Len(log)
    /\ \A k \in 1..Len(old) : Before(old, log, k)

LEMMA BottomOf ==
    ASSUME NEW log \in Seq(SECTIONS), NEW k \in 1..Len(log)
    PROVE  /\ FromBottom(log, k) \in SECTIONS
           /\ FromBottom(log, k).heading \in HEADINGS /\ FromBottom(log, k).dated \in BOOLEAN
           /\ FromBottom(log, k).entries \in Seq(ENTRIES) /\ Len(FromBottom(log, k).entries) \in Nat
<1>1. Len(log) + 1 - k \in DOMAIN log
  OBVIOUS
<1>2. FromBottom(log, k) \in SECTIONS
  BY <1>1 DEF FromBottom
<1> QED  BY <1>2 DEF SECTIONS

LEMMA GoesOnFromItself == ASSUME NEW log \in Seq(SECTIONS) PROVE GoesOn(log, log)
<1>1. ASSUME NEW k \in 1..Len(log)  PROVE Before(log, log, k)
  <2>1. Len(FromBottom(log, k).entries) \in Nat
    BY BottomOf
  <2> QED  BY <2>1 DEF Before
<1> QED  BY <1>1 DEF GoesOn

LEMMA GoesOnFarther ==
    ASSUME NEW a \in Seq(SECTIONS), NEW b \in Seq(SECTIONS), NEW c \in Seq(SECTIONS),
           GoesOn(a, b), GoesOn(b, c)
    PROVE  GoesOn(a, c)
<1>1. Len(a) <= Len(b) /\ Len(b) <= Len(c) /\ Len(a) <= Len(c)
  BY DEF GoesOn
<1>2. ASSUME NEW k \in 1..Len(a)  PROVE Before(a, c, k)
  <2> DEFINE ea == FromBottom(a, k).entries
             eb == FromBottom(b, k).entries
             ec == FromBottom(c, k).entries
  <2>1. k \in 1..Len(b) /\ k \in 1..Len(c)
    BY <1>1
  <2>2. Len(ea) \in Nat /\ Len(eb) \in Nat /\ Len(ec) \in Nat
    BY <2>1, BottomOf
  <2>3. /\ Len(ea) <= Len(eb) /\ Len(eb) <= Len(ec)
        /\ \A i \in 1..Len(ea) : eb[i] = ea[i]
        /\ \A i \in 1..Len(eb) : i > Len(ea) => eb[i].text \notin PLACEHOLDERS
        /\ \A i \in 1..Len(eb) : ec[i] = eb[i]
        /\ \A i \in 1..Len(ec) : i > Len(eb) => ec[i].text \notin PLACEHOLDERS
    BY <2>1 DEF GoesOn, Before
  <2> HIDE DEF ea, eb, ec
  <2>4. Len(ea) <= Len(ec) /\ \A i \in 1..Len(ea) : ec[i] = ea[i]
    BY <2>2, <2>3
  <2>5. ASSUME NEW i \in 1..Len(ec), i > Len(ea)  PROVE ec[i].text \notin PLACEHOLDERS
    <3>1. CASE i > Len(eb)
      BY <3>1, <2>3
    <3>2. CASE ~(i > Len(eb))
      BY <3>2, <2>2, <2>3, <2>5
    <3> QED  BY <3>1, <3>2
  <2> QED  BY <2>4, <2>5 DEF Before, ea, eb, ec
<1> QED  BY <1>1, <1>2 DEF GoesOn

LEMMA AtStart ==
    /\ Old \in Nat \ {0} /\ Start[CHANGELOG] \in Seq(SECTIONS) /\ LogOf(Start[CHANGELOG], 0)
    /\ MaxPrs \in Nat /\ Len(Releases) \in Nat
    /\ \A i \in 1..Len(Releases) : Releases[i] \in HEADINGS /\ Releases[i] # UNRELEASED
    /\ \A i, j \in 1..Len(Releases) : Releases[i] = Releases[j] => i = j
    /\ \A i \in 1..Len(Releases) : \A k \in 1..Old :
          Releases[i] # FromBottom(Start[CHANGELOG], k).heading
    /\ \A k \in 1..(Old - 1) : FromBottom(Start[CHANGELOG], k).heading # UNRELEASED
<1> DEFINE log == Start[CHANGELOG]
           headings == {s.heading : s \in ToSet(log)}
           entries == UNION {ToSet(s.entries) : s \in ToSet(log)}
<1>1. /\ MaxPrs \in Nat
      /\ log \in Seq([heading : headings, dated : BOOLEAN, entries : Seq(entries)])
      /\ log # <<>> /\ log[1].heading = UNRELEASED /\ ~log[1].dated
      /\ \A i \in DOMAIN log : log[i].heading = UNRELEASED => i = 1
      /\ Releases \in Seq(Versions \ (headings \cup {UNRELEASED}))
      /\ \A i, j \in DOMAIN Releases : Releases[i] = Releases[j] => i = j
  BY RepositoryAssumption
<1>2. headings \subseteq HEADINGS /\ entries \subseteq ENTRIES
  BY DEF HEADINGS, ENTRIES, STARTED
<1>3. \A i \in DOMAIN log : log[i].heading \in headings
  BY DEF ToSet
<1> HIDE DEF log, headings, entries
<1>4. log \in Seq(SECTIONS)
  <2> DEFINE secs == [heading : headings, dated : BOOLEAN, entries : Seq(entries)]
  <2>1. secs \subseteq SECTIONS
    <3>1. Seq(entries) \subseteq Seq(ENTRIES)
      BY <1>2
    <3> QED  BY <1>2, <3>1 DEF SECTIONS
  <2>2. log \in Seq(secs)
    BY <1>1
  <2> HIDE DEF secs
  <2> QED  BY <2>1, <2>2
<1>5. Old \in Nat \ {0} /\ Len(log) = Old /\ DOMAIN log = 1..Old
  BY <1>1 DEF Old, log
<1>6. \A k \in 1..Old : /\ Old + 1 - k \in 1..Old /\ FromBottom(log, k) = log[Old + 1 - k]
                        /\ FromBottom(log, k).heading \in headings
  BY <1>3, <1>5 DEF FromBottom
<1>7. ASSUME NEW k \in 1..(Old - 1)  PROVE FromBottom(log, k).heading # UNRELEASED
  <2>1. k \in 1..Old /\ Old + 1 - k \in DOMAIN log /\ Old + 1 - k # 1
    BY <1>5
  <2> QED  BY <2>1, <1>1, <1>6
<1>8. LogOf(log, 0)
  <2>1. ASSUME NEW k \in 1..Old
        PROVE  FromBottom(log, k).heading = HeadingAt(k, 0) /\ FromBottom(log, k).dated = DatedAt(k, 0)
    <3>1. CASE k = Old
      <4>1. Old + 1 - k = 1 /\ k = Old + 0
        BY <3>1, <1>5
      <4>2. FromBottom(log, k) = log[1]
        BY <4>1, <1>6
      <4>3. HeadingAt(k, 0) = UNRELEASED /\ DatedAt(k, 0) = FALSE
        BY <4>1 DEF HeadingAt, DatedAt
      <4>4. log[1].dated \in BOOLEAN
        <5>1. 1 \in 1..Old
          BY <1>5
        <5>2. log[1] \in SECTIONS
          BY <5>1, <1>4, <1>5
        <5> QED  BY <5>2 DEF SECTIONS
      <4> QED  BY <4>2, <4>3, <4>4, <1>1
    <3>2. CASE k # Old
      <4>1. k # Old + 0 /\ ~(k >= Old)
        BY <3>2, <1>5
      <4> QED  BY <4>1 DEF HeadingAt, DatedAt, log
    <3> QED  BY <3>1, <3>2
  <2> QED  BY <2>1, <1>4, <1>5 DEF LogOf
<1>9. /\ Len(Releases) \in Nat /\ DOMAIN Releases = 1..Len(Releases)
      /\ \A i \in 1..Len(Releases) : /\ Releases[i] \in HEADINGS /\ Releases[i] # UNRELEASED
                                     /\ Releases[i] \notin headings
  BY <1>1 DEF HEADINGS, ToSet
<1> QED  BY <1>1, <1>4, <1>5, <1>6, <1>7, <1>8, <1>9 DEF log

\* [Unreleased] is the first section, and no other is.
LEMMA UnreleasedFirst ==
    ASSUME NEW s \in 0..Len(Releases), NEW log, LogOf(log, s)
    PROVE  /\ Unreleased(log) = 1 /\ Len(log) \in Nat \ {0} /\ DOMAIN log = 1..Len(log)
           /\ log[1] = FromBottom(log, Len(log)) /\ log[1].heading = UNRELEASED /\ ~log[1].dated
<1>1. log \in Seq(SECTIONS) /\ Len(log) = Old + s /\ Len(log) \in Nat \ {0} /\ DOMAIN log = 1..Len(log)
  BY AtStart DEF LogOf
<1>2. log[1] = FromBottom(log, Len(log))
  BY <1>1 DEF FromBottom
<1>3. log[1].heading = UNRELEASED /\ ~log[1].dated
  <2>1. HeadingAt(Old + s, s) = UNRELEASED /\ DatedAt(Old + s, s) = FALSE
    BY DEF HeadingAt, DatedAt
  <2>2. log[1].heading = HeadingAt(Old + s, s) /\ log[1].dated = DatedAt(Old + s, s)
    BY <1>1, <1>2 DEF LogOf
  <2> QED  BY <2>1, <2>2
<1> DEFINE I == {i \in 1..Len(log) : log[i].heading = UNRELEASED}
<1>4. 1 \in I /\ \A i \in I : 1 <= i /\ i \in Nat
  BY <1>1, <1>3
<1>5. Min(I) = 1
  <2> HIDE DEF I
  <2>1. \E x \in I : \A y \in I : x <= y
    BY <1>4
  <2>2. Min(I) \in I /\ \A y \in I : Min(I) <= y
    BY <2>1 DEF Min
  <2> QED  BY <2>2, <1>4
<1>6. Unreleased(log) = IF I # {} THEN Min(I) ELSE 0
  BY DEF Unreleased, SelectInSeq
<1> QED  BY <1>1, <1>2, <1>3, <1>4, <1>5, <1>6

\* A release is one dated section, at its place; no other section has its heading.
LEMMA ReleaseAt ==
    ASSUME NEW s \in 0..Len(Releases), NEW log, LogOf(log, s), NEW n \in 1..s
    PROVE  {i \in DOMAIN log : log[i].heading = Releases[n] /\ log[i].dated} = {Len(log) + 2 - Old - n}
<1>1. /\ log \in Seq(SECTIONS) /\ Len(log) = Old + s /\ DOMAIN log = 1..(Old + s) /\ Old \in Nat \ {0}
      /\ n \in 1..Len(Releases)
  BY AtStart DEF LogOf
<1>2. ASSUME NEW i \in 1..(Old + s)
      PROVE  log[i].heading = HeadingAt(Old + s + 1 - i, s) /\ log[i].dated = DatedAt(Old + s + 1 - i, s)
  <2>1. Old + s + 1 - i \in 1..(Old + s) /\ Old + s + 1 - (Old + s + 1 - i) = i
    BY <1>1
  <2> DEFINE k == Old + s + 1 - i
  <2>2. FromBottom(log, k) = log[i]
    BY <1>1, <2>1 DEF FromBottom
  <2> QED  BY <1>1, <2>1, <2>2 DEF LogOf
<1>3. /\ HeadingAt(Old + n - 1, s) = Releases[n] /\ DatedAt(Old + n - 1, s) = TRUE
      /\ Old + n - 1 \in 1..(Old + s)
  BY <1>1 DEF HeadingAt, DatedAt
<1>4. ASSUME NEW k \in 1..(Old + s), HeadingAt(k, s) = Releases[n]  PROVE k = Old + n - 1
  <2>1. CASE k = Old + s
    BY <2>1, <1>1, <1>4, AtStart DEF HeadingAt
  <2>2. CASE k # Old + s /\ k >= Old
    <3>1. k - Old + 1 \in 1..Len(Releases) /\ Releases[k - Old + 1] = Releases[n]
      BY <2>2, <1>1, <1>4, AtStart DEF HeadingAt
    <3>2. k - Old + 1 = n
      BY <3>1, <1>1, AtStart
    <3> QED  BY <3>2, <1>1
  <2>3. CASE k # Old + s /\ ~(k >= Old)
    BY <2>3, <1>1, <1>4, AtStart DEF HeadingAt
  <2> QED  BY <2>1, <2>2, <2>3
<1>5. ASSUME NEW i \in 1..(Old + s)
      PROVE  (log[i].heading = Releases[n] /\ log[i].dated) <=> i = Len(log) + 2 - Old - n
  <2>1. Old + s + 1 - i \in 1..(Old + s) /\ Len(log) + 2 - Old - n = s + 2 - n
    BY <1>1
  <2>2. CASE i = s + 2 - n
    <3>1. Old + s + 1 - i = Old + n - 1
      BY <2>2, <1>1
    <3> QED  BY <3>1, <2>1, <2>2, <1>2, <1>3
  <2>3. CASE i # s + 2 - n
    <3>1. Old + s + 1 - i # Old + n - 1
      BY <2>3, <1>1
    <3> QED  BY <3>1, <2>1, <2>3, <1>2, <1>4
  <2> QED  BY <2>2, <2>3
<1>6. Len(log) + 2 - Old - n \in DOMAIN log
  BY <1>1
<1> QED  BY <1>1, <1>5, <1>6

\* Git's merge of two changelogs that go on from one, section by section: what
\* one side has stays where it is, and what the other adds comes after it.
Gathers(ours, theirs, merged, n) ==
    \A k \in 1..n :
       /\ ToSet(FromBottom(theirs, k).entries) \subseteq ToSet(FromBottom(merged, k).entries)
       /\ ToSet(FromBottom(merged, k).entries)
             \subseteq ToSet(FromBottom(ours, k).entries) \cup ToSet(FromBottom(theirs, k).entries)

\* Sections that the other side does not have are left as they are.
OnTop(ours, merged, n) ==
    \A k \in 1..Len(merged) :
       k > n => k \in 1..Len(ours) /\ FromBottom(merged, k) = FromBottom(ours, k)

\* One section: the entries of one side, and those that the other added.
LEMMA MergedEntries ==
    ASSUME NEW base \in Seq(ENTRIES), NEW ours \in Seq(ENTRIES), NEW theirs \in Seq(ENTRIES),
           NEW added, added = SubSeq(theirs, Len(base) + 1, Len(theirs)),
           Len(base) <= Len(ours), Len(base) <= Len(theirs),
           \A i \in 1..Len(base) : ours[i] = base[i] /\ theirs[i] = base[i],
           \A i \in 1..Len(theirs) : i > Len(base) => theirs[i].text \notin PLACEHOLDERS
    PROVE  LET merged == ours \o added
           IN /\ merged \in Seq(ENTRIES) /\ Len(ours) <= Len(merged)
              /\ \A i \in 1..Len(ours) : merged[i] = ours[i]
              /\ \A i \in 1..Len(merged) : i > Len(ours) => merged[i].text \notin PLACEHOLDERS
              /\ ToSet(theirs) \subseteq ToSet(merged)
              /\ ToSet(merged) \subseteq ToSet(ours) \cup ToSet(theirs)
<1> DEFINE b == Len(base)
           o == Len(ours)
           t == Len(theirs)
           merged == ours \o added
<1>1. b \in Nat /\ o \in Nat /\ t \in Nat /\ b <= o /\ b <= t
  OBVIOUS
<1>2. /\ added \in Seq(ENTRIES) /\ Len(added) = t - b
      /\ \A i \in 1..(t - b) : added[i] = theirs[b + i]
  <2>1. b + 1 \in Int /\ t \in Int /\ \A i \in (b + 1)..t : theirs[i] \in ENTRIES
    BY <1>1
  <2> HIDE DEF b, t
  <2>2. /\ added \in Seq(ENTRIES) /\ Len(added) = (IF b + 1 <= t THEN t - (b + 1) + 1 ELSE 0)
        /\ \A i \in 1..(t - (b + 1) + 1) : added[i] = theirs[(b + 1) + i - 1]
    BY <2>1, SubSeqProperties DEF b, t
  <2>3. t - (b + 1) + 1 = t - b /\ (b + 1 <= t <=> ~(t = b))
    BY <1>1
  <2>4. Len(added) = t - b
    <3>1. CASE t = b
      <4>1. t - b = 0 /\ ~(b + 1 <= t)
        BY <1>1, <3>1
      <4> QED  BY <4>1, <2>2
    <3>2. CASE t # b
      <4>1. b + 1 <= t
        BY <1>1, <3>2
      <4> QED  BY <4>1, <2>2, <2>3
    <3> QED  BY <3>1, <3>2
  <2>5. ASSUME NEW i \in 1..(t - b)  PROVE added[i] = theirs[b + i]
    <3>1. i \in 1..(t - (b + 1) + 1) /\ (b + 1) + i - 1 = b + i
      BY <1>1, <2>3
    <3> QED  BY <3>1, <2>2
  <2> QED  BY <2>2, <2>4, <2>5 DEF b, t
<1>3. /\ merged \in Seq(ENTRIES) /\ Len(merged) = o + (t - b)
      /\ DOMAIN merged = 1..(o + (t - b)) /\ DOMAIN ours = 1..o /\ DOMAIN theirs = 1..t
      /\ \A i \in 1..o : merged[i] = ours[i]
      /\ \A i \in 1..(o + (t - b)) : i > o => merged[i] = added[i - o]
  <2>1. /\ merged \in Seq(ENTRIES) /\ Len(merged) = o + Len(added)
        /\ \A i \in 1..(o + Len(added)) : merged[i] = IF i <= o THEN ours[i] ELSE added[i - o]
    BY <1>2, ConcatProperties
  <2> HIDE DEF merged, o, b, t
  <2>2. Len(added) = t - b
    BY <1>2
  <2>3. \A i \in 1..o : i \in 1..(o + (t - b)) /\ i <= o
    BY <1>1
  <2>4. DOMAIN merged = 1..Len(merged)
    BY <2>1
  <2>5. DOMAIN ours = 1..o /\ DOMAIN theirs = 1..t
    BY DEF o, t
  <2>6. \A i \in 1..o : merged[i] = ours[i]
    BY <2>1, <2>2, <2>3
  <2>7. ASSUME NEW i \in 1..(o + (t - b)), i > o  PROVE merged[i] = added[i - o]
    <3>1. ~(i <= o) /\ i \in 1..(o + Len(added))
      BY <1>1, <2>2, <2>7
    <3> QED  BY <2>1, <3>1
  <2> QED  BY <2>1, <2>2, <2>4, <2>5, <2>6, <2>7
<1> HIDE DEF b, o, t, merged
<1>4. \A i \in 1..(o + (t - b)) : i > o => b + (i - o) \in 1..t /\ merged[i] = theirs[b + (i - o)]
  <2> SUFFICES ASSUME NEW i \in 1..(o + (t - b)), i > o
               PROVE  b + (i - o) \in 1..t /\ merged[i] = theirs[b + (i - o)]
    OBVIOUS
  <2>1. i - o \in 1..(t - b) /\ b + (i - o) \in 1..t
    BY <1>1
  <2>2. merged[i] = added[i - o] /\ added[i - o] = theirs[b + (i - o)]
    BY <2>1, <1>2, <1>3 DEF b, t
  <2> QED  BY <2>1, <2>2
<1>5. \A i \in 1..(o + (t - b)) : i > o => merged[i].text \notin PLACEHOLDERS
  <2> SUFFICES ASSUME NEW i \in 1..(o + (t - b)), i > o  PROVE merged[i].text \notin PLACEHOLDERS
    OBVIOUS
  <2>1. b + (i - o) > b
    BY <1>1
  <2> QED  BY <2>1, <1>4 DEF b, t
<1>6. ASSUME NEW j \in 1..t  PROVE theirs[j] \in ToSet(merged)
  <2>1. CASE j <= b
    <3>1. j \in 1..b /\ j \in 1..o /\ j \in 1..(o + (t - b))
      BY <2>1, <1>1
    <3>2. theirs[j] = ours[j] /\ merged[j] = ours[j]
      BY <3>1, <1>3 DEF b
    <3> QED  BY <3>1, <3>2, <1>3 DEF ToSet
  <2>2. CASE ~(j <= b)
    <3>1. o + (j - b) \in 1..(o + (t - b)) /\ o + (j - b) > o /\ b + ((o + (j - b)) - o) = j
      BY <2>2, <1>1
    <3>2. merged[o + (j - b)] = theirs[j]
      BY <3>1, <1>4
    <3> QED  BY <3>1, <3>2, <1>3 DEF ToSet
  <2> QED  BY <2>1, <2>2
<1>7. ASSUME NEW i \in 1..(o + (t - b))  PROVE merged[i] \in ToSet(ours) \cup ToSet(theirs)
  <2>1. CASE i <= o
    <3>1. i \in 1..o
      BY <2>1, <1>1
    <3> QED  BY <3>1, <1>3 DEF ToSet
  <2>2. CASE ~(i <= o)
    <3>1. b + (i - o) \in 1..t /\ merged[i] = theirs[b + (i - o)]
      BY <2>2, <1>1, <1>4
    <3> QED  BY <3>1, <1>3 DEF ToSet
  <2> QED  BY <2>1, <2>2
<1>8. ToSet(theirs) \subseteq ToSet(merged) /\ ToSet(merged) \subseteq ToSet(ours) \cup ToSet(theirs)
  <2>1. \A x \in ToSet(theirs) : \E j \in 1..t : x = theirs[j]
    BY <1>3 DEF ToSet
  <2>2. \A x \in ToSet(merged) : \E i \in 1..(o + (t - b)) : x = merged[i]
    BY <1>3 DEF ToSet
  <2>3. \A x \in ToSet(theirs) : x \in ToSet(merged)
    BY <2>1, <1>6
  <2>4. \A x \in ToSet(merged) : x \in ToSet(ours) \cup ToSet(theirs)
    BY <2>2, <1>7
  <2> QED  BY <2>3, <2>4
<1>9. o <= Len(merged)
  BY <1>1, <1>3
<1> QED  BY <1>3, <1>5, <1>8, <1>9 DEF o, merged

\* The headings and the dates of a merge are those of the side with more releases:
\* a branch, or main, that is one release ahead, or main that is any number ahead
\* of a branch that is no release.
LEMMA MergedLog ==
    ASSUME NEW sb \in 0..Len(Releases), NEW so \in 0..Len(Releases), NEW st \in 0..Len(Releases),
           NEW b, NEW o, NEW t, LogOf(b, sb), LogOf(o, so), LogOf(t, st), GoesOn(b, o), GoesOn(b, t),
           st = sb \/ (st = sb + 1 /\ so = sb), MergeLog(b, o, t) # Conflict
    PROVE  LET m == MergeLog(b, o, t)[1]
           IN /\ LogOf(m, IF st = sb THEN so ELSE st) /\ GoesOn(o, m)
              /\ Gathers(o, t, m, Len(b)) /\ (st = sb => OnTop(o, m, Len(b)))
<1> DEFINE n == Len(b)
           newer == IF Len(o) > n THEN o ELSE t
           added(k) == AddedTo(t, b, k)
           Kept(k) == [ heading |-> IF FromBottom(o, k).heading # FromBottom(b, k).heading
                                    THEN FromBottom(o, k).heading ELSE FromBottom(t, k).heading,
                        dated |-> FromBottom(o, k).dated \/ FromBottom(t, k).dated,
                        entries |-> FromBottom(o, k).entries \o added(k) ]
           front == SubSeq(newer, 1, Len(newer) - n)
           back == [i \in 1..n |-> Kept(n + 1 - i)]
           m == front \o back
           sm == IF st = sb THEN so ELSE st
<1>1. MergeLog(b, o, t)[1] = m
  <2>1. MergeLog(b, o, t) \in {Conflict, <<m>>}
    BY DEF MergeLog
  <2> HIDE DEF m
  <2> QED  BY <2>1
<1>2. /\ b \in Seq(SECTIONS) /\ o \in Seq(SECTIONS) /\ t \in Seq(SECTIONS)
      /\ n = Old + sb /\ Len(o) = Old + so /\ Len(t) = Old + st
      /\ n \in Nat /\ Old \in Nat \ {0} /\ n <= Len(o) /\ n <= Len(t)
      /\ sb <= so /\ sb <= st /\ sm \in 0..Len(Releases)
  <2>1. Old \in Nat \ {0} /\ Len(Releases) \in Nat
    BY AtStart
  <2>2. n <= Len(o) /\ n <= Len(t)
    BY DEF GoesOn
  <2> QED  BY <2>1, <2>2 DEF LogOf
<1>3. /\ newer \in Seq(SECTIONS) /\ Len(newer) = Old + sm /\ n <= Len(newer)
      /\ \A k \in 1..Len(newer) : /\ FromBottom(newer, k).heading = HeadingAt(k, sm)
                                  /\ FromBottom(newer, k).dated = DatedAt(k, sm)
      /\ Len(o) > n => newer = o
      /\ Len(o) <= Len(newer)
  <2>1. CASE Len(o) > n
    <3>1. st = sb
      BY <1>2, <2>1
    <3> QED  BY <1>2, <2>1, <3>1 DEF LogOf
  <2>2. CASE ~(Len(o) > n)
    <3>1. so = sb
      BY <1>2, <2>2
    <3>2. sm = st
      BY <3>1
    <3> QED  BY <1>2, <2>2, <3>1, <3>2 DEF LogOf
  <2> QED  BY <2>1, <2>2
<1> HIDE DEF newer, sm
\* One section that both have.
<1>4. ASSUME NEW k \in 1..n
      PROVE  /\ Kept(k) \in SECTIONS
             /\ Kept(k).heading = HeadingAt(k, sm) /\ Kept(k).dated = DatedAt(k, sm)
             /\ Len(FromBottom(o, k).entries) <= Len(Kept(k).entries)
             /\ \A i \in 1..Len(FromBottom(o, k).entries) :
                   Kept(k).entries[i] = FromBottom(o, k).entries[i]
             /\ \A i \in 1..Len(Kept(k).entries) : i > Len(FromBottom(o, k).entries) =>
                   Kept(k).entries[i].text \notin PLACEHOLDERS
             /\ ToSet(FromBottom(t, k).entries) \subseteq ToSet(Kept(k).entries)
             /\ ToSet(Kept(k).entries)
                   \subseteq ToSet(FromBottom(o, k).entries) \cup ToSet(FromBottom(t, k).entries)
  <2> DEFINE eb == FromBottom(b, k).entries
             eo == FromBottom(o, k).entries
             et == FromBottom(t, k).entries
             K == Kept(k)
  <2>1. k \in 1..Len(b) /\ k \in 1..Len(o) /\ k \in 1..Len(t)
    BY <1>2
  <2>2. eb \in Seq(ENTRIES) /\ eo \in Seq(ENTRIES) /\ et \in Seq(ENTRIES)
    BY <1>2, <2>1, BottomOf
  <2>3. Before(b, o, k) /\ Before(b, t, k)
    BY <2>1 DEF GoesOn
  <2>4. added(k) = SubSeq(et, Len(eb) + 1, Len(et))
    BY DEF AddedTo
  <2>5. /\ Len(eb) <= Len(eo) /\ Len(eb) <= Len(et)
        /\ \A i \in 1..Len(eb) : eo[i] = eb[i] /\ et[i] = eb[i]
        /\ \A i \in 1..Len(et) : i > Len(eb) => et[i].text \notin PLACEHOLDERS
    BY <2>3 DEF Before
  <2>6. LET merged == eo \o added(k)
        IN /\ merged \in Seq(ENTRIES) /\ Len(eo) <= Len(merged)
           /\ \A i \in 1..Len(eo) : merged[i] = eo[i]
           /\ \A i \in 1..Len(merged) : i > Len(eo) => merged[i].text \notin PLACEHOLDERS
           /\ ToSet(et) \subseteq ToSet(merged)
           /\ ToSet(merged) \subseteq ToSet(eo) \cup ToSet(et)
    <3> HIDE DEF eb, eo, et, added
    <3> QED  BY <2>2, <2>4, <2>5, MergedEntries
  <2>7. K.entries = eo \o added(k)
    OBVIOUS
  <2>8. K.heading = HeadingAt(k, sm) /\ K.dated = DatedAt(k, sm)
    <3>1. /\ FromBottom(b, k).heading = HeadingAt(k, sb) /\ FromBottom(b, k).dated = DatedAt(k, sb)
          /\ FromBottom(o, k).heading = HeadingAt(k, so) /\ FromBottom(o, k).dated = DatedAt(k, so)
          /\ FromBottom(t, k).heading = HeadingAt(k, st) /\ FromBottom(t, k).dated = DatedAt(k, st)
      BY <2>1 DEF LogOf
    <3>2. /\ K.heading = (IF HeadingAt(k, so) # HeadingAt(k, sb) THEN HeadingAt(k, so)
                          ELSE HeadingAt(k, st))
          /\ K.dated = (DatedAt(k, so) \/ DatedAt(k, st))
      BY <3>1
    <3> HIDE DEF K
    <3>3. CASE st = sb
      <4>1. sm = so
        BY <3>3 DEF sm
      <4>2. K.heading = HeadingAt(k, so)
        BY <3>2, <3>3
      <4>3. DatedAt(k, so) \in BOOLEAN /\ DatedAt(k, sb) \in BOOLEAN
        BY <1>2, <2>1, <3>1, BottomOf
      <4>4. DatedAt(k, sb) => DatedAt(k, so)
        BY <1>2, <2>1 DEF DatedAt
      <4> QED  BY <4>1, <4>2, <4>3, <4>4, <3>2, <3>3
    <3>4. CASE st # sb
      <4>1. sm = st /\ so = sb
        BY <3>4 DEF sm
      <4>2. K.heading = HeadingAt(k, st)
        BY <3>2, <4>1
      <4>3. DatedAt(k, st) \in BOOLEAN /\ DatedAt(k, sb) \in BOOLEAN
        BY <1>2, <2>1, <3>1, BottomOf
      <4>4. DatedAt(k, sb) => DatedAt(k, st)
        BY <1>2, <2>1 DEF DatedAt
      <4> QED  BY <4>1, <4>2, <4>3, <4>4, <3>2
    <3> QED  BY <3>3, <3>4
  <2>9. K \in SECTIONS
    <3>1. /\ FromBottom(o, k).heading \in HEADINGS /\ FromBottom(t, k).heading \in HEADINGS
          /\ FromBottom(o, k).dated \in BOOLEAN /\ FromBottom(t, k).dated \in BOOLEAN
      BY <1>2, <2>1, BottomOf
    <3>2. eo \o added(k) \in Seq(ENTRIES)
      BY <2>6
    <3> HIDE DEF added
    <3> QED  BY <3>1, <3>2 DEF SECTIONS
  <2> HIDE DEF Kept
  <2> QED  BY <2>6, <2>7, <2>8, <2>9
<1> HIDE DEF Kept
<1>5. /\ back \in Seq(SECTIONS) /\ Len(back) = n
      /\ \A i \in 1..n : n + 1 - i \in 1..n /\ back[i] = Kept(n + 1 - i)
  <2>1. \A i \in 1..n : n + 1 - i \in 1..n
    BY <1>2
  <2>2. \A i \in 1..n : Kept(n + 1 - i) \in SECTIONS
    BY <2>1, <1>4
  <2>3. n \in Nat
    BY <1>2
  <2> HIDE DEF n
  <2> QED  BY <2>1, <2>2, <2>3
<1>6. /\ front \in Seq(SECTIONS) /\ Len(front) = Len(newer) - n
      /\ \A i \in 1..(Len(newer) - n) : front[i] = newer[i]
  <2>1. Len(newer) - n \in 0..Len(newer)
    BY <1>2, <1>3
  <2>2. front = [i \in 1..(Len(newer) - n) |-> newer[i]]
    BY <2>1
  <2>3. \A i \in 1..(Len(newer) - n) : newer[i] \in SECTIONS
    BY <2>1, <1>3
  <2> DEFINE l == Len(newer) - n
  <2>4. l \in Nat
    BY <2>1
  <2> HIDE DEF l
  <2>5. [i \in 1..l |-> newer[i]] \in Seq(SECTIONS) /\ Len([i \in 1..l |-> newer[i]]) = l
    BY <2>3, <2>4 DEF l
  <2> QED  BY <2>2, <2>5 DEF l
<1> HIDE DEF front, back
<1>7. /\ m \in Seq(SECTIONS) /\ Len(m) = Len(newer)
      /\ \A i \in 1..Len(newer) : m[i] = IF i <= Len(newer) - n THEN newer[i]
                                         ELSE back[i - (Len(newer) - n)]
  <2>1. /\ m \in Seq(SECTIONS) /\ Len(m) = Len(front) + Len(back)
        /\ \A i \in 1..(Len(front) + Len(back)) :
              m[i] = IF i <= Len(front) THEN front[i] ELSE back[i - Len(front)]
    BY <1>5, <1>6, ConcatProperties
  <2> HIDE DEF m, n
  <2>2. Len(front) + Len(back) = Len(newer)
    BY <1>2, <1>3, <1>5, <1>6
  <2>3. ASSUME NEW i \in 1..Len(newer)
        PROVE  m[i] = IF i <= Len(newer) - n THEN newer[i] ELSE back[i - (Len(newer) - n)]
    <3>1. m[i] = IF i <= Len(newer) - n THEN front[i] ELSE back[i - (Len(newer) - n)]
      BY <2>1, <2>2, <1>6
    <3>2. i <= Len(newer) - n => i \in 1..(Len(newer) - n)
      BY <1>2, <1>3
    <3> QED  BY <3>1, <3>2, <1>6
  <2> QED  BY <2>1, <2>2, <2>3
<1> HIDE DEF m
<1>8. ASSUME NEW k \in 1..n  PROVE FromBottom(m, k) = Kept(k)
  <2> DEFINE i == Len(newer) + 1 - k
             j == n + 1 - k
  <2>1. i \in 1..Len(newer) /\ ~(i <= Len(newer) - n) /\ i - (Len(newer) - n) = j
    BY <1>2, <1>3
  <2>2. j \in 1..n /\ n + 1 - j = k
    BY <1>2
  <2>3. FromBottom(m, k) = m[i]
    BY <1>7 DEF FromBottom
  <2> HIDE DEF i, j, n
  <2>4. m[i] = back[j]
    BY <2>1, <1>7
  <2>5. back[j] = Kept(k)
    BY <2>2, <1>5
  <2> QED  BY <2>3, <2>4, <2>5
<1>9. ASSUME NEW k \in 1..Len(newer), k > n  PROVE FromBottom(m, k) = FromBottom(newer, k)
  <2> DEFINE i == Len(newer) + 1 - k
  <2>1. i \in 1..Len(newer) /\ i <= Len(newer) - n
    BY <1>2, <1>3, <1>9
  <2>2. FromBottom(m, k) = m[i] /\ FromBottom(newer, k) = newer[i]
    BY <1>7 DEF FromBottom
  <2> QED  BY <2>1, <2>2, <1>7
<1>10. LogOf(m, sm)
  <2>1. ASSUME NEW k \in 1..Len(newer)
        PROVE  FromBottom(m, k).heading = HeadingAt(k, sm) /\ FromBottom(m, k).dated = DatedAt(k, sm)
    <3>1. CASE k > n
      BY <3>1, <1>3, <1>9
    <3>2. CASE ~(k > n)
      <4>1. k \in 1..n
        BY <3>2, <1>2, <1>3
      <4> QED  BY <4>1, <1>4, <1>8
    <3> QED  BY <3>1, <3>2
  <2> QED  BY <2>1, <1>3, <1>7 DEF LogOf
<1>11. GoesOn(o, m)
  <2>1. Len(o) <= Len(m)
    BY <1>3, <1>7
  <2>2. ASSUME NEW k \in 1..Len(o)  PROVE Before(o, m, k)
    <3>1. CASE k > n
      <4>1. newer = o /\ k \in 1..Len(newer)
        BY <3>1, <1>2, <1>3
      <4>2. FromBottom(m, k) = FromBottom(o, k)
        BY <4>1, <3>1, <1>9
      <4>3. Before(o, o, k)
        BY <1>2, GoesOnFromItself DEF GoesOn
      <4> QED  BY <4>2, <4>3 DEF Before
    <3>2. CASE ~(k > n)
      <4>1. k \in 1..n
        BY <3>2, <1>2
      <4>2. FromBottom(m, k) = Kept(k)
        BY <4>1, <1>8
      <4> QED  BY <4>1, <4>2, <1>4 DEF Before
    <3> QED  BY <3>1, <3>2
  <2> QED  BY <2>1, <2>2 DEF GoesOn
<1>12. Gathers(o, t, m, n)
  <2> HIDE DEF n
  <2> QED  BY <1>4, <1>8 DEF Gathers
<1>13. ASSUME st = sb  PROVE OnTop(o, m, n)
  <2>1. CASE Len(o) > n
    <3>1. newer = o
      BY <2>1, <1>3
    <3> QED  BY <3>1, <1>7, <1>9 DEF OnTop
  <2>2. CASE ~(Len(o) > n)
    <3>1. Len(newer) = n
      BY <2>2, <1>2, <1>3, <1>13 DEF sm
    <3> QED  BY <3>1, <1>2, <1>7 DEF OnTop
  <2> QED  BY <2>1, <2>2
<1> QED  BY <1>1, <1>10, <1>11, <1>12, <1>13 DEF sm

----------------------------------------------------------------------------
\* What a section says once it is released: something, and not that there is
\* nothing yet. Then, and only then, section() prints it as the notes of a version.
Told(section) ==
    /\ \E e \in ToSet(section.entries) : e.text \notin PLACEHOLDERS
    /\ \A e \in ToSet(section.entries) : e.text # NO_ENTRIES

LEMMA ToldIsPrinted ==
    ASSUME NEW s \in 0..Len(Releases), NEW log, LogOf(log, s), NEW n \in 1..s
    PROVE  Section(log, Releases[n], FALSE) = {} <=> Told(FromBottom(log, Old + n - 1))
<1> DEFINE found == {i \in DOMAIN log : log[i].heading = Releases[n] /\ log[i].dated}
           entries == ToSet(FromBottom(log, Old + n - 1).entries)
           texts == {e.text : e \in UNION {ToSet(log[i].entries) : i \in found}}
           at == Len(log) + 2 - Old - n
<1>1. found = {at}
  BY ReleaseAt
<1>2. Cardinality(found) = 1
  BY <1>1, FS_Singleton
<1>3. ToSet(log[at].entries) = entries
  <2>1. Len(log) + 1 - (Old + n - 1) = at
    BY AtStart DEF LogOf
  <2> QED  BY <2>1 DEF FromBottom
<1> HIDE DEF found, entries, at
<1>4. texts = {e.text : e \in entries}
  BY <1>1, <1>3
<1>5. Section(log, Releases[n], FALSE) =
         IF texts = {} THEN {"empty"}
         ELSE IF NO_ENTRIES \in texts THEN {"still says no entries yet"}
         ELSE Problem(texts = {VERSION_BUMP_ONLY}, "version bump only")
  BY <1>2 DEF Section, found
<1> HIDE DEF texts
<1>6. Section(log, Releases[n], FALSE) = {} <=>
         texts # {} /\ NO_ENTRIES \notin texts /\ texts # {VERSION_BUMP_ONLY}
  BY <1>5 DEF Problem
<1>7. Told(FromBottom(log, Old + n - 1)) <=>
         (\E x \in texts : x \notin PLACEHOLDERS) /\ NO_ENTRIES \notin texts
  BY <1>4 DEF Told, entries
<1> QED  BY <1>6, <1>7 DEF PLACEHOLDERS

\* What a section says when the changelog goes on from it: all it said, and what
\* stands for something.
LEMMA EntriesStay ==
    ASSUME NEW old \in Seq(SECTIONS), NEW log \in Seq(SECTIONS), GoesOn(old, log),
           NEW k \in 1..Len(old)
    PROVE  /\ ToSet(FromBottom(old, k).entries) \subseteq ToSet(FromBottom(log, k).entries)
           /\ \A e \in ToSet(FromBottom(log, k).entries) :
                 e \in ToSet(FromBottom(old, k).entries) \/ e.text \notin PLACEHOLDERS
<1> DEFINE was == FromBottom(old, k).entries
           is == FromBottom(log, k).entries
<1>1. k \in 1..Len(log)
  BY DEF GoesOn
<1>2. was \in Seq(ENTRIES) /\ is \in Seq(ENTRIES)
  BY <1>1, BottomOf
<1>3. /\ Len(was) <= Len(is)
      /\ \A i \in 1..Len(was) : is[i] = was[i]
      /\ \A i \in 1..Len(is) : i > Len(was) => is[i].text \notin PLACEHOLDERS
  BY DEF GoesOn, Before
<1> HIDE DEF was, is
<1>4. \A e \in ToSet(was) : e \in ToSet(is)
  BY <1>2, <1>3 DEF ToSet
<1>5. \A e \in ToSet(is) : e \in ToSet(was) \/ e.text \notin PLACEHOLDERS
  BY <1>2, <1>3 DEF ToSet
<1> QED  BY <1>4, <1>5 DEF was, is

\* So a section that said something still does.
LEMMA StillTold ==
    ASSUME NEW old \in Seq(SECTIONS), NEW log \in Seq(SECTIONS), GoesOn(old, log),
           NEW k \in 1..Len(old), Told(FromBottom(old, k))
    PROVE  Told(FromBottom(log, k))
BY EntriesStay DEF Told, PLACEHOLDERS

\* And the section of a release does when main, which has not cut it, is merged in.
LEMMA MergedTold ==
    ASSUME NEW b \in Seq(SECTIONS), NEW o \in Seq(SECTIONS), NEW t \in Seq(SECTIONS), NEW m,
           GoesOn(b, o), GoesOn(b, t), Gathers(o, t, m, Len(b)),
           NEW k \in 1..Len(b), Told(FromBottom(t, k))
    PROVE  Told(FromBottom(m, k))
<1> DEFINE eb == ToSet(FromBottom(b, k).entries)
           eo == ToSet(FromBottom(o, k).entries)
           et == ToSet(FromBottom(t, k).entries)
           em == ToSet(FromBottom(m, k).entries)
<1>1. eb \subseteq et /\ \A e \in eo : e \in eb \/ e.text \notin PLACEHOLDERS
  BY EntriesStay
<1>2. et \subseteq em /\ em \subseteq eo \cup et
  BY DEF Gathers
<1>3. (\E e \in et : e.text \notin PLACEHOLDERS) /\ \A e \in et : e.text # NO_ENTRIES
  BY DEF Told
<1> HIDE DEF eb, eo, et
<1> QED  BY <1>1, <1>2, <1>3 DEF Told, PLACEHOLDERS

\* A tree of main, or of a branch, with s releases in it.
FILES == {CHANGELOG, DEPRECATIONS, MAINTAINERS_FILE} \cup VERSION_FILES
VersionAt(f, s) == IF s = 0 THEN Start[f] ELSE Releases[s]
TreeOf(tree, s) ==
    /\ FILES \subseteq DOMAIN tree
    /\ LogOf(tree[CHANGELOG], s)
    /\ \A f \in VERSION_FILES : tree[f] = VersionAt(f, s)

LEMMA FilesDiffer ==
    /\ CHANGELOG \in FILES /\ DEPRECATIONS \in FILES /\ VERSION_FILES \subseteq FILES
    /\ CHANGELOG # DEPRECATIONS
    /\ CHANGELOG \notin VERSION_FILES /\ DEPRECATIONS \notin VERSION_FILES
BY DEF FILES, VERSION_FILES, CHANGELOG, DEPRECATIONS, Tracking

\* What a merge makes of a file that all three trees have, changelog apart.
LEMMA MergedFile ==
    ASSUME NEW p, NEW base, NEW ours, NEW theirs, p # CHANGELOG,
           p \in DOMAIN base, p \in DOMAIN ours, p \in DOMAIN theirs, Merges(base, ours, theirs)
    PROVE  LET merged == Merge(base, ours, theirs)
           IN /\ p \in DOMAIN merged
              /\ \/ theirs[p] \in {ours[p], base[p]} /\ merged[p] = ours[p]
                 \/ ours[p] = base[p] /\ merged[p] = theirs[p]
<1> DEFINE of == MergeFile(p, base, ours, theirs)
<1>1. of # Conflict
  BY DEF Merges
<1>2. At(base, p) = <<base[p]>> /\ At(ours, p) = <<ours[p]>> /\ At(theirs, p) = <<theirs[p]>>
  BY DEF At
<1>3. \/ theirs[p] \in {ours[p], base[p]} /\ of = <<ours[p]>>
      \/ ours[p] = base[p] /\ of = <<theirs[p]>>
  <2>1. CASE At(theirs, p) \in {At(ours, p), At(base, p)}
    <3>1. of = <<ours[p]>>
      BY <2>1, <1>2 DEF MergeFile
    <3>2. theirs[p] \in {ours[p], base[p]}
      BY <2>1, <1>2
    <3> QED  BY <3>1, <3>2
  <2>2. CASE At(theirs, p) \notin {At(ours, p), At(base, p)} /\ At(ours, p) = At(base, p)
    <3>1. of = <<theirs[p]>>
      BY <2>2, <1>2 DEF MergeFile
    <3>2. ours[p] = base[p]
      BY <2>2, <1>2
    <3> QED  BY <3>1, <3>2
  <2>3. CASE At(theirs, p) \notin {At(ours, p), At(base, p)} /\ At(ours, p) # At(base, p)
    BY <2>3, <1>1 DEF MergeFile
  <2> QED  BY <2>1, <2>2, <2>3
<1>4. of # <<>>
  BY <1>3
<1>5. p \in DOMAIN Merge(base, ours, theirs) /\ Merge(base, ours, theirs)[p] = of[1]
  BY <1>4 DEF Merge
<1> QED  BY <1>3, <1>5

LEMMA MergedChangelog ==
    ASSUME NEW base, NEW ours, NEW theirs,
           CHANGELOG \in DOMAIN base, CHANGELOG \in DOMAIN ours, CHANGELOG \in DOMAIN theirs,
           Merges(base, ours, theirs),
           NEW b, NEW o, NEW t, b = base[CHANGELOG], o = ours[CHANGELOG], t = theirs[CHANGELOG]
    PROVE  LET merged == Merge(base, ours, theirs)
           IN /\ CHANGELOG \in DOMAIN merged
              /\ \/ t \in {o, b} /\ merged[CHANGELOG] = o
                 \/ o = b /\ merged[CHANGELOG] = t
                 \/ MergeLog(b, o, t) # Conflict /\ merged[CHANGELOG] = MergeLog(b, o, t)[1]
<1> DEFINE of == MergeFile(CHANGELOG, base, ours, theirs)
<1>1. of # Conflict
  BY DEF Merges
<1>2. At(base, CHANGELOG) = <<b>> /\ At(ours, CHANGELOG) = <<o>> /\ At(theirs, CHANGELOG) = <<t>>
  BY DEF At
<1>3. MergeLog(b, o, t) # Conflict => MergeLog(b, o, t) # <<>>
  BY DEF MergeLog
<1>4. \/ t \in {o, b} /\ of = <<o>>
      \/ o = b /\ of = <<t>>
      \/ MergeLog(b, o, t) # Conflict /\ of = MergeLog(b, o, t)
  <2>1. CASE At(theirs, CHANGELOG) \in {At(ours, CHANGELOG), At(base, CHANGELOG)}
    <3>1. of = <<o>>
      BY <2>1, <1>2 DEF MergeFile
    <3>2. t \in {o, b}
      BY <2>1, <1>2
    <3> QED  BY <3>1, <3>2
  <2>2. CASE /\ At(theirs, CHANGELOG) \notin {At(ours, CHANGELOG), At(base, CHANGELOG)}
             /\ At(ours, CHANGELOG) = At(base, CHANGELOG)
    <3>1. of = <<t>>
      BY <2>2, <1>2 DEF MergeFile
    <3>2. o = b
      BY <2>2, <1>2
    <3> QED  BY <3>1, <3>2
  <2>3. CASE /\ At(theirs, CHANGELOG) \notin {At(ours, CHANGELOG), At(base, CHANGELOG)}
             /\ At(ours, CHANGELOG) # At(base, CHANGELOG)
    BY <2>3, <1>1 DEF MergeFile
  <2> QED  BY <2>1, <2>2, <2>3
<1>5. of # <<>>
  BY <1>3, <1>4
<1>6. /\ CHANGELOG \in DOMAIN Merge(base, ours, theirs)
      /\ Merge(base, ours, theirs)[CHANGELOG] = of[1]
  BY <1>5 DEF Merge
<1> QED  BY <1>4, <1>6

\* A merge of two trees that go on from one: main, some releases further, and a
\* branch that is no release or the next one.
LEMMA MergedTree ==
    ASSUME NEW sb \in 0..Len(Releases), NEW so \in 0..Len(Releases), NEW st \in 0..Len(Releases),
           NEW base, NEW ours, NEW theirs, TreeOf(base, sb), TreeOf(ours, so), TreeOf(theirs, st),
           GoesOn(base[CHANGELOG], ours[CHANGELOG]), GoesOn(base[CHANGELOG], theirs[CHANGELOG]),
           st = sb \/ (st = sb + 1 /\ so = sb), Merges(base, ours, theirs)
    PROVE  LET merged == Merge(base, ours, theirs)
           IN /\ TreeOf(merged, IF st = sb THEN so ELSE st)
              /\ GoesOn(ours[CHANGELOG], merged[CHANGELOG])
              /\ Gathers(ours[CHANGELOG], theirs[CHANGELOG], merged[CHANGELOG], Len(base[CHANGELOG]))
              /\ st = sb => OnTop(ours[CHANGELOG], merged[CHANGELOG], Len(base[CHANGELOG]))
<1> DEFINE b == base[CHANGELOG]
           o == ours[CHANGELOG]
           t == theirs[CHANGELOG]
           merged == Merge(base, ours, theirs)
           m == merged[CHANGELOG]
           sm == IF st = sb THEN so ELSE st
<1>1. FILES \subseteq DOMAIN base /\ FILES \subseteq DOMAIN ours /\ FILES \subseteq DOMAIN theirs
  BY DEF TreeOf
<1>2. /\ LogOf(b, sb) /\ LogOf(o, so) /\ LogOf(t, st)
      /\ b \in Seq(SECTIONS) /\ o \in Seq(SECTIONS) /\ t \in Seq(SECTIONS)
      /\ Len(b) = Old + sb /\ Len(o) = Old + so /\ Len(t) = Old + st
  BY DEF TreeOf, LogOf
<1>3. CHANGELOG \in FILES
  BY FilesDiffer
<1>4. /\ CHANGELOG \in DOMAIN merged
      /\ \/ t \in {o, b} /\ m = o
         \/ o = b /\ m = t
         \/ MergeLog(b, o, t) # Conflict /\ m = MergeLog(b, o, t)[1]
  BY <1>1, <1>3, MergedChangelog
<1>5. Old \in Nat
  BY AtStart
<1>6. \A k \in 1..Len(b) : ToSet(FromBottom(b, k).entries) \subseteq ToSet(FromBottom(o, k).entries)
                        /\ ToSet(FromBottom(b, k).entries) \subseteq ToSet(FromBottom(t, k).entries)
  BY <1>2, EntriesStay
<1>7. /\ LogOf(m, sm) /\ GoesOn(o, m) /\ Gathers(o, t, m, Len(b))
      /\ st = sb => OnTop(o, m, Len(b))
  <2>1. CASE t \in {o, b} /\ m = o
    <3>1. Len(t) = Len(o) \/ Len(t) = Len(b)
      BY <2>1
    <3>2. sm = so
      BY <3>1, <1>2, <1>5
    <3>3. LogOf(m, sm) /\ GoesOn(o, m)
      BY <2>1, <3>2, <1>2, GoesOnFromItself
    <3>4. Gathers(o, t, m, Len(b))
      BY <2>1, <1>6 DEF Gathers
    <3>5. OnTop(o, m, Len(b))
      BY <2>1 DEF OnTop
    <3> QED  BY <3>3, <3>4, <3>5
  <2>2. CASE o = b /\ m = t
    <3>1. sm = st
      <4>1. Len(o) = Len(b)
        BY <2>2
      <4> QED  BY <4>1, <1>2, <1>5
    <3>2. LogOf(m, sm) /\ GoesOn(o, m)
      BY <2>2, <3>1, <1>2
    <3>3. Gathers(o, t, m, Len(b))
      BY <2>2 DEF Gathers
    <3>4. st = sb => OnTop(o, m, Len(b))
      BY <2>2, <1>2, <1>5 DEF OnTop
    <3> QED  BY <3>2, <3>3, <3>4
  <2>3. CASE MergeLog(b, o, t) # Conflict /\ m = MergeLog(b, o, t)[1]
    <3> HIDE DEF b, o, t, m
    <3>1. GoesOn(b, o) /\ GoesOn(b, t)
      BY DEF b, o, t
    <3> QED  BY <2>3, <1>2, <3>1, MergedLog
  <2> QED  BY <2>1, <2>2, <2>3, <1>4
<1>8. ASSUME NEW p \in FILES, p # CHANGELOG
      PROVE  /\ p \in DOMAIN merged
             /\ \/ theirs[p] \in {ours[p], base[p]} /\ merged[p] = ours[p]
                \/ ours[p] = base[p] /\ merged[p] = theirs[p]
  BY <1>1, <1>8, MergedFile
<1> HIDE DEF merged
<1>9. FILES \subseteq DOMAIN merged
  BY <1>4, <1>8
<1>10. ASSUME NEW f \in VERSION_FILES  PROVE merged[f] = VersionAt(f, sm)
  <2>1. f \in FILES /\ f # CHANGELOG
    BY FilesDiffer
  <2>2. base[f] = VersionAt(f, sb) /\ ours[f] = VersionAt(f, so) /\ theirs[f] = VersionAt(f, st)
    BY DEF TreeOf
  <2>3. \/ theirs[f] \in {ours[f], base[f]} /\ merged[f] = ours[f]
        \/ ours[f] = base[f] /\ merged[f] = theirs[f]
    BY <1>8, <2>1
  <2>4. CASE st = sb
    BY <2>2, <2>3, <2>4
  <2>5. CASE st # sb
    BY <2>2, <2>3, <2>5
  <2> QED  BY <2>4, <2>5
<1>11. TreeOf(merged, sm)
  BY <1>7, <1>9, <1>10 DEF TreeOf
<1> QED  BY <1>7, <1>11 DEF merged

\* A release renames the section on top and puts a fresh one above it.
LEMMA RenamedLog ==
    ASSUME NEW log \in Seq(SECTIONS), Len(log) \in Nat \ {0}, NEW version \in HEADINGS
    PROVE  LET renamed == [log EXCEPT ![1].heading = version, ![1].dated = TRUE]
           IN /\ renamed \in Seq(SECTIONS) /\ Len(renamed) = Len(log)
              /\ renamed[1].heading = version /\ renamed[1].dated = TRUE
              /\ renamed[1].entries = log[1].entries
              /\ \A i \in 1..Len(log) : i # 1 => renamed[i] = log[i]
<1> DEFINE N == Len(log)
           first == [log[1] EXCEPT !.heading = version]
           once == [log EXCEPT ![1] = first]
           both == [first EXCEPT !.dated = TRUE]
           renamed == [log EXCEPT ![1].heading = version, ![1].dated = TRUE]
<1>1. N \in Nat /\ DOMAIN log = 1..N /\ 1 \in DOMAIN log /\ \A i \in 1..N : log[i] \in SECTIONS
  OBVIOUS
<1>2. once[1] = first /\ 1 \in DOMAIN once
  BY <1>1
<1>3. renamed = [once EXCEPT ![1] = [once[1] EXCEPT !.dated = TRUE]]
  OBVIOUS
<1>4. renamed = [log EXCEPT ![1] = both]
  BY <1>2, <1>3
<1>5. log[1] \in [heading : HEADINGS, dated : BOOLEAN, entries : Seq(ENTRIES)]
  BY <1>1 DEF SECTIONS
<1>6. /\ both \in [heading : HEADINGS, dated : BOOLEAN, entries : Seq(ENTRIES)]
      /\ both.heading = version /\ both.dated = TRUE /\ both.entries = log[1].entries
  BY <1>5
<1>7. both \in SECTIONS
  BY <1>6 DEF SECTIONS
<1> HIDE DEF both, renamed, N
<1>8. renamed \in [1..N -> SECTIONS] /\ renamed[1] = both /\ \A i \in 1..N : i # 1 => renamed[i] = log[i]
  BY <1>1, <1>4, <1>7
<1>9. renamed \in Seq(SECTIONS) /\ Len(renamed) = N
  BY <1>1, <1>8
<1> QED  BY <1>6, <1>8, <1>9 DEF renamed, N

LEMMA CutLog ==
    ASSUME NEW s \in 0..Len(Releases), s < Len(Releases), NEW log, LogOf(log, s),
           NEW renamed \in Seq(SECTIONS), Len(renamed) = Len(log),
           renamed[1].heading = Releases[s + 1], renamed[1].dated = TRUE,
           renamed[1].entries = log[1].entries,
           \A i \in 1..Len(log) : i # 1 => renamed[i] = log[i],
           NEW fresh \in SECTIONS, fresh.heading = UNRELEASED, fresh.dated = FALSE
    PROVE  LogOf(<<fresh>> \o renamed, s + 1) /\ GoesOn(log, <<fresh>> \o renamed)
<1> DEFINE N == Len(log)
           cut == <<fresh>> \o renamed
<1>1. /\ log \in Seq(SECTIONS) /\ N = Old + s /\ N \in Nat \ {0} /\ Old \in Nat \ {0}
  BY AtStart, UnreleasedFirst DEF LogOf
<1>2. /\ cut \in Seq(SECTIONS) /\ Len(cut) = N + 1 /\ cut[1] = fresh
      /\ \A i \in 2..(N + 1) : cut[i] = renamed[i - 1]
  <2>1. <<fresh>> \in Seq(SECTIONS) /\ Len(<<fresh>>) = 1 /\ <<fresh>>[1] = fresh
    OBVIOUS
  <2>2. /\ cut \in Seq(SECTIONS) /\ Len(cut) = 1 + N
        /\ \A i \in 1..(1 + N) : cut[i] = IF i <= 1 THEN <<fresh>>[i] ELSE renamed[i - 1]
    BY <2>1, ConcatProperties
  <2> HIDE DEF cut, N
  <2>3. 1 + N = N + 1 /\ 1 \in 1..(1 + N) /\ \A i \in 2..(N + 1) : i \in 1..(1 + N) /\ ~(i <= 1)
    BY <1>1
  <2>4. cut[1] = fresh
    BY <2>1, <2>2, <2>3
  <2>5. \A i \in 2..(N + 1) : cut[i] = renamed[i - 1]
    BY <2>2, <2>3
  <2> QED  BY <2>2, <2>3, <2>4, <2>5
<1> HIDE DEF cut
<1>3. ASSUME NEW k \in 1..(N - 1)  PROVE FromBottom(cut, k) = FromBottom(log, k)
  <2>1. FromBottom(cut, k) = cut[N + 1 + 1 - k] /\ FromBottom(log, k) = log[N + 1 - k]
    BY <1>2 DEF FromBottom
  <2> HIDE DEF N
  <2>2. /\ N + 1 + 1 - k \in 2..(N + 1) /\ N + 1 + 1 - k - 1 = N + 1 - k /\ N + 1 - k \in 1..N
        /\ N + 1 - k # 1
    BY <1>1
  <2>3. cut[N + 1 + 1 - k] = renamed[N + 1 - k]
    BY <2>2, <1>2
  <2> QED  BY <2>1, <2>2, <2>3 DEF N
<1>4. FromBottom(cut, N) = renamed[1] /\ FromBottom(cut, N + 1) = fresh /\ FromBottom(log, N) = log[1]
  <2>1. /\ FromBottom(cut, N) = cut[N + 1 + 1 - N] /\ FromBottom(log, N) = log[N + 1 - N]
        /\ FromBottom(cut, N + 1) = cut[N + 1 + 1 - (N + 1)]
    BY <1>2 DEF FromBottom
  <2> HIDE DEF N
  <2>2. /\ N + 1 + 1 - N = 2 /\ N + 1 - N = 1 /\ N + 1 + 1 - (N + 1) = 1 /\ 2 \in 2..(N + 1)
        /\ 2 - 1 = 1
    BY <1>1
  <2> QED  BY <2>1, <2>2, <1>2
<1>5. \A k \in 1..N : /\ FromBottom(log, k).heading = HeadingAt(k, s)
                      /\ FromBottom(log, k).dated = DatedAt(k, s)
  BY DEF LogOf
<1> HIDE DEF N
<1>6. ASSUME NEW k \in 1..(N + 1)
      PROVE  /\ FromBottom(cut, k).heading = HeadingAt(k, s + 1)
             /\ FromBottom(cut, k).dated = DatedAt(k, s + 1)
  <2>1. CASE k = N + 1
    <3>1. k = Old + (s + 1)
      BY <2>1, <1>1
    <3>2. HeadingAt(k, s + 1) = UNRELEASED /\ DatedAt(k, s + 1) = FALSE
      BY <3>1 DEF HeadingAt, DatedAt
    <3> QED  BY <2>1, <3>2, <1>4
  <2>2. CASE k = N
    <3>1. k # Old + (s + 1) /\ k >= Old /\ k - Old + 1 = s + 1
      BY <2>2, <1>1
    <3>2. HeadingAt(k, s + 1) = Releases[s + 1] /\ DatedAt(k, s + 1) = TRUE
      BY <3>1 DEF HeadingAt, DatedAt
    <3> QED  BY <2>2, <3>2, <1>4
  <2>3. CASE k # N /\ k # N + 1
    <3>1. k \in 1..(N - 1) /\ k # Old + s /\ k # Old + (s + 1) /\ k \in 1..N
      BY <2>3, <1>1
    <3>2. HeadingAt(k, s + 1) = HeadingAt(k, s) /\ DatedAt(k, s + 1) = DatedAt(k, s)
      BY <3>1 DEF HeadingAt, DatedAt
    <3> QED  BY <3>1, <3>2, <1>3, <1>5
  <2> QED  BY <2>1, <2>2, <2>3
<1>7. LogOf(cut, s + 1)
  <2>1. N + 1 = Old + (s + 1)
    BY <1>1
  <2> QED  BY <2>1, <1>2, <1>6 DEF LogOf
<1>8. ASSUME NEW k \in 1..N  PROVE Before(log, cut, k)
  <2>1. FromBottom(cut, k).entries = FromBottom(log, k).entries
    <3>1. k = N \/ k \in 1..(N - 1)
      BY <1>1
    <3> QED  BY <3>1, <1>3, <1>4
  <2>2. Before(log, log, k)
    BY <1>1, GoesOnFromItself DEF GoesOn, N
  <2> QED  BY <2>1, <2>2 DEF Before
<1>9. GoesOn(log, cut)
  <2>1. N <= N + 1
    BY <1>1
  <2> QED  BY <2>1, <1>2, <1>8 DEF GoesOn, N
<1> QED  BY <1>7, <1>9 DEF cut

LEMMA CutTree ==
    ASSUME shipped \in 0..Len(Releases), shipped < Len(Releases), TreeOf(mainTree, shipped)
    PROVE  LET head == Cut(Releases[shipped + 1])
           IN TreeOf(head, shipped + 1) /\ GoesOn(mainTree[CHANGELOG], head[CHANGELOG])
<1> DEFINE version == Releases[shipped + 1]
           log == mainTree[CHANGELOG]
           renamed == [log EXCEPT ![1].heading = version, ![1].dated = TRUE]
           cut == <<[heading |-> UNRELEASED, dated |-> FALSE, entries |-> <<>>]>> \o renamed
           filled == [i \in DOMAIN mainTree[DEPRECATIONS] |->
                         IF mainTree[DEPRECATIONS][i].deprecatedIn = NEXT_RELEASE
                         THEN [mainTree[DEPRECATIONS][i] EXCEPT !.deprecatedIn = version]
                         ELSE mainTree[DEPRECATIONS][i]]
           one == Tracking("pyproject.toml")
           two == <<"packages/testoperations", "pyproject.toml">>
           head == Cut(version)
<1>1. LogOf(log, shipped) /\ FILES \subseteq DOMAIN mainTree
  BY DEF TreeOf
<1>2. Unreleased(log) = 1
  BY <1>1, UnreleasedFirst
<1>3. LogOf(cut, shipped + 1) /\ GoesOn(log, cut)
  <2> DEFINE fresh == [heading |-> UNRELEASED, dated |-> FALSE, entries |-> <<>>]
  <2>1. log \in Seq(SECTIONS) /\ Len(log) \in Nat \ {0}
    BY <1>1, UnreleasedFirst DEF LogOf
  <2>2. version \in HEADINGS /\ UNRELEASED \in HEADINGS
    BY AtStart DEF HEADINGS
  <2>3. fresh \in SECTIONS /\ fresh.heading = UNRELEASED /\ fresh.dated = FALSE
    <3>1. <<>> \in Seq(ENTRIES)
      OBVIOUS
    <3> QED  BY <3>1, <2>2 DEF SECTIONS
  <2>4. /\ renamed \in Seq(SECTIONS) /\ Len(renamed) = Len(log)
        /\ renamed[1].heading = version /\ renamed[1].dated = TRUE
        /\ renamed[1].entries = log[1].entries
        /\ \A i \in 1..Len(log) : i # 1 => renamed[i] = log[i]
    <3> HIDE DEF version, log
    <3> QED  BY <2>1, <2>2, RenamedLog
  <2>5. cut = <<fresh>> \o renamed
    OBVIOUS
  <2> HIDE DEF renamed, fresh, cut
  <2> QED  BY <2>3, <2>4, <2>5, <1>1, CutLog
<1>4. head = [mainTree EXCEPT ![CHANGELOG] = cut, ![DEPRECATIONS] = filled, ![one] = version,
                              ![two] = version]
  BY <1>2 DEF Cut
<1> HIDE DEF cut, filled, version, head
<1>5. /\ one \in FILES /\ two \in FILES /\ VERSION_FILES = {one, two} /\ CHANGELOG \in FILES
      /\ CHANGELOG # DEPRECATIONS /\ CHANGELOG # one /\ CHANGELOG # two
  BY FilesDiffer DEF VERSION_FILES
<1> HIDE DEF one, two
<1>6. DOMAIN head = DOMAIN mainTree /\ head[CHANGELOG] = cut
  BY <1>1, <1>4, <1>5
<1>7. head[one] = version /\ head[two] = version
  BY <1>1, <1>4, <1>5
<1>8. \A f \in VERSION_FILES : head[f] = VersionAt(f, shipped + 1)
  BY <1>5, <1>7 DEF VersionAt, version
<1> QED  BY <1>1, <1>3, <1>6, <1>8 DEF TreeOf, head, version

\* A contribution adds what stands for something below [Unreleased].
LEMMA AddedLog ==
    ASSUME NEW s \in 0..Len(Releases), NEW log, LogOf(log, s), NEW added \in Seq(ENTRIES),
           \A i \in 1..Len(added) : added[i].text \notin PLACEHOLDERS
    PROVE  LET new == [log EXCEPT ![1].entries = @ \o added]
           IN LogOf(new, s) /\ GoesOn(log, new)
<1> DEFINE N == Len(log)
           top == [log[1] EXCEPT !.entries = log[1].entries \o added]
           new == [log EXCEPT ![1].entries = @ \o added]
<1>1. /\ log \in Seq(SECTIONS) /\ N = Old + s /\ N \in Nat \ {0}
      /\ DOMAIN log = 1..N /\ 1 \in 1..N /\ \A i \in 1..N : log[i] \in SECTIONS
      /\ FromBottom(log, N) = log[1]
  BY UnreleasedFirst DEF LogOf
<1>2. new = [log EXCEPT ![1] = top]
  OBVIOUS
<1>3. log[1] \in [heading : HEADINGS, dated : BOOLEAN, entries : Seq(ENTRIES)]
  BY <1>1 DEF SECTIONS
<1>4. /\ log[1].entries \o added \in Seq(ENTRIES)
      /\ Len(log[1].entries \o added) = Len(log[1].entries) + Len(added)
      /\ \A i \in 1..(Len(log[1].entries) + Len(added)) :
            (log[1].entries \o added)[i] = IF i <= Len(log[1].entries) THEN log[1].entries[i]
                                           ELSE added[i - Len(log[1].entries)]
  BY <1>3, ConcatProperties
<1>5. /\ top \in SECTIONS /\ top.heading = log[1].heading /\ top.dated = log[1].dated
      /\ top.entries = log[1].entries \o added
  BY <1>3, <1>4 DEF SECTIONS
<1> HIDE DEF top, new, N
<1>6. new \in [1..N -> SECTIONS] /\ new[1] = top /\ \A i \in 1..N : i # 1 => new[i] = log[i]
  BY <1>1, <1>2, <1>5
<1>7. new \in Seq(SECTIONS) /\ Len(new) = N
  BY <1>1, <1>6
<1>8. ASSUME NEW k \in 1..N
      PROVE  /\ k = N => FromBottom(new, k) = top
             /\ k # N => FromBottom(new, k) = FromBottom(log, k)
  <2>1. FromBottom(new, k) = new[N + 1 - k] /\ FromBottom(log, k) = log[N + 1 - k]
    BY <1>7 DEF FromBottom, N
  <2>2. N + 1 - k \in 1..N /\ (N + 1 - k = 1 <=> k = N)
    BY <1>1
  <2> QED  BY <2>1, <2>2, <1>6
<1>9. ASSUME NEW k \in 1..N
      PROVE  /\ FromBottom(new, k).heading = FromBottom(log, k).heading
             /\ FromBottom(new, k).dated = FromBottom(log, k).dated
  BY <1>1, <1>5, <1>8
<1>10. LogOf(new, s)
  BY <1>1, <1>7, <1>9 DEF LogOf, N
<1>11. ASSUME NEW k \in 1..N  PROVE Before(log, new, k)
  <2>1. CASE k # N
    <3>1. Before(log, log, k)
      BY <1>1, GoesOnFromItself DEF GoesOn, N
    <3> QED  BY <2>1, <3>1, <1>8 DEF Before
  <2>2. CASE k = N
    <3> DEFINE was == log[1].entries
               is == was \o added
    <3>1. FromBottom(log, k).entries = was /\ FromBottom(new, k).entries = is
      BY <2>2, <1>1, <1>5, <1>8
    <3>2. was \in Seq(ENTRIES)
      BY <1>3
    <3>3. /\ Len(is) = Len(was) + Len(added)
          /\ \A i \in 1..(Len(was) + Len(added)) :
                is[i] = IF i <= Len(was) THEN was[i] ELSE added[i - Len(was)]
      BY <1>4
    <3> HIDE DEF was, is
    <3>4. Len(was) \in Nat /\ Len(added) \in Nat
      BY <3>2
    <3>5. Len(was) <= Len(is) /\ \A i \in 1..Len(was) : is[i] = was[i]
      BY <3>3, <3>4
    <3>6. ASSUME NEW i \in 1..Len(is), i > Len(was)  PROVE is[i].text \notin PLACEHOLDERS
      <4>1. i - Len(was) \in 1..Len(added) /\ ~(i <= Len(was)) /\ i \in 1..(Len(was) + Len(added))
        BY <3>3, <3>4, <3>6
      <4> QED  BY <4>1, <3>3
    <3> QED  BY <3>1, <3>5, <3>6 DEF Before
  <2> QED  BY <2>1, <2>2
<1>12. GoesOn(log, new)
  BY <1>1, <1>7, <1>11 DEF GoesOn, N
<1> QED  BY <1>10, <1>12 DEF new

LEMMA ContributeTree ==
    ASSUME shipped \in 0..Len(Releases), TreeOf(mainTree, shipped), NEW c \in Contributions,
           NEW n \in 1..MaxPrs
    PROVE  LET head == Contribute(c, n)
           IN TreeOf(head, shipped) /\ GoesOn(mainTree[CHANGELOG], head[CHANGELOG])
<1> DEFINE log == mainTree[CHANGELOG]
           cited(e) == [e EXCEPT !.fields = <<CITATION, n>>]
           added == [i \in DOMAIN c.entries |-> cited(c.entries[i])]
           rows == SelectSeq(mainTree[DEPRECATIONS], LAMBDA r : r \notin c.gone) \o c.rows
           new == [log EXCEPT ![1].entries = @ \o added]
           kept == [mainTree EXCEPT ![CHANGELOG] = new, ![DEPRECATIONS] = rows]
           head == Contribute(c, n)
<1>1. LogOf(log, shipped) /\ FILES \subseteq DOMAIN mainTree /\ Unreleased(log) = 1
  BY UnreleasedFirst DEF TreeOf
<1>2. /\ DOMAIN c.edits \cap (CHANGELOG_FILES \cup VERSION_FILES) = {}
      /\ c.entries \in Seq(ToSet(c.entries))
      /\ \A e \in ToSet(c.entries) : "text" \in DOMAIN e /\ e.text \notin PLACEHOLDERS
  BY RepositoryAssumption
<1>3. /\ added \in Seq(ENTRIES) /\ \A i \in 1..Len(added) : added[i].text \notin PLACEHOLDERS
  <2>1. ASSUME NEW e \in ToSet(c.entries)  PROVE cited(e) \in ENTRIES
    <3>1. cited(e) \in Citing(e)
      BY DEF Citing
    <3>2. e \in CONTRIBUTED
      BY DEF CONTRIBUTED
    <3> HIDE DEF cited
    <3> QED  BY <3>1, <3>2 DEF ENTRIES, CITED
  <2>2. \A e \in ToSet(c.entries) : cited(e).text \notin PLACEHOLDERS
    BY <1>2
  <2> HIDE DEF cited
  <2>3. /\ DOMAIN c.entries = 1..Len(c.entries) /\ Len(c.entries) \in Nat
        /\ \A i \in DOMAIN c.entries : c.entries[i] \in ToSet(c.entries)
    BY <1>2
  <2>4. added \in [1..Len(c.entries) -> ENTRIES]
    BY <2>1, <2>3
  <2>5. \A i \in 1..Len(c.entries) : added[i].text \notin PLACEHOLDERS
    BY <2>2, <2>3
  <2> HIDE DEF added
  <2>6. added \in Seq(ENTRIES) /\ Len(added) = Len(c.entries)
    BY <2>3, <2>4
  <2> QED  BY <2>5, <2>6
<1>4. LogOf(new, shipped) /\ GoesOn(log, new)
  <2> HIDE DEF log, added
  <2> QED  BY <1>1, <1>3, AddedLog
<1>5. head = [p \in DOMAIN mainTree \cup DOMAIN c.edits |->
                  IF p \in DOMAIN c.edits THEN c.edits[p].to ELSE kept[p]]
  <2> DEFINE recorded == [mainTree EXCEPT ![CHANGELOG][1].entries = @ \o added, ![DEPRECATIONS] =
                                     SelectSeq(@, LAMBDA r : r \notin c.gone) \o c.rows]
  <2>1. head = [p \in DOMAIN mainTree \cup DOMAIN c.edits |->
                   IF p \in DOMAIN c.edits THEN c.edits[p].to ELSE recorded[p]]
    BY <1>1 DEF Contribute
  <2>2. recorded = kept
    BY FilesDiffer
  <2> HIDE DEF recorded, kept, added
  <2> QED  BY <2>1, <2>2
<1> HIDE DEF new, rows, head, kept
<1>7. CHANGELOG \notin DOMAIN c.edits /\ VERSION_FILES \cap DOMAIN c.edits = {}
  BY <1>2 DEF CHANGELOG_FILES
<1>8. /\ DOMAIN kept = DOMAIN mainTree /\ kept[CHANGELOG] = new
      /\ \A f \in VERSION_FILES : kept[f] = mainTree[f]
  BY <1>1, FilesDiffer DEF kept
<1>9. /\ DOMAIN mainTree \subseteq DOMAIN head
      /\ \A p \in DOMAIN mainTree \ DOMAIN c.edits : head[p] = kept[p]
  BY <1>5
<1>10. FILES \subseteq DOMAIN head /\ head[CHANGELOG] = new
  BY <1>1, <1>7, <1>8, <1>9, FilesDiffer
<1>11. \A f \in VERSION_FILES : head[f] = VersionAt(f, shipped)
  BY <1>1, <1>7, <1>8, <1>9, FilesDiffer DEF TreeOf
<1> QED  BY <1>4, <1>10, <1>11 DEF TreeOf, head

----------------------------------------------------------------------------
\* What an open branch is, beside a main with r releases of n pull requests: it
\* left main, and goes on from there. A release branch is the next release, of
\* the main that it left, and once hygiene passes it its section can be printed.
IsRelease(pr) == pr.title.prefix = "release"
VERDICTS == {"none", "success", "failure"}
BranchFrom(pr, s, tree, r) ==
    /\ TreeOf(pr.base, s)
    /\ GoesOn(pr.base[CHANGELOG], tree[CHANGELOG])
    /\ GoesOn(pr.base[CHANGELOG], pr.head[CHANGELOG])
    /\ IsRelease(pr) => /\ s = r /\ r < Len(Releases) /\ pr.title.rest = Releases[r + 1]
                        /\ TreeOf(pr.head, r + 1)
    /\ ~IsRelease(pr) => TreeOf(pr.head, s)
Branch(pr, tree, n, r) ==
    /\ pr.number \in 1..n /\ pr.hygiene \in VERDICTS /\ pr.lint \in VERDICTS
    /\ \E s \in 0..r : BranchFrom(pr, s, tree, r)
    /\ pr.hygiene = "success" => CheckRelease(AsPr(pr), pr.head) \subseteq {"unfilled row"}
MainOf(tree, r) ==
    /\ r \in 0..Len(Releases) /\ TreeOf(tree, r)
    /\ \A i \in 1..r : Told(FromBottom(tree[CHANGELOG], Old + i - 1))
LogInv ==
    /\ KeptInv
    /\ numbers \in 0..MaxPrs /\ MainOf(mainTree, shipped)
    /\ \A s \in Open : Branch(prs[s], mainTree, numbers, shipped)
    /\ \A s, t \in Open : IsRelease(prs[s]) /\ IsRelease(prs[t]) => s = t

\* A branch stays one while main goes on, and a release branch while no other
\* release lands.
LEMMA BranchFarther ==
    ASSUME NEW pr, NEW tree, NEW n \in Nat, NEW r \in Nat, Branch(pr, tree, n, r), TreeOf(tree, r),
           NEW tree2, NEW n2 \in Nat, NEW r2 \in Nat, TreeOf(tree2, r2), n <= n2, r <= r2,
           GoesOn(tree[CHANGELOG], tree2[CHANGELOG]), IsRelease(pr) => r2 = r
    PROVE  Branch(pr, tree2, n2, r2)
<1>1. PICK s \in 0..r : BranchFrom(pr, s, tree, r)
  BY DEF Branch
<1>2. GoesOn(pr.base[CHANGELOG], tree2[CHANGELOG])
  <2>1. GoesOn(pr.base[CHANGELOG], tree[CHANGELOG])
    BY <1>1 DEF BranchFrom
  <2>2. /\ pr.base[CHANGELOG] \in Seq(SECTIONS) /\ tree[CHANGELOG] \in Seq(SECTIONS)
        /\ tree2[CHANGELOG] \in Seq(SECTIONS)
    BY <1>1 DEF BranchFrom, TreeOf, LogOf
  <2> QED  BY <2>1, <2>2, GoesOnFarther
<1>3. BranchFrom(pr, s, tree2, r2) /\ s \in 0..r2
  BY <1>1, <1>2 DEF BranchFrom
<1>4. pr.number \in 1..n2
  <2>1. pr.number \in 1..n
    BY Zenon DEF Branch
  <2> QED  BY <2>1
<1> QED  BY <1>3, <1>4 DEF Branch

LEMMA PushedIsBranch ==
    ASSUME NEW n \in Nat, NEW number \in 1..n, NEW title, NEW author, NEW base, NEW head,
           NEW s \in 0..shipped, TreeOf(base, s),
           GoesOn(base[CHANGELOG], mainTree[CHANGELOG]), GoesOn(base[CHANGELOG], head[CHANGELOG]),
           title.prefix = "release" => /\ s = shipped /\ shipped < Len(Releases)
                                       /\ title.rest = Releases[shipped + 1]
                                       /\ TreeOf(head, shipped + 1),
           title.prefix # "release" => TreeOf(head, s)
    PROVE  /\ Branch(Pushed(title, author, number, base, head), mainTree, n, shipped)
           /\ Pushed(title, author, number, base, head).title = title
<1> DEFINE pr == Pushed(title, author, number, base, head)
<1>1. /\ pr.title = title /\ pr.number = number /\ pr.base = base /\ pr.head = head
      /\ pr.hygiene = "none" /\ pr.lint = ContractJob(base, head)
  BY DEF Pushed
<1>2. ContractJob(base, head) \in VERDICTS
  BY DEF ContractJob, VERDICTS
<1> HIDE DEF pr
<1>3. BranchFrom(pr, s, mainTree, shipped)
  BY <1>1 DEF BranchFrom, IsRelease
<1>4. "none" \in VERDICTS /\ "none" # "success"
  BY DEF VERDICTS
<1>5. Branch(pr, mainTree, n, shipped)
  BY <1>1, <1>2, <1>3, <1>4 DEF Branch
<1> QED  BY <1>1, <1>5 DEF pr

\* A step that puts one record in one slot, and takes main on.
LEMMA OneBranch ==
    ASSUME LogInv, NEW s \in Slots, NEW pr, prs' = [prs EXCEPT ![s] = pr], KeptPr(pr),
           numbers' \in 0..MaxPrs, numbers <= numbers', MainOf(mainTree', shipped'),
           shipped <= shipped', GoesOn(mainTree[CHANGELOG], mainTree'[CHANGELOG]),
           pr.open => Branch(pr, mainTree', numbers', shipped'),
           \A t \in Open : t # s /\ IsRelease(prs[t]) =>
              shipped' = shipped /\ ~(pr.open /\ IsRelease(pr))
    PROVE  LogInv'
<1>1. KeptInv'
  BY OneSlot DEF LogInv
<1>2. prs'[s] = pr /\ \A t \in Slots : t # s => prs'[t] = prs[t]
  BY DEF LogInv, KeptInv
<1>3. \A t \in Slots : t # s => (t \in Open' <=> t \in Open)
  BY <1>2 DEF Open
<1>4. s \in Open' <=> pr.open
  BY <1>2 DEF Open
<1>5. Open' \subseteq Slots
  BY DEF Open
<1>6. ASSUME NEW t \in Open'  PROVE Branch(prs'[t], mainTree', numbers', shipped')
  <2>1. CASE t = s
    BY <2>1, <1>2, <1>4, <1>6
  <2>2. CASE t # s
    <3>1. t \in Open /\ prs'[t] = prs[t]
      BY <2>2, <1>2, <1>3, <1>5, <1>6
    <3>2. Branch(prs[t], mainTree, numbers, shipped) /\ TreeOf(mainTree, shipped)
      BY <3>1 DEF LogInv, MainOf
    <3>3. numbers \in Nat /\ numbers' \in Nat /\ shipped \in Nat /\ shipped' \in Nat
      BY AtStart DEF LogInv, MainOf
    <3>4. TreeOf(mainTree', shipped') /\ (IsRelease(prs[t]) => shipped' = shipped)
      BY <2>2, <3>1 DEF MainOf
    <3>5. Branch(prs[t], mainTree', numbers', shipped')
      BY <3>2, <3>3, <3>4, BranchFarther
    <3> QED  BY <3>1, <3>5
  <2> QED  BY <2>1, <2>2
<1>7. ASSUME NEW t \in Open', NEW u \in Open', IsRelease(prs'[t]), IsRelease(prs'[u])
      PROVE  t = u
  <2>1. CASE t # s /\ u # s
    BY <2>1, <1>2, <1>3, <1>5, <1>7 DEF LogInv
  <2>2. CASE t = s \/ u = s
    BY <2>2, <1>2, <1>3, <1>4, <1>5, <1>7
  <2> QED  BY <2>1, <2>2
<1> QED  BY <1>1, <1>6, <1>7 DEF LogInv

LEMMA LogInvAtStart == Init => LogInv
<1> SUFFICES ASSUME Init  PROVE LogInv
  OBVIOUS
<1>1. prs = [s \in Slots |-> NoPr] /\ mainTree = Start /\ numbers = 0 /\ shipped = 0
  BY DEF Init
<1>2. KeptInv /\ Open = {}
  BY <1>1, ClosedIsKept DEF KeptInv, Open, NoPr
<1>3. FILES \subseteq DOMAIN Start
  BY RepositoryAssumption DEF FILES
<1>4. TreeOf(Start, 0)
  BY <1>3, AtStart DEF TreeOf, VersionAt
<1>5. MainOf(Start, 0)
  BY <1>4, AtStart DEF MainOf
<1>6. 0 \in 0..MaxPrs
  BY AtStart
<1> QED  BY <1>1, <1>2, <1>5, <1>6 DEF LogInv

\* What a step that leaves main alone needs of it.
LEMMA MainStays ==
    ASSUME LogInv
    PROVE  /\ shipped \in 0..Len(Releases) /\ shipped \in Nat /\ shipped <= shipped
           /\ shipped \in 0..shipped /\ numbers \in 0..MaxPrs /\ numbers \in Nat
           /\ numbers <= numbers /\ MaxPrs \in Nat
           /\ TreeOf(mainTree, shipped) /\ GoesOn(mainTree[CHANGELOG], mainTree[CHANGELOG])
<1>1. TreeOf(mainTree, shipped) /\ shipped \in 0..Len(Releases) /\ numbers \in 0..MaxPrs
  BY DEF LogInv, MainOf
<1>2. mainTree[CHANGELOG] \in Seq(SECTIONS)
  BY <1>1 DEF TreeOf, LogOf
<1> QED  BY <1>1, <1>2, AtStart, GoesOnFromItself

LEMMA OpenPrKeepsLog == ASSUME LogInv, OpenPr PROVE LogInv'
<1>1. PICK s \in Slots \ Open, c \in Contributions :
         prs' = [prs EXCEPT ![s] = Pushed(c.title, c.author, numbers + 1, mainTree,
                                          Contribute(c, numbers + 1))]
  BY DEF OpenPr
<1>2. numbers < MaxPrs /\ numbers' = numbers + 1 /\ UNCHANGED <<mainTree, shipped>>
  BY DEF OpenPr
<1> DEFINE n == numbers + 1
           head == Contribute(c, n)
           pr == Pushed(c.title, c.author, n, mainTree, head)
<1>3. n \in Nat /\ n \in 1..n /\ n \in 1..MaxPrs /\ n \in 0..MaxPrs /\ numbers <= n
  BY <1>2, MainStays
<1>4. TreeOf(head, shipped) /\ GoesOn(mainTree[CHANGELOG], head[CHANGELOG])
  BY <1>3, MainStays, ContributeTree
<1>5. c.title.prefix # "release"
  BY RepositoryAssumption
<1>6. prs' = [prs EXCEPT ![s] = pr] /\ numbers' = n
  BY <1>1, <1>2
<1>7. KeptPr(pr)
  BY PushedIsKept
<1> HIDE DEF n, head
<1>8. Branch(pr, mainTree, n, shipped) /\ ~IsRelease(pr)
  BY <1>3, <1>4, <1>5, MainStays, PushedIsBranch DEF IsRelease
<1>9. MainOf(mainTree, shipped)
  BY DEF LogInv
<1> HIDE DEF pr
<1> QED  BY <1>2, <1>3, <1>6, <1>7, <1>8, <1>9, MainStays, OneBranch

LEMMA OpenReleaseKeepsLog == ASSUME LogInv, OpenRelease PROVE LogInv'
<1> DEFINE n == numbers + 1
           version == Releases[shipped + 1]
           head == Cut(version)
           title == [prefix |-> "release", rest |-> version]
           pr == Pushed(title, "mia", n, mainTree, head)
<1>1. PICK s \in Slots \ Open : prs' = [prs EXCEPT ![s] = pr]
  BY DEF OpenRelease
<1>2. /\ shipped < Len(Releases) /\ numbers < MaxPrs /\ numbers' = n
      /\ UNCHANGED <<mainTree, shipped>> /\ \A t \in Open : ~IsRelease(prs[t])
  BY DEF OpenRelease, IsRelease
<1>3. n \in Nat /\ n \in 1..n /\ n \in 0..MaxPrs /\ numbers <= n
  BY <1>2, MainStays
<1>4. TreeOf(head, shipped + 1) /\ GoesOn(mainTree[CHANGELOG], head[CHANGELOG])
  BY <1>2, MainStays, CutTree
<1>5. title.prefix = "release" /\ title.rest = version
  OBVIOUS
<1>6. KeptPr(pr)
  BY PushedIsKept
<1> HIDE DEF n, head, title
<1>7. Branch(pr, mainTree, n, shipped)
  BY <1>2, <1>3, <1>4, <1>5, MainStays, PushedIsBranch
<1>8. MainOf(mainTree, shipped)
  BY DEF LogInv
<1> HIDE DEF pr
<1> QED  BY <1>1, <1>2, <1>3, <1>6, <1>7, <1>8, MainStays, OneBranch

LEMMA HygieneJobKeepsLog == ASSUME LogInv, HygieneJob PROVE LogInv'
<1>1. KeptInv
  BY DEF LogInv
<1>2. PICK s \in Open : \E pr : JudgedAs(s, pr)
  BY <1>1, Judged
<1>a. PICK pr : JudgedAs(s, pr)
  BY <1>2
<1> USE DEF JudgedAs
<1>3. UNCHANGED <<mainTree, numbers, shipped>>
  BY DEF HygieneJob
<1>4. /\ pr.title = prs[s].title /\ pr.number = prs[s].number /\ pr.lint = prs[s].lint
      /\ pr.base = prs[s].base /\ pr.head = prs[s].head
  BY <1>a DEF FIELDS
<1>5. pr.hygiene = "success" =>
         Passed(pr) /\ CheckRelease(AsPr(pr), pr.head) \subseteq {"unfilled row"}
  BY <1>a
<1>6. Branch(prs[s], mainTree, numbers, shipped)
  BY DEF LogInv
<1>7. pr.hygiene \in VERDICTS
  BY <1>a DEF VERDICTS
<1>8. Branch(pr, mainTree, numbers, shipped) /\ KeptPr(pr)
  BY <1>a, <1>4, <1>5, <1>6, <1>7 DEF Branch, BranchFrom, IsRelease, KeptPr
<1>9. \A t \in Open : t # s /\ IsRelease(prs[t]) => ~IsRelease(pr)
  BY <1>4 DEF LogInv, IsRelease
<1>10. MainOf(mainTree, shipped) /\ s \in Slots
  BY DEF LogInv, Open
<1> QED  BY <1>a, <1>3, <1>8, <1>9, <1>10, MainStays, OneBranch

\* What main becomes when a branch is merged with it.
LEMMA MergedBranch ==
    ASSUME LogInv, NEW s \in Open, Merges(prs[s].base, mainTree, prs[s].head)
    PROVE  LET merged == Merge(prs[s].base, mainTree, prs[s].head)
           IN /\ TreeOf(merged, IF IsRelease(prs[s]) THEN shipped + 1 ELSE shipped)
              /\ GoesOn(mainTree[CHANGELOG], merged[CHANGELOG])
              /\ IsRelease(prs[s]) => Gathers(mainTree[CHANGELOG], prs[s].head[CHANGELOG],
                                              merged[CHANGELOG], Old + shipped)
<1> DEFINE pr == prs[s]
<1>1. PICK sb \in 0..shipped : BranchFrom(pr, sb, mainTree, shipped)
  BY DEF LogInv, Branch
<1>2. /\ TreeOf(pr.base, sb) /\ TreeOf(mainTree, shipped)
      /\ GoesOn(pr.base[CHANGELOG], mainTree[CHANGELOG])
      /\ GoesOn(pr.base[CHANGELOG], pr.head[CHANGELOG])
  BY <1>1, MainStays DEF BranchFrom
<1>3. shipped \in 0..Len(Releases) /\ sb \in 0..Len(Releases) /\ Len(Releases) \in Nat
  BY MainStays, AtStart
<1>4. CASE IsRelease(pr)
  <2>1. sb = shipped /\ shipped < Len(Releases) /\ TreeOf(pr.head, shipped + 1)
    BY <1>1, <1>4 DEF BranchFrom
  <2>2. shipped + 1 \in 0..Len(Releases) /\ shipped + 1 # sb /\ shipped + 1 = sb + 1
    BY <1>3, <2>1
  <2>3. Len(pr.base[CHANGELOG]) = Old + shipped
    BY <1>2, <2>1 DEF TreeOf, LogOf
  <2> HIDE DEF pr
  <2>4. LET merged == Merge(pr.base, mainTree, pr.head)
        IN /\ TreeOf(merged, shipped + 1) /\ GoesOn(mainTree[CHANGELOG], merged[CHANGELOG])
           /\ Gathers(mainTree[CHANGELOG], pr.head[CHANGELOG], merged[CHANGELOG],
                      Len(pr.base[CHANGELOG]))
    <3>1. Merges(pr.base, mainTree, pr.head)
      BY DEF pr
    <3> QED  BY <1>2, <1>3, <2>1, <2>2, <3>1, MergedTree
  <2> QED  BY <1>4, <2>3, <2>4 DEF pr
<1>5. CASE ~IsRelease(pr)
  <2>1. TreeOf(pr.head, sb)
    BY <1>1, <1>5 DEF BranchFrom
  <2> HIDE DEF pr
  <2>2. LET merged == Merge(pr.base, mainTree, pr.head)
        IN TreeOf(merged, shipped) /\ GoesOn(mainTree[CHANGELOG], merged[CHANGELOG])
    <3>1. Merges(pr.base, mainTree, pr.head)
      BY DEF pr
    <3> QED  BY <1>2, <1>3, <2>1, <3>1, MergedTree
  <2> QED  BY <1>5, <2>2 DEF pr
<1> QED  BY <1>4, <1>5

LEMMA PushKeepsLog == ASSUME LogInv, Push PROVE LogInv'
<1>1. PICK s \in Open :
         \/ prs' = [prs EXCEPT ![s] = Pushed(prs[s].title, prs[s].author, prs[s].number,
                                             prs[s].base, prs[s].head)]
         \/ /\ Merges(prs[s].base, mainTree, prs[s].head)
            /\ prs' = [prs EXCEPT ![s] =
                          Pushed(prs[s].title, prs[s].author, prs[s].number, mainTree,
                                 Merge(prs[s].base, mainTree, prs[s].head))]
  BY DEF Push
<1> DEFINE pr == prs[s]
           merged == Merge(pr.base, mainTree, pr.head)
<1>2. UNCHANGED <<mainTree, numbers, shipped>>
  BY DEF Push
<1>3. PICK sb \in 0..shipped : BranchFrom(pr, sb, mainTree, shipped)
  BY DEF LogInv, Branch
<1>4. pr.number \in 1..numbers /\ MainOf(mainTree, shipped) /\ s \in Slots
  BY DEF LogInv, Branch, Open
<1>5. \A t \in Open : t # s /\ IsRelease(prs[t]) => ~IsRelease(pr)
  BY DEF LogInv
<1>6. ASSUME NEW new, prs' = [prs EXCEPT ![s] = new], KeptPr(new),
             Branch(new, mainTree, numbers, shipped), new.title = pr.title
      PROVE  LogInv'
  <2>1. IsRelease(new) <=> IsRelease(pr)
    BY <1>6 DEF IsRelease
  <2> HIDE DEF pr
  <2> QED  BY <2>1, <1>2, <1>4, <1>5, <1>6, MainStays, OneBranch
<1>7. CASE prs' = [prs EXCEPT ![s] = Pushed(pr.title, pr.author, pr.number, pr.base, pr.head)]
  <2> DEFINE new == Pushed(pr.title, pr.author, pr.number, pr.base, pr.head)
  <2> HIDE DEF pr
  <2>1. Branch(new, mainTree, numbers, shipped) /\ new.title = pr.title
    BY <1>3, <1>4, MainStays, PushedIsBranch DEF BranchFrom, IsRelease
  <2>2. KeptPr(new)
    BY PushedIsKept
  <2> QED  BY <1>6, <1>7, <2>1, <2>2
<1>8. CASE /\ Merges(pr.base, mainTree, pr.head)
           /\ prs' = [prs EXCEPT ![s] = Pushed(pr.title, pr.author, pr.number, mainTree, merged)]
  <2> DEFINE new == Pushed(pr.title, pr.author, pr.number, mainTree, merged)
  <2>1. /\ TreeOf(merged, IF IsRelease(pr) THEN shipped + 1 ELSE shipped)
        /\ GoesOn(mainTree[CHANGELOG], merged[CHANGELOG])
    BY <1>8, MergedBranch
  <2> HIDE DEF pr, merged
  <2>2. IsRelease(pr) => shipped < Len(Releases) /\ pr.title.rest = Releases[shipped + 1]
    BY <1>3 DEF BranchFrom
  <2>3. Branch(new, mainTree, numbers, shipped) /\ new.title = pr.title
    BY <1>4, <2>1, <2>2, MainStays, PushedIsBranch DEF IsRelease
  <2>4. KeptPr(new)
    BY PushedIsKept
  <2> QED  BY <1>6, <1>8, <2>3, <2>4
<1> QED  BY <1>1, <1>7, <1>8

\* A release that hygiene passed has something to print, and so has its section
\* once it is merged.
LEMMA LandedIsTold ==
    ASSUME LogInv, NEW s \in Open, IsRelease(prs[s]), prs[s].hygiene = "success",
           Merges(prs[s].base, mainTree, prs[s].head)
    PROVE  Told(FromBottom(Merge(prs[s].base, mainTree, prs[s].head)[CHANGELOG], Old + shipped))
<1> DEFINE pr == prs[s]
           b == pr.base[CHANGELOG]
           o == mainTree[CHANGELOG]
           t == pr.head[CHANGELOG]
           m == Merge(pr.base, mainTree, pr.head)[CHANGELOG]
           k == Old + shipped
<1>1. PICK sb \in 0..shipped : BranchFrom(pr, sb, mainTree, shipped)
  BY DEF LogInv, Branch
<1>2. /\ sb = shipped /\ shipped < Len(Releases) /\ pr.title.rest = Releases[shipped + 1]
      /\ TreeOf(pr.base, shipped) /\ TreeOf(mainTree, shipped) /\ TreeOf(pr.head, shipped + 1)
      /\ GoesOn(b, o) /\ GoesOn(b, t)
  BY <1>1, MainStays DEF BranchFrom
<1>3. /\ b \in Seq(SECTIONS) /\ o \in Seq(SECTIONS) /\ t \in Seq(SECTIONS) /\ Len(b) = k
      /\ LogOf(t, shipped + 1) /\ CHANGELOG \in DOMAIN pr.head
  BY <1>2, FilesDiffer DEF TreeOf, LogOf
<1>4. CheckRelease(AsPr(pr), pr.head) \subseteq {"unfilled row"}
  BY DEF LogInv, Branch
<1>5. Kind(AsPr(pr)) = "release" /\ AsPr(pr).title.rest = pr.title.rest
  BY DEF AsPr, Kind, ParseKind, IsRelease, KINDS
<1> HIDE DEF pr
<1>6. Section(t, pr.title.rest, FALSE) = {}
  <2>1. Section(t, pr.title.rest, FALSE) \subseteq {"unfilled row"}
    BY <1>3, <1>4, <1>5 DEF CheckRelease
  <2>2. "unfilled row" \notin Section(t, pr.title.rest, FALSE)
    BY DEF Section, Problem
  <2> QED  BY <2>1, <2>2
<1>7. Told(FromBottom(t, k))
  <2>1. shipped + 1 \in 0..Len(Releases) /\ shipped + 1 \in 1..(shipped + 1)
    BY <1>2, MainStays, AtStart
  <2>2. Old + (shipped + 1) - 1 = k
    BY MainStays, AtStart
  <2> HIDE DEF t
  <2> QED  BY <1>2, <1>3, <1>6, <2>1, <2>2, ToldIsPrinted
<1>8. Gathers(o, t, m, k)
  BY MergedBranch DEF pr
<1>9. k \in 1..Len(b)
  BY <1>3, MainStays, AtStart
<1> HIDE DEF b, o, t, m, k
<1>10. Told(FromBottom(m, k))
  BY <1>2, <1>3, <1>7, <1>8, <1>9, MergedTold
<1> QED  BY <1>10 DEF pr, m, k

LEMMA LandKeepsLog ==
    ASSUME LogInv, Land
    PROVE  LogInv' /\ GoesOn(mainTree[CHANGELOG], mainTree'[CHANGELOG])
<1>1. PICK s \in Open :
         /\ prs[s].hygiene = "success" /\ Merges(prs[s].base, mainTree, prs[s].head)
         /\ mainTree' = Merge(prs[s].base, mainTree, prs[s].head)
         /\ prs' = [prs EXCEPT ![s] = NoPr]
         /\ shipped' = IF IsRelease(prs[s]) THEN shipped + 1 ELSE shipped
  BY DEF Land, IsRelease
<1>2. numbers' = numbers
  BY DEF Land
<1>3. TreeOf(mainTree', shipped') /\ GoesOn(mainTree[CHANGELOG], mainTree'[CHANGELOG])
  BY <1>1, MergedBranch
<1>4. shipped' \in 0..Len(Releases) /\ shipped <= shipped' /\ shipped \in Nat
  <2>1. CASE IsRelease(prs[s])
    <3>1. shipped < Len(Releases)
      BY <2>1 DEF LogInv, Branch, BranchFrom
    <3> QED  BY <2>1, <3>1, <1>1, MainStays, AtStart
  <2>2. CASE ~IsRelease(prs[s])
    BY <2>2, <1>1, MainStays
  <2> QED  BY <2>1, <2>2
<1>5. ASSUME NEW i \in 1..shipped'  PROVE Told(FromBottom(mainTree'[CHANGELOG], Old + i - 1))
  <2>1. CASE i \in 1..shipped
    <3>1. Told(FromBottom(mainTree[CHANGELOG], Old + i - 1))
      BY <2>1 DEF LogInv, MainOf
    <3>2. /\ mainTree[CHANGELOG] \in Seq(SECTIONS) /\ mainTree'[CHANGELOG] \in Seq(SECTIONS)
          /\ Len(mainTree[CHANGELOG]) = Old + shipped
      BY <1>3, MainStays DEF TreeOf, LogOf
    <3>3. Old + i - 1 \in 1..Len(mainTree[CHANGELOG])
      BY <2>1, <3>2, <1>4, AtStart
    <3> QED  BY <3>1, <3>2, <3>3, <1>3, StillTold
  <2>2. CASE i \notin 1..shipped
    <3>1. IsRelease(prs[s])
      BY <2>2, <1>1, <1>4
    <3>2. i = shipped + 1 /\ Old + i - 1 = Old + shipped
      BY <2>2, <3>1, <1>1, <1>4, AtStart
    <3> QED  BY <3>1, <3>2, <1>1, LandedIsTold
  <2> QED  BY <2>1, <2>2
<1>6. MainOf(mainTree', shipped')
  BY <1>3, <1>4, <1>5 DEF MainOf
<1>7. \A t \in Open : t # s /\ IsRelease(prs[t]) => shipped' = shipped
  BY <1>1 DEF LogInv
<1>8. KeptPr(NoPr) /\ ~NoPr.open /\ s \in Slots
  BY ClosedIsKept DEF NoPr, Open
<1> QED  BY <1>1, <1>2, <1>3, <1>4, <1>6, <1>7, <1>8, MainStays, OneBranch

LEMMA CloseKeepsLog == ASSUME LogInv, Close PROVE LogInv'
<1>1. PICK s \in Open : prs' = [prs EXCEPT ![s] = NoPr]
  BY DEF Close
<1>2. UNCHANGED <<mainTree, numbers, shipped>>
  BY DEF Close
<1>3. KeptPr(NoPr) /\ ~NoPr.open /\ s \in Slots /\ MainOf(mainTree, shipped)
  BY ClosedIsKept DEF NoPr, Open, LogInv
<1> QED  BY <1>1, <1>2, <1>3, MainStays, OneBranch

LEMMA LogNext ==
    LogInv /\ [Next]_vars => LogInv' /\ GoesOn(mainTree[CHANGELOG], mainTree'[CHANGELOG])
<1> SUFFICES ASSUME LogInv, [Next]_vars
             PROVE  LogInv' /\ GoesOn(mainTree[CHANGELOG], mainTree'[CHANGELOG])
  OBVIOUS
<1>1. mainTree' = mainTree => GoesOn(mainTree[CHANGELOG], mainTree'[CHANGELOG])
  BY MainStays
<1>2. CASE OpenPr
  BY <1>1, <1>2, OpenPrKeepsLog DEF OpenPr
<1>3. CASE OpenRelease
  BY <1>1, <1>3, OpenReleaseKeepsLog DEF OpenRelease
<1>4. CASE HygieneJob
  BY <1>1, <1>4, HygieneJobKeepsLog DEF HygieneJob
<1>5. CASE Push
  BY <1>1, <1>5, PushKeepsLog DEF Push
<1>6. CASE Land
  BY <1>6, LandKeepsLog
<1>7. CASE Close
  BY <1>1, <1>7, CloseKeepsLog DEF Close
<1>8. CASE UNCHANGED vars
  <2>1. mainTree' = mainTree /\ prs' = prs /\ numbers' = numbers /\ shipped' = shipped
    BY <1>8 DEF vars
  <2>2. Open' = Open
    BY <2>1 DEF Open
  <2>3. KeptInv'
    BY <1>8, KeptNext DEF LogInv
  <2>4. LogInv'
    BY <2>1, <2>2, <2>3 DEF LogInv
  <2> QED  BY <1>1, <2>1, <2>4
<1> QED  BY <1>2, <1>3, <1>4, <1>5, <1>6, <1>7, <1>8 DEF Next

\* Main always has its files, [Unreleased] on top, and one section per release
\* that landed, and every open branch a number that was given and verdicts.
THEOREM RepositoryTypeOK == Spec => []TypeOK
<1>1. LogInv => TypeOK
  <2> SUFFICES ASSUME LogInv  PROVE TypeOK
    OBVIOUS
  <2>1. TreeOf(mainTree, shipped) /\ shipped \in 0..Len(Releases)
    BY MainStays
  <2>2. Unreleased(mainTree[CHANGELOG]) = 1
    BY <2>1, UnreleasedFirst DEF TreeOf
  <2>3. Len(mainTree[CHANGELOG]) = Len(Start[CHANGELOG]) + shipped
    BY <2>1 DEF TreeOf, LogOf, Old
  <2>4. {CHANGELOG, DEPRECATIONS, MAINTAINERS_FILE} \cup VERSION_FILES \subseteq DOMAIN mainTree
    BY <2>1 DEF TreeOf, FILES
  <2>5. \A s \in Open : prs[s].number \in 1..numbers /\ prs[s].hygiene \in VERDICTS
                        /\ prs[s].lint \in VERDICTS
    BY DEF LogInv, Branch
  <2> QED  BY <2>2, <2>3, <2>4, <2>5 DEF TypeOK, VERDICTS
<1> QED  BY <1>1, LogInvAtStart, LogNext, PTL DEF Spec

\* Once a release has landed, whatever had landed since its branch was judged and
\* whatever lands after it, release.yml finds its notes to print, and as long as
\* it is the last one both versions are its own.
THEOREM NotesPublishableCorrect == Spec => []NotesPublishable
<1>1. LogInv => NotesPublishable
  <2> SUFFICES ASSUME LogInv, NEW i \in 1..shipped
               PROVE  ReleaseNotes(mainTree, Releases[i], FALSE, i = shipped) = {}
    BY DEF NotesPublishable
  <2>1. TreeOf(mainTree, shipped) /\ shipped \in 0..Len(Releases)
    BY MainStays
  <2>2. Told(FromBottom(mainTree[CHANGELOG], Old + i - 1))
    BY DEF LogInv, MainOf
  <2>3. Section(mainTree[CHANGELOG], Releases[i], FALSE) = {}
    BY <2>1, <2>2, ToldIsPrinted DEF TreeOf
  <2>4. i = shipped => VersionProblems(mainTree, Releases[i], VERSION_FILES) = {}
    <3> SUFFICES ASSUME i = shipped, NEW f \in VERSION_FILES
                 PROVE  f \in DOMAIN mainTree /\ mainTree[f] = Releases[i]
      BY DEF VersionProblems, Problem
    <3>1. shipped # 0
      BY MainStays
    <3> QED  BY <2>1, <3>1 DEF TreeOf, FILES, VersionAt
  <2> QED  BY <2>3, <2>4 DEF ReleaseNotes
<1> QED  BY <1>1, LogInvAtStart, LogNext, PTL DEF Spec

\* Nothing said in the changelog of main is ever lost, moved to another section or
\* put in another order, and no line that stands for there being none gets back
\* into a section: contributions, releases and merges of branches that are behind
\* only add to it.
THEOREM ChangelogGoesOn == Spec => [][GoesOn(mainTree[CHANGELOG], mainTree'[CHANGELOG])]_vars
<1>1. LogInv /\ [Next]_vars => [GoesOn(mainTree[CHANGELOG], mainTree'[CHANGELOG])]_vars
  BY LogNext
<1> QED  BY <1>1, LogInvAtStart, LogNext, PTL DEF Spec

----------------------------------------------------------------------------
\* Places in a sequence, and the names at them.

\* How many of some places come up to one of them.
Rank(places, i) == Cardinality({j \in places : j <= i})

LEMMA RankIs ==
    ASSUME NEW n \in Nat, NEW places \in SUBSET (1..n)
    PROVE  /\ IsFiniteSet(places) /\ Cardinality(places) \in Nat
           /\ \A i \in places : Rank(places, i) \in 1..Cardinality(places)
           /\ \A i, j \in places : Rank(places, i) = Rank(places, j) => i = j
<1>1. IsFiniteSet(places) /\ Cardinality(places) \in Nat
  <2>1. IsFiniteSet(1..n)
    BY FS_Interval
  <2> QED  BY <2>1, FS_Subset, FS_CardinalityType
<1> DEFINE Upto(i) == {j \in places : j <= i}
<1>2. ASSUME NEW i \in places
      PROVE  /\ IsFiniteSet(Upto(i)) /\ Cardinality(Upto(i)) \in Nat
             /\ Cardinality(Upto(i)) <= Cardinality(places) /\ Cardinality(Upto(i)) # 0
  <2>1. Upto(i) \in SUBSET places
    OBVIOUS
  <2>2. i \in Upto(i)
    OBVIOUS
  <2> HIDE DEF Upto
  <2>3. IsFiniteSet(Upto(i)) /\ Cardinality(Upto(i)) <= Cardinality(places)
    BY <1>1, <2>1, FS_Subset
  <2> QED  BY <2>2, <2>3, FS_CardinalityType, FS_EmptySet
<1>3. ASSUME NEW i \in places, NEW j \in places, i < j
      PROVE  Cardinality(Upto(i)) # Cardinality(Upto(j))
  <2>1. i \in Int /\ j \in Int /\ \A k \in places : k \in Int
    OBVIOUS
  <2>2. Upto(i) \in SUBSET Upto(j)
    <3>1. \A k \in places : k <= i => k <= j
      BY <1>3, <2>1
    <3> QED  BY <3>1
  <2>a. j \in Upto(j) /\ j \notin Upto(i)
    <3>1. j <= j /\ ~(j <= i)
      BY <1>3, <2>1
    <3> QED  BY <3>1
  <2>3. IsFiniteSet(Upto(j))
    BY <1>2
  <2> HIDE DEF Upto
  <2> QED  BY <2>2, <2>a, <2>3, FS_Subset
<1> HIDE DEF Upto
<1>4. \A i \in places : Rank(places, i) = Cardinality(Upto(i))
  BY DEF Rank, Upto
<1>5. \A i, j \in places : i = j \/ i < j \/ j < i
  OBVIOUS
<1> QED  BY <1>1, <1>2, <1>3, <1>4, <1>5

\* The places have the ranks from one on, each of them one.
LEMMA RankOnto ==
    ASSUME NEW n \in Nat, NEW places \in SUBSET (1..n), NEW r \in 1..Cardinality(places)
    PROVE  \E i \in places : Rank(places, i) = r
<1> DEFINE ranks == 1..Cardinality(places)
           f == [i \in places |-> Rank(places, i)]
<1>1. /\ Cardinality(places) \in Nat
      /\ \A i \in places : Rank(places, i) \in ranks
      /\ \A i, j \in places : Rank(places, i) = Rank(places, j) => i = j
  BY RankIs
<1>2. f \in Injection(places, ranks)
  BY <1>1 DEF Injection, IsInjective
<1>3. IsFiniteSet(ranks) /\ Cardinality(ranks) = Cardinality(places)
  BY <1>1, FS_Interval
<1>4. f \in Surjection(places, ranks)
  <2> HIDE DEF f, ranks
  <2> QED  BY <1>2, <1>3, FS_Injection
<1> QED  BY <1>4 DEF Surjection

LEMMA NamedIs ==
    ASSUME NEW seq, Distinct(seq), NEW i \in DOMAIN seq
    PROVE  Named(seq, seq[i].name) = seq[i]
<1>1. seq[i] \in ToSet(seq)
  BY DEF ToSet
<1>2. \A p \in ToSet(seq) : p.name = seq[i].name => p = seq[i]
  BY DEF ToSet, Distinct
<1> QED  BY <1>1, <1>2 DEF Named

LEMMA NameAt ==
    ASSUME NEW seq, Distinct(seq), NEW x \in Names(seq)
    PROVE  /\ Named(seq, x) \in ToSet(seq) /\ Named(seq, x).name = x
           /\ \E i \in DOMAIN seq : seq[i].name = x /\ Named(seq, x) = seq[i]
<1>1. PICK p \in ToSet(seq) : p.name = x
  BY DEF Names
<1>2. PICK i \in DOMAIN seq : seq[i] = p
  BY DEF ToSet
<1>3. Named(seq, x) = p
  BY <1>1, <1>2, NamedIs
<1> QED  BY <1>1, <1>2, <1>3

\* A name at one of the places has the rank of that place, another one none.
LEMMA PositionIs ==
    ASSUME NEW seq, Distinct(seq), NEW places \in SUBSET DOMAIN seq
    PROVE  /\ \A i \in places : PositionOf(seq, places, seq[i].name) = Rank(places, i)
           /\ \A x : (\A i \in places : seq[i].name # x) => PositionOf(seq, places, x) = 0
<1>1. ASSUME NEW i \in places  PROVE PositionOf(seq, places, seq[i].name) = Rank(places, i)
  <2>1. {j \in places : seq[j].name = seq[i].name} = {i}
    BY DEF Distinct
  <2>2. {j \in places : \A k \in {i} : j <= k} = {j \in places : j <= i}
    OBVIOUS
  <2> QED  BY <2>1, <2>2 DEF PositionOf, Rank
<1>2. ASSUME NEW x, \A i \in places : seq[i].name # x  PROVE PositionOf(seq, places, x) = 0
  <2>1. {j \in places : seq[j].name = x} = {}
    BY <1>2
  <2> QED  BY <2>1 DEF PositionOf
<1> QED  BY <1>1, <1>2

LEMMA PlacesIn ==
    ASSUME NEW seq, Distinct(seq), NEW places \in SUBSET DOMAIN seq
    PROVE  /\ IsFiniteSet(places) /\ Cardinality(places) \in Nat
           /\ \A i \in places : /\ Rank(places, i) \in 1..Cardinality(places)
                                /\ PositionOf(seq, places, seq[i].name) \in 1..Cardinality(places)
           /\ \A i, j \in places : Rank(places, i) = Rank(places, j) => i = j
           /\ \A r \in 1..Cardinality(places) : \E i \in places : Rank(places, i) = r
           /\ \A x : /\ PositionOf(seq, places, x) \in 0..Cardinality(places)
                     /\ PositionOf(seq, places, x) > 0 <=> \E i \in places : seq[i].name = x
<1>1. Len(seq) \in Nat /\ DOMAIN seq = 1..Len(seq)
  BY DEF Distinct
<1>2. places \in SUBSET (1..Len(seq))
  BY <1>1
<1>3. /\ IsFiniteSet(places) /\ Cardinality(places) \in Nat
      /\ \A i \in places : Rank(places, i) \in 1..Cardinality(places)
      /\ \A i, j \in places : Rank(places, i) = Rank(places, j) => i = j
  BY <1>1, <1>2, RankIs
<1>4. \A r \in 1..Cardinality(places) : \E i \in places : Rank(places, i) = r
  BY <1>1, <1>2, RankOnto
<1>5. \A i \in places : PositionOf(seq, places, seq[i].name) \in 1..Cardinality(places)
  BY <1>3, PositionIs
<1>6. ASSUME NEW x
      PROVE  /\ PositionOf(seq, places, x) \in 0..Cardinality(places)
             /\ PositionOf(seq, places, x) > 0 <=> \E i \in places : seq[i].name = x
  <2>1. CASE \E i \in places : seq[i].name = x
    BY <2>1, <1>3, <1>5
  <2>2. CASE \A i \in places : seq[i].name # x
    BY <2>2, <1>3, PositionIs
  <2> QED  BY <2>1, <2>2
<1> QED  BY <1>3, <1>4, <1>5, <1>6

\* Names that keep their positions in a sequence keep others out of them.
LEMMA SamePlaces ==
    ASSUME NEW s, Distinct(s), NEW S \in SUBSET DOMAIN s,
           NEW t, Distinct(t), NEW T \in SUBSET DOMAIN t,
           \A i \in S : PositionOf(t, T, s[i].name) = PositionOf(s, S, s[i].name)
    PROVE  /\ Cardinality(S) <= Cardinality(T)
           /\ \A x : PositionOf(t, T, x) \in 1..Cardinality(S) =>
                        PositionOf(s, S, x) = PositionOf(t, T, x)
<1>1. /\ Cardinality(S) \in Nat /\ Cardinality(T) \in Nat
      /\ \A r \in 1..Cardinality(S) : \E i \in S : Rank(S, i) = r
      /\ \A i, j \in T : Rank(T, i) = Rank(T, j) => i = j
      /\ \A x : /\ PositionOf(t, T, x) \in 0..Cardinality(T)
                /\ PositionOf(t, T, x) > 0 <=> \E j \in T : t[j].name = x
  BY PlacesIn
<1>2. /\ \A i \in S : PositionOf(s, S, s[i].name) = Rank(S, i)
      /\ \A j \in T : PositionOf(t, T, t[j].name) = Rank(T, j)
  BY PositionIs
<1>3. Cardinality(S) <= Cardinality(T)
  <2>1. CASE Cardinality(S) = 0
    BY <2>1, <1>1
  <2>2. CASE Cardinality(S) # 0
    <3>1. PICK i \in S : Rank(S, i) = Cardinality(S)
      BY <2>2, <1>1
    <3>2. PositionOf(t, T, s[i].name) = Cardinality(S)
      BY <3>1, <1>2
    <3> QED  BY <3>2, <1>1
  <2> QED  BY <2>1, <2>2
<1>4. ASSUME NEW x, PositionOf(t, T, x) \in 1..Cardinality(S)
      PROVE  PositionOf(s, S, x) = PositionOf(t, T, x)
  <2> DEFINE r == PositionOf(t, T, x)
  <2>1. PICK i \in S : Rank(S, i) = r
    BY <1>1, <1>4
  <2>2. PositionOf(s, S, s[i].name) = r /\ PositionOf(t, T, s[i].name) = r
    BY <2>1, <1>2
  <2>3. PICK j \in T : t[j].name = x
    BY <1>1, <1>4
  <2>4. PICK k \in T : t[k].name = s[i].name
    <3>1. PositionOf(t, T, s[i].name) > 0
      BY <2>2, <1>1, <1>4
    <3> QED  BY <3>1, <1>1
  <2>5. Rank(T, j) = r /\ Rank(T, k) = r
    BY <2>2, <2>3, <2>4, <1>2
  <2>6. x = s[i].name
    BY <2>3, <2>4, <2>5, <1>1
  <2> QED  BY <2>2, <2>6
<1> QED  BY <1>3, <1>4

----------------------------------------------------------------------------
\* Calls. A signature takes every call of an old one, and takes it the same way,
\* when it has the old names, at their positions, with the defaults there were, and
\* asks for nothing new; a name that had to be given by name may get a position.
Takes(old, new) ==
    /\ Names(old.params) \subseteq Names(new.params)
    /\ \A x \in Names(old.params) :
          LET o == Named(old.params, x)
              n == Named(new.params, x)
              i == PositionOf(old.params, Positional(old.params), x)
          IN /\ o.kind = n.kind \/ (o.kind = "keyword-only" /\ n.kind = "positional")
             /\ o.default \in {n.default, NoDefault}
             /\ i > 0 => i = PositionOf(new.params, Positional(new.params), x)
    /\ \A x \in Names(new.params) \ Names(old.params) :
          Variadic(Named(new.params, x)) \/ Named(new.params, x).default # NoDefault

LEMMA CallsGoOn ==
    ASSUME NEW old, NEW new, IsSignature(old.params), IsSignature(new.params), Takes(old, new)
    PROVE  ~CallsBreak(old, new)
<1> DEFINE P == Positional(old.params)
           Q == Positional(new.params)
           Was(x) == PositionOf(old.params, P, x)
           Is(x) == PositionOf(new.params, Q, x)
           O(x) == Named(old.params, x)
           N(x) == Named(new.params, x)
<1>1. /\ Distinct(old.params) /\ Distinct(new.params)
      /\ P \in SUBSET DOMAIN old.params /\ Q \in SUBSET DOMAIN new.params
  BY DEF IsSignature, Positional
<1>2. ASSUME NEW i \in P  PROVE Is(old.params[i].name) = Was(old.params[i].name)
  <2>1. old.params[i].name \in Names(old.params)
    BY DEF Names, ToSet, Positional
  <2> HIDE DEF P, Q
  <2>2. Cardinality(P) \in Nat /\ Was(old.params[i].name) \in 1..Cardinality(P)
    BY <1>1, PlacesIn
  <2>3. Was(old.params[i].name) > 0
    BY <2>2
  <2> QED  BY <2>1, <2>3 DEF Takes, P, Q
<1>3. Cardinality(P) \in Nat /\ Cardinality(Q) \in Nat
  BY <1>1, PlacesIn
<1>4. /\ Cardinality(P) <= Cardinality(Q)
      /\ \A x : Is(x) \in 1..Cardinality(P) => Was(x) = Is(x)
  <2> HIDE DEF P, Q
  <2> QED  BY <1>1, <1>2, SamePlaces
<1>5. ASSUME NEW x \in Names(old.params)
      PROVE  /\ Was(x) \in 0..Cardinality(P) /\ Is(x) \in 0..Cardinality(Q)
             /\ O(x).kind = N(x).kind \/ (O(x).kind = "keyword-only" /\ N(x).kind = "positional")
             /\ O(x).default \in {N(x).default, NoDefault}
             /\ O(x) \in ToSet(old.params) /\ N(x) \in ToSet(new.params)
             /\ O(x).name = x /\ N(x).name = x
             /\ Was(x) > 0 => Is(x) = Was(x)
             /\ Variadic(N(x)) => N(x).default = NoDefault
  <2>1. x \in Names(new.params)
    BY DEF Takes
  <2>2. /\ O(x) \in ToSet(old.params) /\ N(x) \in ToSet(new.params)
        /\ O(x).name = x /\ N(x).name = x
    BY <1>1, <2>1, NameAt
  <2>3. Was(x) \in 0..Cardinality(P) /\ Is(x) \in 0..Cardinality(Q)
    BY <1>1, PlacesIn
  <2>4. Variadic(N(x)) => N(x).default = NoDefault
    BY <2>2 DEF IsSignature
  <2> QED  BY <2>2, <2>3, <2>4 DEF Takes
<1>6. ASSUME NEW p \in ToSet(new.params)
      PROVE  p.name \in Names(new.params) /\ p = N(p.name)
  BY <1>1, NamedIs DEF Names, ToSet
<1>7. ASSUME NEW n \in 0..Cardinality(P), NEW K \in SUBSET Names(old.params), Legal(old, n, K)
      PROVE  /\ Legal(new, n, K)
             /\ \A x \in Names(old.params) \cap Names(new.params) :
                   Place(old, n, K, x) = Place(new, n, K, x)
  <2> DEFINE byName(sig) == {p.name : p \in {q \in ToSet(sig.params) :
                                                q.kind \in {"positional", "keyword-only"}}}
             Has(sig, kind) == \E p \in ToSet(sig.params) : p.kind = kind
             first(sig) == {x \in Names(sig.params) :
                              PositionOf(sig.params, Positional(sig.params), x) \in 1..n}
  <2>1. /\ K \subseteq byName(old) \/ Has(old, "var-keyword")
        /\ K \cap first(old) = {}
        /\ \A p \in ToSet(old.params) : Variadic(p) \/ p.default # NoDefault
                                        \/ p.name \in first(old) \cup K
    BY <1>7 DEF Legal, Variadic
  <2>2. \A x \in Names(old.params) : x \in first(old) <=> x \in first(new)
    BY <1>3, <1>4, <1>5 DEF Takes
  <2>3. n <= Cardinality(Q)
    BY <1>3, <1>4
  <2>4. K \subseteq byName(new) \/ Has(new, "var-keyword")
    <3>1. CASE K \subseteq byName(old)
      <4>1. ASSUME NEW x \in K  PROVE x \in byName(new)
        <5>1. PICK p \in ToSet(old.params) : p.name = x /\ p.kind \in {"positional", "keyword-only"}
          BY <3>1
        <5>2. p = O(x) /\ x \in Names(old.params)
          BY <5>1, <1>1, NamedIs DEF Names, ToSet
        <5>3. N(x).kind \in {"positional", "keyword-only"} /\ N(x) \in ToSet(new.params) /\ N(x).name = x
          BY <5>1, <5>2, <1>5
        <5> QED  BY <5>3
      <4> QED  BY <4>1
    <3>2. CASE Has(old, "var-keyword")
      <4>1. PICK p \in ToSet(old.params) : p.kind = "var-keyword"
        BY <3>2
      <4>2. p = O(p.name) /\ p.name \in Names(old.params)
        BY <1>1, NamedIs DEF Names, ToSet
      <4>3. N(p.name).kind = "var-keyword" /\ N(p.name) \in ToSet(new.params)
        BY <4>1, <4>2, <1>5
      <4> QED  BY <4>3
    <3> QED  BY <2>1, <3>1, <3>2
  <2>5. K \cap first(new) = {}
    BY <2>1, <2>2
  <2>6. ASSUME NEW p \in ToSet(new.params), ~Variadic(p), p.default = NoDefault
        PROVE  p.name \in first(new) \cup K
    <3>1. p.name \in Names(new.params) /\ p = N(p.name)
      BY <1>6
    <3>2. p.name \in Names(old.params)
      BY <2>6, <3>1 DEF Takes
    <3>3. ~Variadic(O(p.name)) /\ O(p.name).default = NoDefault /\ O(p.name) \in ToSet(old.params)
          /\ O(p.name).name = p.name
      BY <2>6, <3>1, <3>2, <1>5 DEF Variadic
    <3>4. p.name \in first(old) \cup K
      BY <3>3, <2>1
    <3> QED  BY <3>2, <3>4, <2>2
  <2>7. Legal(new, n, K)
    BY <2>3, <2>4, <2>5, <2>6 DEF Legal, Variadic
  <2>8. ASSUME NEW x \in Names(old.params)
        PROVE  Place(old, n, K, x) = Place(new, n, K, x)
    <3>1. CASE x \in first(old)
      BY <3>1, <2>2, <1>3, <1>5 DEF Place
    <3>2. CASE x \notin first(old) /\ x \in K
      BY <3>2, <2>2, <1>3, <1>5 DEF Place, Takes
    <3>3. CASE x \notin first(old) /\ x \notin K
      <4>1. O(x).default = N(x).default
        BY <3>3, <2>1, <1>5 DEF Variadic
      <4>2. Was(x) \notin 1..n /\ Is(x) \notin 1..n
        BY <3>3, <2>2, <1>5 DEF Takes
      <4> QED  BY <3>3, <4>1, <4>2 DEF Place
    <3> QED  BY <3>1, <3>2, <3>3
  <2> QED  BY <2>7, <2>8
<1> QED  BY <1>7 DEF CallsBreak

----------------------------------------------------------------------------
\* What the classes of a change need.

\* A difference that needs one of some subsections.
Asks(change) == change.needs # {} /\ change.needs \subseteq UNKNOWN

Strong == {ANY_BREAK, UNKNOWN, ANNOUNCED, {BREAKING}}

LEMMA NeedsAre ==
    /\ \A o, d, x : Needs("param-kind-changed", o, d, x) \in Strong
    /\ \A cls \in {"removed-member", "renamed?", "param-removed", "field-removed",
                   "field-reordered", "enum-member-removed", "enum-value-changed",
                   "param-added-required"} : \A o, d, x : Needs(cls, o, d, x) \in Strong
    /\ \A cls \in {"added-member", "param-added-keyword-only", "param-added-defaulted"} : \A d, x :
          Needs(cls, "protocol", d, x) \in Strong
    /\ \A o, d, x : x # "default added" \/ o = "protocol" =>
          Needs("default-changed", o, d, x) \in Strong
    /\ \A o, d, x : d \in {"narrowed", "unknown"} =>
          Needs("param-annotation-changed", o, d, x) \in Strong
    /\ \A o, d, x : o = "protocol" /\ d \in {"narrowed", "unknown"} =>
          Needs("return-annotation-changed", o, d, x) \in Strong
    /\ \A o, d, x : d \in {"widened", "unknown"} =>
          Needs("return-annotation-changed", o, d, x) \in Strong
    /\ \A o, d, x : x = "required" => Needs("field-added", o, d, x) \in Strong
    /\ \A o, d, x : x = "frozen" => Needs("model-frozen-changed", o, d, x) \in Strong
<1>1. ASSUME NEW o, NEW d, NEW x
      PROVE  Needs("param-kind-changed", o, d, x) \in Strong
  BY DEF Needs, Strong
<1>2. ASSUME NEW o, NEW d, NEW x,
             NEW cls \in {"removed-member", "renamed?", "param-removed", "field-removed",
                          "field-reordered", "enum-member-removed", "enum-value-changed",
                          "param-added-required"}
      PROVE  Needs(cls, o, d, x) \in Strong
  BY DEF Needs, Strong
<1>3. ASSUME NEW d, NEW x,
             NEW cls \in {"added-member", "param-added-keyword-only", "param-added-defaulted"}
      PROVE  Needs(cls, "protocol", d, x) \in Strong
  BY DEF Needs, Strong
<1>4. ASSUME NEW o, NEW d, NEW x, x # "default added" \/ o = "protocol"
      PROVE  Needs("default-changed", o, d, x) \in Strong
  BY <1>4 DEF Needs, Strong
<1>5. ASSUME NEW o, NEW d, NEW x, d \in {"narrowed", "unknown"}
      PROVE  Needs("param-annotation-changed", o, d, x) \in Strong
  BY <1>5 DEF Needs, Strong
<1>6. ASSUME NEW o, NEW d, NEW x, o = "protocol", d \in {"narrowed", "unknown"}
      PROVE  Needs("return-annotation-changed", o, d, x) \in Strong
  BY <1>6 DEF Needs, Strong
<1>7. ASSUME NEW o, NEW d, NEW x, d \in {"widened", "unknown"}
      PROVE  Needs("return-annotation-changed", o, d, x) \in Strong
  BY <1>7 DEF Needs, Strong
<1>8. ASSUME NEW o, NEW d, NEW x
      PROVE  /\ x = "required" => Needs("field-added", o, d, x) \in Strong
             /\ x = "frozen" => Needs("model-frozen-changed", o, d, x) \in Strong
  BY DEF Needs, Strong
<1> QED  BY <1>1, <1>2, <1>3, <1>4, <1>5, <1>6, <1>7, <1>8

LEMMA NeedsOfResult ==
    ASSUME NEW o, NEW d \in {"widened", "unknown"}
    PROVE  Needs("return-annotation-changed", o, d, "") \in Strong
BY DEF Needs, Strong

LEMMA KindsOfNeeds ==
    ASSUME NEW change, change.needs \in Strong
    PROVE  Asks(change)
BY DEF Asks, ANY_BREAK, UNKNOWN, ANNOUNCED, Strong

\* An annotation that no longer takes what the other one gives has changed that way.
LEMMA DirectionTells ==
    ASSUME NEW old, NEW new
    PROVE  /\ ~Accepts(new, old) => Direction(old, new) \in {"narrowed", "unknown"}
           /\ ~Accepts(old, new) => Direction(old, new) \in {"widened", "unknown"}
<1> DEFINE a == UnionOf(old)
           b == UnionOf(new)
           aTop == a \cap TOP_TYPES # {}
           bTop == b \cap TOP_TYPES # {}
<1>1. ASSUME ~Accepts(new, old)  PROVE Direction(old, new) \in {"narrowed", "unknown"}
  <2>1. ~bTop /\ (aTop \/ ~(a \subseteq b))
    BY <1>1 DEF Accepts
  <2>2. a # b
    BY <2>1
  <2> QED  BY <2>1, <2>2 DEF Direction
<1>2. ASSUME ~Accepts(old, new)  PROVE Direction(old, new) \in {"widened", "unknown"}
  <2>1. ~aTop /\ (bTop \/ ~(b \subseteq a))
    BY <1>2 DEF Accepts
  <2>2. a # b
    BY <2>1
  <2> QED  BY <2>1, <2>2 DEF Direction
<1> QED  BY <1>1, <1>2

LEMMA ChangeIs ==
    ASSUME NEW cls, NEW sym, NEW member, NEW param, NEW owner, NEW direction, NEW extra
    PROVE  LET c == Change(cls, sym, member, param, owner, direction, extra)
           IN /\ c.name = sym.name /\ c.package = sym.package /\ c.path = DisplayPath(sym)
              /\ c.member = member /\ c.param = param
              /\ c.needs = Needs(cls, owner, direction, extra)
BY DEF Change

\* Among some changes of a symbol, one that asks for an entry is about a part of it.
Shows(changes, sym, member, params) ==
    \E c \in changes :
       /\ Asks(c)
       /\ c.name = sym.name /\ c.package = sym.package /\ c.path = DisplayPath(sym)
       /\ c.member = member /\ (c.param = NoMember \/ c.param \in params)

LEMMA Shown ==
    ASSUME NEW changes, NEW cls, NEW sym, NEW member, NEW param, NEW owner, NEW direction,
           NEW extra, NEW params,
           Change(cls, sym, member, param, owner, direction, extra) \in changes,
           Needs(cls, owner, direction, extra) \in Strong,
           param = NoMember \/ param \in params
    PROVE  Shows(changes, sym, member, params)
<1> DEFINE c == Change(cls, sym, member, param, owner, direction, extra)
<1>1. /\ c.name = sym.name /\ c.package = sym.package /\ c.path = DisplayPath(sym)
      /\ c.member = member /\ c.param = param
      /\ c.needs = Needs(cls, owner, direction, extra)
  BY ChangeIs
<1> HIDE DEF c
<1>2. Asks(c)
  BY <1>1, KindsOfNeeds
<1>3. c \in changes
  BY DEF c
<1> QED  BY <1>1, <1>2, <1>3 DEF Shows

----------------------------------------------------------------------------
\* Two signatures.

LEMMA ParamChanges ==
    ASSUME NEW sym, NEW old, NEW new, NEW owner, NEW member
    PROVE  LET D == DiffParams(sym, old, new, owner, member)
               C(cls, param, direction, extra) ==
                   Change(cls, sym, member, param, owner, direction, extra)
               Was(n) == PositionOf(old.params, Positional(old.params), n)
               Is(n) == PositionOf(new.params, Positional(new.params), n)
           IN /\ \A n \in Names(old.params) \ Names(new.params) : C("param-removed", n, "", "") \in D
              /\ \A p \in ToSet(new.params) : p.name \notin Names(old.params) =>
                    C(AddedParam(p), p.name, "", "") \in D
              /\ \A p \in ToSet(new.params) : p.name \in Names(old.params) =>
                    LET q == Named(old.params, p.name)
                        d == Direction(q.annotation, p.annotation)
                    IN /\ q.kind # p.kind
                            \/ (Was(p.name) > 0 /\ Is(p.name) > 0 /\ Was(p.name) # Is(p.name)) =>
                             C("param-kind-changed", p.name, "", "") \in D
                       /\ d # "equal" =>
                             \E extra : C("param-annotation-changed", p.name, d, extra) \in D
                       /\ q.default # p.default =>
                             C("default-changed", p.name, "", DefaultExtra(q.default, p.default)) \in D
              /\ Direction(old.returns, new.returns) # "equal" =>
                    C("return-annotation-changed", NoMember,
                      Direction(old.returns, new.returns), "") \in D
<1> DEFINE D == DiffParams(sym, old, new, owner, member)
           C(cls, param, direction, extra) ==
               Change(cls, sym, member, param, owner, direction, extra)
           Was(n) == PositionOf(old.params, Positional(old.params), n)
           Is(n) == PositionOf(new.params, Positional(new.params), n)
           Moved(n) == Was(n) > 0 /\ Is(n) > 0 /\ Was(n) # Is(n)
           Kept(p, q) ==
            (IF q.kind # p.kind \/ Moved(p.name) THEN {C("param-kind-changed", p.name, "", "")}
             ELSE {})
            \cup (LET d == Direction(q.annotation, p.annotation)
                      fromAny == UnionOf(q.annotation) \cap TOP_TYPES # {}
                  IN IF d = "equal" THEN {}
                     ELSE {C("param-annotation-changed", p.name, d,
                             IF fromAny THEN "from Any" ELSE "")})
            \cup (IF q.default = p.default THEN {}
                  ELSE {C("default-changed", p.name, "", DefaultExtra(q.default, p.default))})
           Removed == {C("param-removed", n, "", "") : n \in Names(old.params) \ Names(new.params)}
           Of(p) == IF p.name \in Names(old.params) THEN Kept(p, Named(old.params, p.name))
                    ELSE {C(AddedParam(p), p.name, "", "")}
           Returned == LET d == Direction(old.returns, new.returns)
                       IN IF d = "equal" THEN {}
                          ELSE {C("return-annotation-changed", NoMember, d, "")}
           Marked == IF new.deprecated /\ ~old.deprecated
                     THEN {C("deprecated-marker-added", NoMember, "", "")} ELSE {}
<1>1. D = UNION {Removed, UNION {Of(p) : p \in ToSet(new.params)}, Returned, Marked}
  BY DEF DiffParams
<1>2. Removed \subseteq D /\ Returned \subseteq D /\ \A p \in ToSet(new.params) : Of(p) \subseteq D
  <2> HIDE DEF Removed, Returned, Marked, Of, D
  <2> QED  BY <1>1
<1>3. \A n \in Names(old.params) \ Names(new.params) : C("param-removed", n, "", "") \in D
  <2> HIDE DEF C, D
  <2> QED  BY <1>2
<1>4. \A p \in ToSet(new.params) : p.name \notin Names(old.params) =>
          C(AddedParam(p), p.name, "", "") \in D
  <2> HIDE DEF C, D, Kept
  <2> QED  BY <1>2
<1>5. ASSUME NEW p \in ToSet(new.params), p.name \in Names(old.params)
      PROVE  LET q == Named(old.params, p.name)
                 d == Direction(q.annotation, p.annotation)
             IN /\ q.kind # p.kind \/ Moved(p.name) => C("param-kind-changed", p.name, "", "") \in D
                /\ d # "equal" => \E extra : C("param-annotation-changed", p.name, d, extra) \in D
                /\ q.default # p.default =>
                      C("default-changed", p.name, "", DefaultExtra(q.default, p.default)) \in D
  <2>1. Kept(p, Named(old.params, p.name)) \subseteq D
    <3> HIDE DEF Kept, D
    <3> QED  BY <1>2, <1>5
  <2> HIDE DEF C, D, Moved
  <2> QED  BY <2>1
<1>6. Direction(old.returns, new.returns) # "equal" =>
         C("return-annotation-changed", NoMember, Direction(old.returns, new.returns), "") \in D
  <2> HIDE DEF C, D
  <2> QED  BY <1>2
<1> QED  BY <1>3, <1>4, <1>5, <1>6

LEMMA PositionFound ==
    ASSUME NEW seq, Distinct(seq), NEW places \in SUBSET DOMAIN seq, NEW x
    PROVE  PositionOf(seq, places, x) > 0 <=> \E i \in places : seq[i].name = x
BY PlacesIn

LEMMA ParamsShow ==
    ASSUME NEW sym, NEW old, NEW new, NEW owner, NEW member,
           IsSignature(old.params), IsSignature(new.params),
           ~Shows(DiffParams(sym, old, new, owner, member), sym, member,
                  Names(old.params) \cup Names(new.params))
    PROVE  /\ Takes(old, new)
           /\ \A x \in Names(old.params) \cap Names(new.params) :
                 Accepts(Named(new.params, x).annotation, Named(old.params, x).annotation)
           /\ Accepts(old.returns, new.returns)
           /\ owner = "protocol" => Takes(new, old) /\ Accepts(new.returns, old.returns)
<1> DEFINE D == DiffParams(sym, old, new, owner, member)
           P == Names(old.params) \cup Names(new.params)
           C(cls, param, direction, extra) ==
               Change(cls, sym, member, param, owner, direction, extra)
           O(n) == Named(old.params, n)
           N(n) == Named(new.params, n)
           Was(n) == PositionOf(old.params, Positional(old.params), n)
           Is(n) == PositionOf(new.params, Positional(new.params), n)
<1>1. ASSUME NEW cls, NEW param, NEW direction, NEW extra,
             param = NoMember \/ param \in P,
             Needs(cls, owner, direction, extra) \in Strong
      PROVE  C(cls, param, direction, extra) \notin D
  BY <1>1, Shown
<1>p. Distinct(old.params) /\ Distinct(new.params)
  BY DEF IsSignature
<1>2. /\ \A n \in Names(old.params) \ Names(new.params) : C("param-removed", n, "", "") \in D
      /\ \A p \in ToSet(new.params) : p.name \notin Names(old.params) =>
            C(AddedParam(p), p.name, "", "") \in D
      /\ \A p \in ToSet(new.params) : p.name \in Names(old.params) =>
            LET q == Named(old.params, p.name)
                d == Direction(q.annotation, p.annotation)
            IN /\ q.kind # p.kind
                    \/ (Was(p.name) > 0 /\ Is(p.name) > 0 /\ Was(p.name) # Is(p.name)) =>
                     C("param-kind-changed", p.name, "", "") \in D
               /\ d # "equal" =>
                     \E extra : C("param-annotation-changed", p.name, d, extra) \in D
               /\ q.default # p.default =>
                     C("default-changed", p.name, "", DefaultExtra(q.default, p.default)) \in D
      /\ Direction(old.returns, new.returns) # "equal" =>
            C("return-annotation-changed", NoMember,
              Direction(old.returns, new.returns), "") \in D
  BY ParamChanges
<1>n. \A x \in Names(new.params) : N(x) \in ToSet(new.params) /\ N(x).name = x
  BY <1>p, NameAt
<1>o. \A x \in Names(old.params) : O(x) \in ToSet(old.params) /\ O(x).name = x
  BY <1>p, NameAt
<1>s. Needs("param-removed", owner, "", "") \in Strong
      /\ Needs("param-added-required", owner, "", "") \in Strong
      /\ Needs("param-kind-changed", owner, "", "") \in Strong
  BY NeedsAre
<1>a. ASSUME owner = "protocol"
      PROVE  /\ Needs("param-added-keyword-only", owner, "", "") \in Strong
             /\ Needs("param-added-defaulted", owner, "", "") \in Strong
  BY <1>a, NeedsAre
<1>b. \A extra : extra # "default added" \/ owner = "protocol" =>
          Needs("default-changed", owner, "", extra) \in Strong
  BY NeedsAre
<1>c. \A d, extra : d \in {"narrowed", "unknown"} =>
          Needs("param-annotation-changed", owner, d, extra) \in Strong
  BY NeedsAre
<1>e. \A d, extra : owner = "protocol" /\ d \in {"narrowed", "unknown"} =>
          Needs("return-annotation-changed", owner, d, extra) \in Strong
  BY NeedsAre
<1>r. \A d : d \in {"widened", "unknown"} =>
          Needs("return-annotation-changed", owner, d, "") \in Strong
  BY NeedsOfResult
<1> HIDE DEF D, C, O, N, Was, Is
<1>3. Names(old.params) \subseteq Names(new.params)
  BY <1>1, <1>2, <1>s
<1>4. ASSUME NEW x \in Names(old.params)
      PROVE  /\ O(x).kind = N(x).kind
             /\ O(x).default \in {N(x).default, NoDefault}
             /\ owner = "protocol" => O(x).default = N(x).default
             /\ Was(x) > 0 /\ Is(x) > 0 => Was(x) = Is(x)
             /\ Accepts(N(x).annotation, O(x).annotation)
  <2>1. N(x) \in ToSet(new.params) /\ N(x).name = x /\ x \in P /\ Named(old.params, N(x).name) = O(x)
    BY <1>n, <1>3 DEF O
  <2>2. /\ O(x).kind = N(x).kind
        /\ Was(x) > 0 /\ Is(x) > 0 => Was(x) = Is(x)
    BY <1>1, <1>2, <1>s, <2>1
  <2>3. /\ O(x).default \in {N(x).default, NoDefault}
        /\ owner = "protocol" => O(x).default = N(x).default
    <3>1. ASSUME O(x).default # N(x).default
          PROVE  ~(DefaultExtra(O(x).default, N(x).default) # "default added" \/ owner = "protocol")
      BY <3>1, <1>1, <1>2, <1>b, <2>1
    <3>2. ASSUME DefaultExtra(O(x).default, N(x).default) = "default added"
          PROVE  O(x).default = NoDefault
      BY <3>2 DEF DefaultExtra, FieldExtra
    <3> QED  BY <3>1, <3>2
  <2>4. Accepts(N(x).annotation, O(x).annotation)
    <3> DEFINE d == Direction(O(x).annotation, N(x).annotation)
    <3>1. ASSUME d \in {"narrowed", "unknown"}  PROVE FALSE
      <4>1. PICK extra : C("param-annotation-changed", x, d, extra) \in D
        BY <3>1, <1>2, <2>1
      <4> QED  BY <4>1, <3>1, <1>1, <1>c, <2>1
    <3> QED  BY <3>1, DirectionTells
  <2> QED  BY <2>2, <2>3, <2>4
<1>5. ASSUME NEW x \in Names(old.params)
      PROVE  /\ Was(x) > 0 => Is(x) = Was(x)
             /\ Is(x) > 0 => Is(x) = Was(x)
  <2> DEFINE S == Positional(old.params)
             T == Positional(new.params)
  <2>p. S \in SUBSET DOMAIN old.params /\ T \in SUBSET DOMAIN new.params
    BY DEF Positional
  <2>1. \A y : /\ Was(y) > 0 <=> \E i \in S : old.params[i].name = y
               /\ Is(y) > 0 <=> \E i \in T : new.params[i].name = y
    <3> HIDE DEF S, T
    <3>1. \A y : PositionOf(old.params, S, y) > 0 <=> \E i \in S : old.params[i].name = y
      BY <1>p, <2>p, PositionFound
    <3>2. \A y : PositionOf(new.params, T, y) > 0 <=> \E i \in T : new.params[i].name = y
      BY <1>p, <2>p, PositionFound
    <3> QED  BY <3>1, <3>2 DEF Was, Is, S, T
  <2>2. PICK i \in DOMAIN old.params : old.params[i].name = x /\ O(x) = old.params[i]
    BY <1>p, NameAt DEF O
  <2>3. PICK j \in DOMAIN new.params : new.params[j].name = x /\ N(x) = new.params[j]
    BY <1>p, <1>3, NameAt DEF N
  <2>4. i \in Positional(old.params) <=> j \in Positional(new.params)
    BY <1>4, <2>2, <2>3 DEF Positional
  <2>5. Was(x) > 0 <=> i \in Positional(old.params)
    <3>1. \A k \in DOMAIN old.params : old.params[k].name = x => k = i
      BY <2>2, <1>p DEF Distinct
    <3> HIDE DEF S
    <3> QED  BY <3>1, <2>1, <2>2, <2>p DEF S
  <2>6. Is(x) > 0 <=> j \in Positional(new.params)
    <3>1. \A k \in DOMAIN new.params : new.params[k].name = x => k = j
      BY <2>3, <1>p DEF Distinct
    <3> HIDE DEF T
    <3> QED  BY <3>1, <2>1, <2>3, <2>p DEF T
  <2> QED  BY <1>4, <2>4, <2>5, <2>6
<1>6. ASSUME NEW x \in Names(new.params) \ Names(old.params)
      PROVE  /\ Variadic(N(x)) \/ N(x).default # NoDefault
             /\ owner # "protocol"
  <2>1. N(x) \in ToSet(new.params) /\ N(x).name = x /\ x \in P
    BY <1>n
  <2>2. C(AddedParam(N(x)), x, "", "") \in D
    BY <1>2, <2>1
  <2>3. AddedParam(N(x)) \in {"param-added-defaulted", "param-added-keyword-only"}
    BY <2>1, <2>2, <1>1, <1>s DEF AddedParam
  <2>4. Variadic(N(x)) \/ N(x).default # NoDefault
    BY <2>3 DEF AddedParam, Variadic
  <2>5. owner # "protocol"
    BY <2>1, <2>2, <2>3, <1>1, <1>a
  <2> QED  BY <2>4, <2>5
<1>7. Accepts(old.returns, new.returns) /\ (owner = "protocol" => Accepts(new.returns, old.returns))
  <2> DEFINE way == Direction(old.returns, new.returns)
  <2>r. way # "equal" => C("return-annotation-changed", NoMember, way, "") \in D
    BY <1>2
  <2> HIDE DEF way
  <2>1. ASSUME way \in {"widened", "unknown"}  PROVE FALSE
    <3>1. Needs("return-annotation-changed", owner, way, "") \in Strong
      BY <2>1, <1>r
    <3>2. C("return-annotation-changed", NoMember, way, "") \in D
      BY <2>1, <2>r
    <3> QED  BY <3>1, <3>2, <1>1
  <2>2. ASSUME owner = "protocol", way \in {"narrowed", "unknown"}  PROVE FALSE
    <3>1. Needs("return-annotation-changed", owner, way, "") \in Strong
      BY <2>2, <1>e
    <3>2. C("return-annotation-changed", NoMember, way, "") \in D
      BY <2>2, <2>r
    <3> QED  BY <3>1, <3>2, <1>1
  <2> QED  BY <2>1, <2>2, DirectionTells DEF way
<1>8. Takes(old, new)
  BY <1>3, <1>4, <1>5, <1>6 DEF Takes, O, N, Was, Is
<1>9. owner = "protocol" => Takes(new, old)
  <2>1. owner = "protocol" => Names(new.params) = Names(old.params)
    BY <1>3, <1>6
  <2> QED  BY <2>1, <1>4, <1>5 DEF Takes, O, N, Was, Is
<1> QED  BY <1>4, <1>7, <1>8, <1>9 DEF O, N

----------------------------------------------------------------------------
\* Two records, by their constructors.

LEMMA ConstructorIs ==
    ASSUME NEW sym, Distinct(sym.fields)
    PROVE  LET s == Constructor(sym)
           IN /\ IsSignature(s.params) /\ Names(s.params) = Names(sym.fields)
              /\ Positional(s.params) = ByPosition(sym.fields)
              /\ \A x : PositionOf(s.params, Positional(s.params), x)
                           = PositionOf(sym.fields, ByPosition(sym.fields), x)
              /\ \A x \in Names(sym.fields) :
                    /\ Named(s.params, x).default = Named(sym.fields, x).default
                    /\ Named(s.params, x).kind = IF Named(sym.fields, x).kwOnly
                                                 THEN "keyword-only" ELSE "positional"
              /\ \A p \in ToSet(s.params) : ~Variadic(p)
<1> DEFINE f == sym.fields
           s == Constructor(sym)
<1>1. /\ DOMAIN s.params = DOMAIN f
      /\ \A i \in DOMAIN f :
            /\ s.params[i].name = f[i].name /\ s.params[i].default = f[i].default
            /\ s.params[i].kind = IF f[i].kwOnly THEN "keyword-only" ELSE "positional"
  BY DEF Constructor
<1>2. f \in Seq(ToSet(f)) /\ \A i, j \in DOMAIN f : f[i].name = f[j].name => i = j
  BY DEF Distinct
<1>3. s.params \in Seq(ToSet(s.params))
  <2>1. Len(f) \in Nat /\ DOMAIN f = 1..Len(f)
    BY <1>2
  <2>2. s.params = [i \in 1..Len(f) |-> s.params[i]]
    BY <2>1 DEF Constructor
  <2>3. \A i \in 1..Len(f) : s.params[i] \in ToSet(s.params)
    BY <1>1, <2>1 DEF ToSet
  <2> HIDE DEF s, f
  <2> QED  BY <2>1, <2>2, <2>3
<1>4. Distinct(s.params)
  BY <1>1, <1>2, <1>3 DEF Distinct
<1>5. \A p \in ToSet(s.params) : ~Variadic(p)
  BY <1>1 DEF ToSet, Variadic
<1>6. Names(s.params) = Names(f)
  <2> HIDE DEF s, f
  <2> QED  BY <1>1 DEF Names, ToSet
<1>7. Positional(s.params) = ByPosition(f)
  <2> HIDE DEF s, f
  <2> QED  BY <1>1 DEF Positional, ByPosition
<1>8. \A x : PositionOf(s.params, Positional(s.params), x) = PositionOf(f, ByPosition(f), x)
  <2> TAKE x
  <2>1. {i \in ByPosition(f) : s.params[i].name = x} = {i \in ByPosition(f) : f[i].name = x}
    <3> HIDE DEF s, f
    <3> QED  BY <1>1 DEF ByPosition
  <2> HIDE DEF s, f
  <2> QED  BY <2>1, <1>7 DEF PositionOf
<1>9. ASSUME NEW x \in Names(f)
      PROVE  /\ Named(s.params, x).default = Named(f, x).default
             /\ Named(s.params, x).kind = IF Named(f, x).kwOnly
                                          THEN "keyword-only" ELSE "positional"
  <2> HIDE DEF s
  <2>1. PICK i \in DOMAIN f : f[i].name = x /\ Named(f, x) = f[i]
    BY <1>9, NameAt
  <2>2. PICK j \in DOMAIN s.params : s.params[j].name = x /\ Named(s.params, x) = s.params[j]
    BY <1>4, <1>6, <1>9, NameAt
  <2>3. i = j
    BY <2>1, <2>2, <1>1, <1>2
  <2> QED  BY <2>1, <2>2, <2>3, <1>1
<1> HIDE DEF s
<1> QED  BY <1>4, <1>5, <1>6, <1>7, <1>8, <1>9 DEF IsSignature, s

LEMMA FieldChanges ==
    ASSUME NEW base, NEW head
    PROVE  LET D == DiffFields(base, head)
               C(cls, f, direction, extra) ==
                   Change(cls, head, f.name, NoMember, "callable", direction, extra)
               Was(n) == PositionOf(base.fields, ByPosition(base.fields), n)
               Is(n) == PositionOf(head.fields, ByPosition(head.fields), n)
           IN /\ \A f \in ToSet(base.fields) : f.name \notin Names(head.fields) =>
                    C("field-removed", f, "", "") \in D
              /\ \A f \in ToSet(head.fields) : f.name \notin Names(base.fields) =>
                    /\ f.default = NoDefault => C("field-added", f, "", "required") \in D
              /\ \A f \in ToSet(head.fields) : f.name \in Names(base.fields) =>
                    LET g == Named(base.fields, f.name)
                    IN /\ Was(f.name) > 0 /\ Was(f.name) # Is(f.name) =>
                             C("field-reordered", f, "", "") \in D
                       /\ g.default # f.default =>
                             C("default-changed", f, "", FieldExtra(g.default, f.default)) \in D
<1> DEFINE D == DiffFields(base, head)
           C(cls, f, direction, extra) ==
               Change(cls, head, f.name, NoMember, "callable", direction, extra)
           Was(n) == PositionOf(base.fields, ByPosition(base.fields), n)
           Is(n) == PositionOf(head.fields, ByPosition(head.fields), n)
           Reordered(n) == Was(n) > 0 /\ Was(n) # Is(n)
           Kept(f, g) ==
            (IF Reordered(f.name) THEN {C("field-reordered", f, "", "")} ELSE {})
            \cup (LET d == Direction(g.annotation, f.annotation)
                  IN IF d = "equal" THEN {} ELSE {C("field-annotation-changed", f, d, "")})
            \cup (IF g.default = f.default THEN {}
                  ELSE {C("default-changed", f, "", FieldExtra(g.default, f.default))})
           Removed == {C("field-removed", f, "", "") :
                          f \in {g \in ToSet(base.fields) : g.name \notin Names(head.fields)}}
           Of(f) == IF f.name \in Names(base.fields) THEN Kept(f, Named(base.fields, f.name))
                    ELSE {C("field-added", f, "", IF f.default = NoDefault THEN "required" ELSE "")}
<1>1. D = Removed \cup UNION {Of(f) : f \in ToSet(head.fields)}
  BY DEF DiffFields
<1>2. Removed \subseteq D /\ \A f \in ToSet(head.fields) : Of(f) \subseteq D
  <2> HIDE DEF Removed, Of, D
  <2> QED  BY <1>1
<1>3. \A f \in ToSet(base.fields) : f.name \notin Names(head.fields) =>
          C("field-removed", f, "", "") \in D
  <2> HIDE DEF C, D
  <2> QED  BY <1>2
<1>4. ASSUME NEW f \in ToSet(head.fields), f.name \notin Names(base.fields), f.default = NoDefault
      PROVE  C("field-added", f, "", "required") \in D
  <2>1. Of(f) = {C("field-added", f, "", "required")}
    <3> HIDE DEF C, Kept
    <3> QED  BY <1>4
  <2> HIDE DEF C, D, Of
  <2> QED  BY <1>2, <2>1
<1>5. ASSUME NEW f \in ToSet(head.fields), f.name \in Names(base.fields)
      PROVE  LET g == Named(base.fields, f.name)
             IN /\ Reordered(f.name) => C("field-reordered", f, "", "") \in D
                /\ g.default # f.default =>
                      C("default-changed", f, "", FieldExtra(g.default, f.default)) \in D
  <2>1. Kept(f, Named(base.fields, f.name)) \subseteq D
    <3> HIDE DEF Kept, D
    <3> QED  BY <1>2, <1>5
  <2> HIDE DEF C, D, Reordered
  <2> QED  BY <2>1
<1> QED  BY <1>3, <1>4, <1>5

LEMMA FieldsShow ==
    ASSUME NEW base, NEW head, Distinct(base.fields), Distinct(head.fields),
           \A m : ~Shows(DiffFields(base, head), head, m, {})
    PROVE  ~CallsBreak(Constructor(base), Constructor(head))
<1> DEFINE D == DiffFields(base, head)
           C(cls, f, direction, extra) ==
               Change(cls, head, f.name, NoMember, "callable", direction, extra)
           O(n) == Named(base.fields, n)
           N(n) == Named(head.fields, n)
           Was(n) == PositionOf(base.fields, ByPosition(base.fields), n)
           Is(n) == PositionOf(head.fields, ByPosition(head.fields), n)
           old == Constructor(base)
           new == Constructor(head)
<1>1. ASSUME NEW cls, NEW f, NEW direction, NEW extra,
             Needs(cls, "callable", direction, extra) \in Strong
      PROVE  C(cls, f, direction, extra) \notin D
  BY <1>1, Shown
<1>2. /\ \A f \in ToSet(base.fields) : f.name \notin Names(head.fields) =>
            C("field-removed", f, "", "") \in D
      /\ \A f \in ToSet(head.fields) : f.name \notin Names(base.fields) =>
            /\ f.default = NoDefault => C("field-added", f, "", "required") \in D
      /\ \A f \in ToSet(head.fields) : f.name \in Names(base.fields) =>
            LET g == Named(base.fields, f.name)
            IN /\ Was(f.name) > 0 /\ Was(f.name) # Is(f.name) =>
                     C("field-reordered", f, "", "") \in D
               /\ g.default # f.default =>
                     C("default-changed", f, "", FieldExtra(g.default, f.default)) \in D
  BY FieldChanges
<1>n. \A x \in Names(head.fields) : N(x) \in ToSet(head.fields) /\ N(x).name = x
  BY NameAt
<1>o. \A x \in Names(base.fields) : O(x) \in ToSet(base.fields) /\ O(x).name = x
  BY NameAt
<1>s. /\ Needs("field-removed", "callable", "", "") \in Strong
      /\ Needs("field-reordered", "callable", "", "") \in Strong
      /\ Needs("field-added", "callable", "", "required") \in Strong
  BY NeedsAre
<1>b. \A extra : extra # "default added" => Needs("default-changed", "callable", "", extra) \in Strong
  BY NeedsAre
<1> HIDE DEF D, C, O, N, Was, Is
<1>3. Names(base.fields) \subseteq Names(head.fields)
  BY <1>1, <1>2, <1>s, <1>o
<1>4. ASSUME NEW x \in Names(base.fields)
      PROVE  /\ Was(x) > 0 => Was(x) = Is(x)
             /\ O(x).default \in {N(x).default, NoDefault}
  <2>1. N(x) \in ToSet(head.fields) /\ N(x).name = x /\ Named(base.fields, N(x).name) = O(x)
    BY <1>n, <1>3 DEF O
  <2>2. Was(x) > 0 => Was(x) = Is(x)
    BY <1>1, <1>2, <1>s, <2>1
  <2>3. ASSUME O(x).default # N(x).default
        PROVE  FieldExtra(O(x).default, N(x).default) = "default added"
    BY <2>3, <1>1, <1>2, <1>b, <2>1
  <2>4. ASSUME FieldExtra(O(x).default, N(x).default) = "default added"
        PROVE  O(x).default = NoDefault
    BY <2>4 DEF FieldExtra
  <2> QED  BY <2>2, <2>3, <2>4
<1>5. ASSUME NEW x \in Names(head.fields) \ Names(base.fields)
      PROVE  N(x).default # NoDefault
  BY <1>1, <1>2, <1>s, <1>n
<1>6. ASSUME NEW x \in Names(base.fields)
      PROVE  O(x).kwOnly \/ ~N(x).kwOnly
  <2> DEFINE S == ByPosition(base.fields)
             T == ByPosition(head.fields)
  <2>p. S \in SUBSET DOMAIN base.fields /\ T \in SUBSET DOMAIN head.fields
    BY DEF ByPosition
  <2>1. PICK i \in DOMAIN base.fields : base.fields[i].name = x /\ O(x) = base.fields[i]
    BY NameAt DEF O
  <2>2. PICK j \in DOMAIN head.fields : head.fields[j].name = x /\ N(x) = head.fields[j]
    BY <1>3, NameAt DEF N
  <2>3. \A k \in DOMAIN head.fields : head.fields[k].name = x => k = j
    BY <2>2 DEF Distinct
  <2>4. Was(x) > 0 <=> \E k \in S : base.fields[k].name = x
    <3> HIDE DEF S
    <3> QED  BY <2>p, PositionFound DEF Was, S
  <2>5. Is(x) > 0 <=> \E k \in T : head.fields[k].name = x
    <3> HIDE DEF T
    <3> QED  BY <2>p, PositionFound DEF Is, T
  <2>6. ~O(x).kwOnly => i \in S
    BY <2>1 DEF ByPosition
  <2>7. j \in T => ~N(x).kwOnly
    BY <2>2 DEF ByPosition
  <2>8. ~O(x).kwOnly => Is(x) > 0
    <3> HIDE DEF S
    <3> QED  BY <2>1, <2>4, <2>6, <1>4
  <2> HIDE DEF T
  <2> QED  BY <2>3, <2>5, <2>7, <2>8, <2>p
<1>7. Takes(old, new)
  <2>1. /\ Names(old.params) = Names(base.fields) /\ Names(new.params) = Names(head.fields)
        /\ \A x : PositionOf(old.params, Positional(old.params), x) = Was(x)
        /\ \A x : PositionOf(new.params, Positional(new.params), x) = Is(x)
        /\ \A x \in Names(base.fields) :
              /\ Named(old.params, x).default = O(x).default
              /\ Named(old.params, x).kind = IF O(x).kwOnly THEN "keyword-only" ELSE "positional"
        /\ \A x \in Names(head.fields) :
              /\ Named(new.params, x).default = N(x).default
              /\ Named(new.params, x).kind = IF N(x).kwOnly THEN "keyword-only" ELSE "positional"
    BY ConstructorIs DEF O, N, Was, Is
  <2> HIDE DEF old, new
  <2> QED  BY <2>1, <1>3, <1>4, <1>5, <1>6 DEF Takes
<1>8. IsSignature(old.params) /\ IsSignature(new.params)
  BY ConstructorIs
<1> HIDE DEF old, new
<1>9. ~CallsBreak(old, new)
  BY <1>7, <1>8, CallsGoOn
<1> QED  BY <1>9 DEF old, new

----------------------------------------------------------------------------
\* Two symbols.

\* What the reader of a tree makes of them (Class, SymbolOf).
Shaped(sym) ==
    /\ \A m \in DOMAIN sym.members :
          sym.members[m].kind = "attribute" => sym.members[m].params = <<>>
    /\ sym.kind \in {"function", "alias"} =>
          DOMAIN sym.members = {} /\ DOMAIN sym.enum = {} /\ ~sym.frozen
    /\ sym.kind = "function" =>
          \E f : sym.function = <<f>> /\ f.kind = "function"

ParamNames(sym, m) == IF m \in DOMAIN sym.members THEN Names(sym.members[m].params) ELSE {}

\* A change that asks for an entry about a broken part of a symbol.
AsksFor(c, old, new, x) ==
    /\ Asks(c) /\ c.name = new.name /\ c.package = new.package /\ c.path = DisplayPath(new)
    /\ \/ x = NoMember
       \/ c.member = x /\ (c.param = NoMember \/ c.param \in ParamNames(old, x) \cup ParamNames(new, x))
Finds(changes, old, new, x) == \E c \in changes : AsksFor(c, old, new, x)

LEMMA ShownIsFound ==
    ASSUME NEW some, NEW changes, some \subseteq changes, NEW old, NEW new, NEW x, NEW m, NEW params,
           Shows(some, new, m, params),
           x = NoMember \/ (m = x /\ params \subseteq ParamNames(old, x) \cup ParamNames(new, x))
    PROVE  Finds(changes, old, new, x)
<1>1. PICK c \in some : /\ Asks(c)
                       /\ c.name = new.name /\ c.package = new.package
                       /\ c.path = DisplayPath(new)
                       /\ c.member = m /\ (c.param = NoMember \/ c.param \in params)
  BY DEF Shows
<1>2. AsksFor(c, old, new, x)
  BY <1>1 DEF AsksFor
<1> QED  BY <1>2 DEF Finds

LEMMA EmptySignature ==
    ASSUME NEW old, NEW new, old.params = <<>>, new.params = <<>>
    PROVE  ~CallsBreak(old, new)
<1>1. Names(<<>>) = {} /\ ToSet(<<>>) = {} /\ DOMAIN <<>> = {}
  BY DEF Names, ToSet
<1>2. IsSignature(<<>>)
  BY <1>1 DEF IsSignature, Distinct
<1>3. Takes(old, new)
  BY <1>1 DEF Takes
<1> QED  BY <1>2, <1>3, CallsGoOn

LEMMA MemberShows ==
    ASSUME NEW base, NEW head, NEW x \in DOMAIN base.members \cap DOMAIN head.members,
           Parses(base), Parses(head), Shaped(base), Shaped(head),
           ~Shows(DiffMembers(base, head), head, x,
                  Names(base.members[x].params) \cup Names(head.members[x].params))
    PROVE  /\ ~BreaksCallers(base.members[x], head.members[x])
           /\ head.kind = "protocol" => ~BreaksDrivers(base.members[x], head.members[x])
<1> DEFINE D == DiffMembers(base, head)
           owner == OwnerKind(head)
           old == base.members[x]
           new == head.members[x]
           P == Names(old.params) \cup Names(new.params)
           C(cls, member, direction) == Change(cls, head, member, NoMember, owner, direction, "")
           removed == DOMAIN base.members \ DOMAIN head.members
           added == DOMAIN head.members \ DOMAIN base.members
           renamed == {n \in removed : RenamedTo(base, head, n) # {}}
           Both(n, o, w) ==
            (IF o.kind # w.kind THEN {C("param-kind-changed", n, "")} ELSE {})
            \cup (IF "attribute" \in {o.kind, w.kind}
                  THEN LET d == Direction(o.returns, w.returns)
                       IN IF d = "equal" THEN {} ELSE {C("return-annotation-changed", n, d)}
                  ELSE DiffParams(head, o, w, owner, n))
           A == {C("renamed?", n, "") : n \in renamed}
           B == {C("removed-member", n, "") : n \in removed \ renamed}
           E == {C("added-member", n, "") :
                    n \in added \ UNION {RenamedTo(base, head, r) : r \in renamed}}
           F(n) == Both(n, base.members[n], head.members[n])
<1>1. D = UNION {A, B, E, UNION {F(n) : n \in DOMAIN base.members \cap DOMAIN head.members}}
  BY DEF DiffMembers
<1>2. Both(x, old, new) \subseteq D
  <2>1. F(x) \subseteq D
    <3> HIDE DEF A, B, E, F, D
    <3> QED  BY <1>1
  <2> QED  BY <2>1
<1>3. ASSUME NEW cls, NEW direction, C(cls, x, direction) \in D
      PROVE  Needs(cls, owner, direction, "") \notin Strong
  BY <1>3, Shown
<1>4. IsSignature(old.params) /\ IsSignature(new.params)
  BY DEF Parses
<1>5. old.kind = new.kind
  <2>1. ASSUME old.kind # new.kind  PROVE FALSE
    <3>1. C("param-kind-changed", x, "") \in D
      <4> HIDE DEF C, D
      <4> QED  BY <2>1, <1>2
    <3>2. Needs("param-kind-changed", owner, "", "") \in Strong
      BY NeedsAre
    <3> QED  BY <3>1, <3>2, <1>3
  <2> QED  BY <2>1
<1>6. CASE old.kind = "attribute"
  <2> DEFINE way == Direction(old.returns, new.returns)
  <2>1. old.params = <<>> /\ new.params = <<>>
    BY <1>5, <1>6 DEF Shaped
  <2>2. ~CallsBreak(old, new) /\ ~CallsBreak(new, old)
    <3> HIDE DEF old, new
    <3> QED  BY <2>1, EmptySignature
  <2>3. Names(<<>>) = {}
    BY DEF Names, ToSet
  <2>4. way # "equal" => C("return-annotation-changed", x, way) \in D
    <3> HIDE DEF C, D
    <3> QED  BY <1>2, <1>6
  <2> HIDE DEF way, C, D
  <2>5. ASSUME way \in {"widened", "unknown"}  PROVE FALSE
    <3>1. Needs("return-annotation-changed", owner, way, "") \in Strong
      BY <2>5, NeedsOfResult
    <3>2. C("return-annotation-changed", x, way) \in D
      BY <2>5, <2>4
    <3> QED  BY <3>1, <3>2, <1>3
  <2>6. ASSUME owner = "protocol", way \in {"narrowed", "unknown"}  PROVE FALSE
    <3>1. Needs("return-annotation-changed", owner, way, "") \in Strong
      BY <2>6, NeedsAre
    <3>2. C("return-annotation-changed", x, way) \in D
      BY <2>6, <2>4
    <3> QED  BY <3>1, <3>2, <1>3
  <2>7. Accepts(old.returns, new.returns) /\ (owner = "protocol" => Accepts(new.returns, old.returns))
    BY <2>5, <2>6, DirectionTells DEF way
  <2>8. head.kind = "protocol" => owner = "protocol"
    BY DEF OwnerKind
  <2> HIDE DEF owner
  <2>9. ~BreaksCallers(old, new)
    BY <1>5, <2>1, <2>2, <2>3, <2>7 DEF BreaksCallers
  <2> QED  BY <2>2, <2>7, <2>8, <2>9 DEF BreaksDrivers
<1>7. CASE old.kind # "attribute"
  <2>1. DiffParams(head, old, new, owner, x) \subseteq D
    <3> HIDE DEF C, D
    <3> QED  BY <1>2, <1>5, <1>7
  <2>2. ~Shows(DiffParams(head, old, new, owner, x), head, x, P)
    <3> HIDE DEF D, owner
    <3>1. ~Shows(D, head, x, P)
      BY DEF D
    <3> QED  BY <2>1, <3>1 DEF Shows
  <2> HIDE DEF D
  <2>3. /\ Takes(old, new)
        /\ \A n \in Names(old.params) \cap Names(new.params) :
              Accepts(Named(new.params, n).annotation, Named(old.params, n).annotation)
        /\ Accepts(old.returns, new.returns)
        /\ owner = "protocol" => Takes(new, old) /\ Accepts(new.returns, old.returns)
    <3> HIDE DEF old, new, owner
    <3> QED  BY <1>4, <2>2, ParamsShow
  <2>4. ~CallsBreak(old, new) /\ (owner = "protocol" => ~CallsBreak(new, old))
    <3> HIDE DEF old, new, owner
    <3> QED  BY <1>4, <2>3, CallsGoOn
  <2>5. head.kind = "protocol" => owner = "protocol"
    BY DEF OwnerKind
  <2> HIDE DEF owner
  <2> QED  BY <1>5, <2>3, <2>4, <2>5 DEF BreaksCallers, BreaksDrivers
<1> QED  BY <1>6, <1>7

LEMMA MemberGone ==
    ASSUME NEW base, NEW head, NEW x \in DOMAIN base.members \ DOMAIN head.members
    PROVE  Shows(DiffMembers(base, head), head, x, {})
<1> DEFINE D == DiffMembers(base, head)
           owner == OwnerKind(head)
           C(cls, member, direction) == Change(cls, head, member, NoMember, owner, direction, "")
           removed == DOMAIN base.members \ DOMAIN head.members
           renamed == {n \in removed : RenamedTo(base, head, n) # {}}
           A == {C("renamed?", n, "") : n \in renamed}
           B == {C("removed-member", n, "") : n \in removed \ renamed}
<1>1. A \subseteq D /\ B \subseteq D
  BY DEF DiffMembers
<1>2. C("renamed?", x, "") \in D \/ C("removed-member", x, "") \in D
  <2> HIDE DEF C, D
  <2> QED  BY <1>1
<1>3. /\ Needs("renamed?", owner, "", "") \in Strong
      /\ Needs("removed-member", owner, "", "") \in Strong
  BY NeedsAre
<1> QED  BY <1>2, <1>3, Shown

LEMMA EnumShows ==
    ASSUME NEW base, NEW head, NEW x \in DOMAIN base.enum,
           x \notin DOMAIN head.enum \/ base.enum[x] # head.enum[x]
    PROVE  Shows(DiffEnum(base, head), head, x, {})
<1> DEFINE D == DiffEnum(base, head)
           C(cls, n) == Change(cls, head, n, NoMember, "callable", "", "")
           kept == DOMAIN base.enum \cap DOMAIN head.enum
<1>1. /\ {C("enum-member-removed", n) : n \in DOMAIN base.enum \ kept} \subseteq D
      /\ {C("enum-value-changed", n) : n \in {m \in kept : base.enum[m] # head.enum[m]}} \subseteq D
  BY DEF DiffEnum
<1>2. C("enum-member-removed", x) \in D \/ C("enum-value-changed", x) \in D
  <2> HIDE DEF C, D
  <2> QED  BY <1>1
<1>3. /\ Needs("enum-member-removed", "callable", "", "") \in Strong
      /\ Needs("enum-value-changed", "callable", "", "") \in Strong
  BY NeedsAre
<1> QED  BY <1>2, <1>3, Shown

\* The parts of a symbol's differences, when it is no function and no alias before
\* and after.
LEMMA PartsOfDiff ==
    ASSUME NEW base, NEW head, ~(head.kind = "alias" /\ base.kind = "alias"),
           ~(head.kind = "function" /\ base.kind = "function")
    PROVE  LET D == DiffSymbol(base, head)
               C(cls, extra) == Change(cls, head, NoMember, NoMember, "callable", "", extra)
           IN /\ base.kind # head.kind => C("param-kind-changed", "symbol kind") \in D
              /\ head.frozen /\ ~base.frozen => C("model-frozen-changed", "frozen") \in D
              /\ DiffMembers(base, head) \subseteq D /\ DiffFields(base, head) \subseteq D
              /\ DiffEnum(base, head) \subseteq D
<1> DEFINE D == DiffSymbol(base, head)
           K(cls, owner, direction, extra) ==
              Change(cls, head, NoMember, NoMember, owner, direction, extra)
           owner1 == OwnerKind(head)
           A == IF base.kind = head.kind THEN {}
                ELSE {K("param-kind-changed", "callable", "", "symbol kind")}
           B == IF base.frozen = head.frozen THEN {}
                ELSE {K("model-frozen-changed", "callable", "",
                        IF head.frozen THEN "frozen" ELSE "unfrozen")}
           E == IF head.deprecated /\ ~base.deprecated
                THEN {K("deprecated-marker-added", "callable", "", "")} ELSE {}
           F == IF {head.kind, base.kind} # {"protocol"} THEN {}
                ELSE {K("added-member", owner1, "", b) : b \in head.bases \ base.bases}
                       \cup {K("removed-member", owner1, "", b) : b \in base.bases \ head.bases}
<1>1. D = UNION {A, B, E, F, DiffMembers(base, head), DiffFields(base, head), DiffEnum(base, head)}
  <2> HIDE DEF K
  <2> QED  BY DEF DiffSymbol, K
<1>2. /\ A \subseteq D /\ B \subseteq D
      /\ DiffMembers(base, head) \subseteq D /\ DiffFields(base, head) \subseteq D
      /\ DiffEnum(base, head) \subseteq D
  <2> HIDE DEF A, B, E, F, D
  <2> QED  BY <1>1
<1>3. base.kind # head.kind => K("param-kind-changed", "callable", "", "symbol kind") \in D
  <2> HIDE DEF K, D
  <2> QED  BY <1>2
<1>4. head.frozen /\ ~base.frozen => K("model-frozen-changed", "callable", "", "frozen") \in D
  <2> HIDE DEF K, D
  <2> QED  BY <1>2
<1> QED  BY <1>2, <1>3, <1>4

\* Whatever part of a released symbol no longer works as it did, by the rules of Python
\* for calls and for the types that a caller gives and gets, contract_surface.py reports
\* as a difference of that symbol, about that part, which asks for an entry.
THEOREM DiffFindsBreaks ==
    ASSUME NEW old, NEW new, Parses(old), Parses(new), Shaped(old), Shaped(new),
           NEW x \in Broken(old, new)
    PROVE  Finds(DiffSymbol(old, new), old, new, x)
<1> DEFINE D == DiffSymbol(old, new)
           kept == DOMAIN old.members \cap DOMAIN new.members
           C(cls, extra) == Change(cls, new, NoMember, NoMember, "callable", "", extra)
           whole == \/ old.kind # new.kind
                    \/ old.kind = "function" /\ BreaksCallers(old.function[1], new.function[1])
                    \/ old.kind \in RECORDS /\ CallsBreak(Constructor(old), Constructor(new))
                    \/ new.frozen /\ ~old.frozen
                    \/ \E m \in DOMAIN old.enum : m \notin DOMAIN new.enum
                                                  \/ old.enum[m] # new.enum[m]
<1> SUFFICES Finds(D, old, new, x)
  OBVIOUS
<1>1. \/ whole /\ x = NoMember
      \/ x \in DOMAIN old.members \ DOMAIN new.members
      \/ x \in kept /\ BreaksCallers(old.members[x], new.members[x])
      \/ x \in kept /\ {old.kind, new.kind} = {"protocol"}
           /\ BreaksDrivers(old.members[x], new.members[x])
  <2> DEFINE G == {m \in kept : BreaksCallers(old.members[m], new.members[m])}
             H == {m \in kept : BreaksDrivers(old.members[m], new.members[m])}
             W == IF whole THEN {NoMember} ELSE {}
             R == IF {old.kind, new.kind} # {"protocol"} THEN {} ELSE H
  <2>1. x \in W \cup (DOMAIN old.members \ DOMAIN new.members) \cup G \cup R
    BY DEF Broken
  <2> HIDE DEF whole
  <2> QED  BY <2>1
<1> HIDE DEF whole
<1>2. ASSUME NEW some, some \subseteq D, NEW m, Shows(some, new, m, {}), x = NoMember \/ m = x
      PROVE  Finds(D, old, new, x)
  <2> HIDE DEF D
  <2>1. {} \subseteq ParamNames(old, x) \cup ParamNames(new, x)
    OBVIOUS
  <2> QED  BY <1>2, <2>1, ShownIsFound
<1>3. CASE old.kind = "function" /\ new.kind = "function"
  <2>1. DOMAIN old.members = {} /\ DOMAIN old.enum = {} /\ ~new.frozen
    BY <1>3 DEF Shaped
  <2>2. x = NoMember /\ BreaksCallers(old.function[1], new.function[1])
    BY <1>1, <1>3, <2>1 DEF whole, RECORDS
  <2> DEFINE f == old.function[1]
             g == new.function[1]
             E == DiffParams(new, f, g, "callable", NoMember)
  <2>3. /\ old.function = <<f>> /\ f.kind = "function"
        /\ new.function = <<g>> /\ g.kind = "function"
    BY <1>3 DEF Shaped
  <2>4. IsSignature(f.params) /\ IsSignature(g.params)
    <3>1. f \in ToSet(old.function) /\ g \in ToSet(new.function)
      BY <2>3 DEF ToSet
    <3> QED  BY <3>1 DEF Parses
  <2>5. D = E
    BY <1>3 DEF DiffSymbol
  <2> HIDE DEF f, g, D
  <2>6. Shows(E, new, NoMember, Names(f.params) \cup Names(g.params))
    <3> SUFFICES ASSUME ~Shows(E, new, NoMember, Names(f.params) \cup Names(g.params))
                 PROVE  FALSE
      OBVIOUS
    <3>1. /\ Takes(f, g)
          /\ \A n \in Names(f.params) \cap Names(g.params) :
                Accepts(Named(g.params, n).annotation, Named(f.params, n).annotation)
          /\ Accepts(f.returns, g.returns)
      BY <2>4, ParamsShow
    <3>2. ~CallsBreak(f, g)
      BY <2>4, <3>1, CallsGoOn
    <3> QED  BY <2>2, <2>3, <3>1, <3>2 DEF BreaksCallers, f, g
  <2> QED  BY <2>2, <2>5, <2>6, ShownIsFound
<1>4. CASE old.kind = "alias" /\ new.kind = "alias"
  <2>1. DOMAIN old.members = {} /\ DOMAIN old.enum = {} /\ ~new.frozen
    BY <1>4 DEF Shaped
  <2> QED  BY <1>1, <1>4, <2>1 DEF whole, RECORDS
<1>5. CASE /\ ~(old.kind = "alias" /\ new.kind = "alias")
           /\ ~(old.kind = "function" /\ new.kind = "function")
  <2>1. /\ old.kind # new.kind => C("param-kind-changed", "symbol kind") \in D
        /\ new.frozen /\ ~old.frozen => C("model-frozen-changed", "frozen") \in D
        /\ DiffMembers(old, new) \subseteq D /\ DiffFields(old, new) \subseteq D
        /\ DiffEnum(old, new) \subseteq D
    BY <1>5, PartsOfDiff
  <2> HIDE DEF D, C
  <2>2. CASE whole /\ x = NoMember
    <3>1. CASE old.kind # new.kind
      <4>1. Needs("param-kind-changed", "callable", "", "symbol kind") \in Strong
        BY NeedsAre
      <4>2. Shows(D, new, NoMember, {})
        BY <2>1, <3>1, <4>1, Shown DEF C
      <4> QED  BY <4>2, <2>2, <1>2
    <3>2. CASE old.kind = new.kind /\ old.kind \in RECORDS
                 /\ CallsBreak(Constructor(old), Constructor(new))
      <4>1. Distinct(old.fields) /\ Distinct(new.fields)
        BY DEF Parses
      <4>2. PICK m : Shows(DiffFields(old, new), new, m, {})
        BY <3>2, <4>1, FieldsShow
      <4> QED  BY <4>2, <2>1, <2>2, <1>2
    <3>3. CASE new.frozen /\ ~old.frozen
      <4>1. Needs("model-frozen-changed", "callable", "", "frozen") \in Strong
        BY NeedsAre
      <4>2. Shows(D, new, NoMember, {})
        BY <2>1, <3>3, <4>1, Shown DEF C
      <4> QED  BY <4>2, <2>2, <1>2
    <3>4. CASE \E m \in DOMAIN old.enum : m \notin DOMAIN new.enum \/ old.enum[m] # new.enum[m]
      <4>1. PICK m \in DOMAIN old.enum : m \notin DOMAIN new.enum \/ old.enum[m] # new.enum[m]
        BY <3>4
      <4>2. Shows(DiffEnum(old, new), new, m, {})
        BY <4>1, EnumShows
      <4> QED  BY <4>2, <2>1, <2>2, <1>2
    <3> QED  BY <2>2, <3>1, <3>2, <3>3, <3>4, <1>5 DEF whole
  <2>3. CASE x \in DOMAIN old.members \ DOMAIN new.members
    <3>1. Shows(DiffMembers(old, new), new, x, {})
      BY <2>3, MemberGone
    <3> QED  BY <3>1, <2>1, <1>2
  <2>4. CASE /\ x \in kept
             /\ \/ BreaksCallers(old.members[x], new.members[x])
                \/ {old.kind, new.kind} = {"protocol"}
                     /\ BreaksDrivers(old.members[x], new.members[x])
    <3> DEFINE P == Names(old.members[x].params) \cup Names(new.members[x].params)
    <3>1. Shows(DiffMembers(old, new), new, x, P)
      <4>1. {old.kind, new.kind} = {"protocol"} => new.kind = "protocol"
        OBVIOUS
      <4> QED  BY <2>4, <4>1, MemberShows
    <3>2. P = ParamNames(old, x) \cup ParamNames(new, x)
      BY <2>4 DEF ParamNames
    <3> HIDE DEF P
    <3> QED  BY <3>1, <3>2, <2>1, ShownIsFound
  <2> QED  BY <1>1, <2>2, <2>3, <2>4
<1> QED  BY <1>3, <1>4, <1>5

----------------------------------------------------------------------------
\* The surface of a tree, source path by source path.

OneModuleEach == \A p, q \in DOMAIN ModuleOf : ModuleOf[p] = ModuleOf[q] => p = q

\* What is asked of a symbol but its paths.
Traits == {"kind", "members", "fields", "enum", "frozen", "function", "deprecated", "name"}
Alike(a, b) == \A t \in Traits : a[t] = b[t]
Bare(content, k) ==
    [ SymbolOf(Newest(content, k[2])) EXCEPT
      !.package = content.package, !.module = k[1], !.name = k[2] ]

\* What the surface of a tree has for a name that a module of it defines.
OfModule(sym, content, k) == \E paths : sym = [Bare(content, k) EXCEPT !.paths = paths]

LEMMA AlikeTraits ==
    ASSUME NEW a, NEW b, Alike(a, b)
    PROVE  /\ a.kind = b.kind /\ a.members = b.members /\ a.fields = b.fields /\ a.enum = b.enum
           /\ a.frozen = b.frozen /\ a.function = b.function /\ a.deprecated = b.deprecated
           /\ a.name = b.name
BY DEF Alike, Traits

LEMMA AlikeBreaks ==
    ASSUME NEW a, NEW b, NEW c, NEW d, Alike(a, c), Alike(b, d)
    PROVE  Broken(a, b) = Broken(c, d)
<1>1. /\ a.kind = c.kind /\ a.members = c.members /\ a.fields = c.fields /\ a.enum = c.enum
      /\ a.frozen = c.frozen /\ a.function = c.function
      /\ b.kind = d.kind /\ b.members = d.members /\ b.fields = d.fields /\ b.enum = d.enum
      /\ b.frozen = d.frozen /\ b.function = d.function
  BY AlikeTraits
<1>2. Constructor(a) = Constructor(c) /\ Constructor(b) = Constructor(d)
  BY <1>1 DEF Constructor
<1> QED  BY <1>1, <1>2 DEF Broken

LEMMA AlikeOtherwise ==
    ASSUME NEW a, NEW b, Alike(a, b)
    PROVE  /\ Parses(a) => Parses(b)
           /\ Shaped(a) => Shaped(b)
           /\ \A e : NamesMembers(e, a) => NamesMembers(e, b)
<1>1. Parses(a) => Parses(b)
  BY AlikeTraits DEF Parses
<1>2. Shaped(a) => Shaped(b)
  <2>1. a.kind = b.kind /\ a.members = b.members /\ a.enum = b.enum /\ a.frozen = b.frozen
        /\ a.function = b.function
    BY AlikeTraits
  <2> QED  BY <2>1 DEF Shaped
<1>3. \A e : NamesMembers(e, a) => NamesMembers(e, b)
  BY AlikeTraits DEF NamesMembers
<1> QED  BY <1>1, <1>2, <1>3

LEMMA SymbolIs ==
    ASSUME NEW stmt
    PROVE  /\ DOMAIN SymbolOf(stmt) = DOMAIN Empty
           /\ Shaped(SymbolOf(stmt))
<1>1. CASE stmt.form = "class"
  <2>1. SymbolOf(stmt) = Class(stmt)
    BY <1>1 DEF SymbolOf
  <2>2. /\ DOMAIN Class(stmt) = DOMAIN Empty
        /\ Class(stmt).kind = ClassKind(stmt)
        /\ Class(stmt).members = Members(ClassKind(stmt), stmt.body)
    BY DEF Class, Empty
  <2>3. ClassKind(stmt) \notin {"function", "alias"}
    BY DEF ClassKind
  <2>4. ASSUME NEW m \in DOMAIN Class(stmt).members, Class(stmt).members[m].kind = "attribute"
        PROVE  Class(stmt).members[m].params = <<>>
    <3> DEFINE kept == SelectSeq(stmt.body, LAMBDA s : IsMember(ClassKind(stmt), s))
               At2(n) == Max({i \in DOMAIN kept : kept[i].name = n})
               s0 == kept[At2(m)]
    <3>1. Class(stmt).members[m] = IF s0.form = "def" THEN Function(s0, TRUE, At2(m))
                                   ELSE Attribute(s0, At2(m))
      BY <2>2, <2>4 DEF Members
    <3> HIDE DEF kept, At2, s0
    <3>2. CASE s0.form = "def"
      <4>1. Function(s0, TRUE, At2(m)).kind \in {"property", "method"}
        BY DEF Function
      <4> QED  BY <3>1, <3>2, <4>1, <2>4
    <3>3. CASE s0.form # "def"
      BY <3>1, <3>3 DEF Attribute
    <3> QED  BY <3>2, <3>3
  <2> HIDE DEF Class
  <2> QED  BY <2>1, <2>2, <2>3, <2>4 DEF Shaped
<1>2. CASE stmt.form = "alias"
  <2>1. SymbolOf(stmt) = [Empty EXCEPT !.kind = "alias", !.value = stmt.value]
    BY <1>2 DEF SymbolOf
  <2>2. /\ DOMAIN SymbolOf(stmt) = DOMAIN Empty /\ SymbolOf(stmt).kind = "alias"
        /\ SymbolOf(stmt).members = << >> /\ SymbolOf(stmt).enum = << >>
        /\ SymbolOf(stmt).frozen = FALSE
    BY <2>1 DEF Empty
  <2>3. DOMAIN << >> = {}
    OBVIOUS
  <2> QED  BY <2>2, <2>3 DEF Shaped
<1>3. CASE stmt.form \notin {"class", "alias"}
  <2> DEFINE fn == Function(stmt, FALSE, 0)
  <2>1. SymbolOf(stmt) = [Empty EXCEPT !.kind = "function", !.deprecated = fn.deprecated,
                          !.marker = fn.marker, !.doc = fn.doc, !.function = <<fn>>]
    BY <1>3 DEF SymbolOf
  <2>2. fn.kind = "function"
    BY DEF Function
  <2> HIDE DEF fn
  <2>3. /\ DOMAIN SymbolOf(stmt) = DOMAIN Empty /\ SymbolOf(stmt).kind = "function"
        /\ SymbolOf(stmt).members = << >> /\ SymbolOf(stmt).enum = << >>
        /\ SymbolOf(stmt).frozen = FALSE /\ SymbolOf(stmt).function = <<fn>>
    BY <2>1 DEF Empty
  <2>4. DOMAIN << >> = {}
    OBVIOUS
  <2>5. \A m \in DOMAIN SymbolOf(stmt).members :
           SymbolOf(stmt).members[m].kind = "attribute" => SymbolOf(stmt).members[m].params = <<>>
    BY <2>3, <2>4
  <2>6. \E f : SymbolOf(stmt).function = <<f>> /\ f.kind = "function"
    BY <2>2, <2>3
  <2> QED  BY <2>3, <2>4, <2>5, <2>6 DEF Shaped
<1> QED  BY <1>1, <1>2, <1>3

LEMMA ModulesAre ==
    ASSUME OneModuleEach, NEW tree
    PROVE  /\ \A p \in DOMAIN tree \cap DOMAIN ModuleOf :
                 ModuleOf[p] \in DOMAIN ModulesIn(tree) /\ ModulesIn(tree)[ModuleOf[p]] = tree[p]
           /\ \A m \in DOMAIN ModulesIn(tree) :
                 \E p \in DOMAIN tree \cap DOMAIN ModuleOf : m = ModuleOf[p]
<1>1. DOMAIN ModulesIn(tree) = {ModuleOf[p] : p \in DOMAIN tree \cap DOMAIN ModuleOf}
  BY DEF ModulesIn
<1>2. ASSUME NEW p \in DOMAIN tree \cap DOMAIN ModuleOf
      PROVE  ModulesIn(tree)[ModuleOf[p]] = tree[p]
  <2>1. ModulesIn(tree)[ModuleOf[p]]
           = tree[CHOOSE q \in DOMAIN tree \cap DOMAIN ModuleOf : ModuleOf[q] = ModuleOf[p]]
    BY DEF ModulesIn
  <2>2. (CHOOSE q \in DOMAIN tree \cap DOMAIN ModuleOf : ModuleOf[q] = ModuleOf[p]) = p
    BY DEF OneModuleEach
  <2> QED  BY <2>1, <2>2
<1> QED  BY <1>1, <1>2

LEMMA SurfaceIs ==
    ASSUME OneModuleEach, NEW tree
    PROVE  /\ \A k : k \in DOMAIN SurfaceOf(tree) <=>
                 \E p \in DOMAIN tree \cap DOMAIN ModuleOf : \E n \in Defines(tree[p]) :
                    ModulePublic(ModuleOf[p]) /\ k = <<ModuleOf[p], n>>
           /\ \A p \in DOMAIN tree \cap DOMAIN ModuleOf : \A k \in DOMAIN SurfaceOf(tree) :
                 k[1] = ModuleOf[p] => OfModule(SurfaceOf(tree)[k], tree[p], k)
<1> DEFINE mods == ModulesIn(tree)
           public == {m \in DOMAIN mods : ModulePublic(m)}
           defined == UNION {{<<m, n>> : n \in Defines(mods[m])} : m \in public}
           Where(k) == {k[1]} \cup {m \in public :
               k[2] \in DOMAIN Reexports(mods, m) /\ Target(mods, defined, m, k[2]) = k[1]}
           S == SurfaceOf(tree)
<1>1. /\ DOMAIN S = defined
      /\ \A k \in defined : S[k] =
            [ SymbolOf(Newest(mods[k[1]], k[2])) EXCEPT
              !.package = mods[k[1]].package, !.module = k[1], !.name = k[2], !.paths = Where(k) ]
  BY DEF SurfaceOf, ReadSurface
<1>2. /\ \A p \in DOMAIN tree \cap DOMAIN ModuleOf :
            ModuleOf[p] \in DOMAIN mods /\ mods[ModuleOf[p]] = tree[p]
      /\ \A m \in DOMAIN mods : \E p \in DOMAIN tree \cap DOMAIN ModuleOf : m = ModuleOf[p]
  BY ModulesAre
<1>3. \A k : k \in defined <=>
         \E p \in DOMAIN tree \cap DOMAIN ModuleOf : \E n \in Defines(tree[p]) :
            ModulePublic(ModuleOf[p]) /\ k = <<ModuleOf[p], n>>
  <2> HIDE DEF mods
  <2>1. \A k : k \in defined <=> \E m \in public : \E n \in Defines(mods[m]) : k = <<m, n>>
    OBVIOUS
  <2> HIDE DEF defined
  <2>2. ASSUME NEW k, k \in defined
        PROVE  \E p \in DOMAIN tree \cap DOMAIN ModuleOf : \E n \in Defines(tree[p]) :
                  ModulePublic(ModuleOf[p]) /\ k = <<ModuleOf[p], n>>
    BY <2>1, <2>2, <1>2
  <2>3. ASSUME NEW p \in DOMAIN tree \cap DOMAIN ModuleOf, NEW n \in Defines(tree[p]),
               ModulePublic(ModuleOf[p])
        PROVE  <<ModuleOf[p], n>> \in defined
    <3>1. ModuleOf[p] \in public /\ n \in Defines(mods[ModuleOf[p]])
      BY <2>3, <1>2
    <3> QED  BY <3>1, <2>1
  <2> QED  BY <2>2, <2>3
<1> HIDE DEF mods, defined, Where, S
<1>4. ASSUME NEW p \in DOMAIN tree \cap DOMAIN ModuleOf, NEW k \in DOMAIN S, k[1] = ModuleOf[p]
      PROVE  OfModule(S[k], tree[p], k)
  <2>1. mods[k[1]] = tree[p]
    BY <1>2, <1>4
  <2>2. S[k] = [ SymbolOf(Newest(tree[p], k[2])) EXCEPT
                 !.package = tree[p].package, !.module = k[1], !.name = k[2], !.paths = Where(k) ]
    BY <1>1, <1>4, <2>1
  <2>3. S[k] = [Bare(tree[p], k) EXCEPT !.paths = Where(k)]
    BY <2>2 DEF Bare
  <2> QED  BY <2>3 DEF OfModule
<1> QED  BY <1>1, <1>3, <1>4 DEF S

\* Whatever its paths are, a symbol is that of its path alone, and has the shape that
\* the reader gives it.
LEMMA BareIs ==
    ASSUME NEW content, NEW k, NEW sym, OfModule(sym, content, k)
    PROVE  Alike(sym, Bare(content, k)) /\ Shaped(sym) /\ sym.name = k[2]
<1> DEFINE whole == SymbolOf(Newest(content, k[2]))
           bare == Bare(content, k)
<1>0. PICK paths : sym = [bare EXCEPT !.paths = paths]
  BY DEF OfModule
<1>1. DOMAIN whole = DOMAIN Empty /\ Shaped(whole)
  BY SymbolIs
<1>2. Traits \subseteq DOMAIN Empty /\ "paths" \notin Traits /\ "package" \notin Traits
      /\ "module" \notin Traits
  BY DEF Empty, Traits
<1> HIDE DEF whole
<1>3. DOMAIN bare = DOMAIN Empty /\ bare.name = k[2]
      /\ \A t \in Traits : t # "name" => bare[t] = whole[t]
  BY <1>1, <1>2 DEF Bare, whole, Traits
<1> HIDE DEF bare
<1>4. Alike(sym, bare)
  BY <1>0, <1>2, <1>3 DEF Alike
<1>5. /\ sym.kind = whole.kind /\ sym.members = whole.members /\ sym.enum = whole.enum
      /\ sym.frozen = whole.frozen /\ sym.function = whole.function /\ sym.name = k[2]
  BY <1>3, <1>4 DEF Alike, Traits
<1>6. Shaped(sym)
  BY <1>1, <1>5, Zenon DEF Shaped
<1> QED  BY <1>4, <1>5, <1>6 DEF bare

LEMMA LocalSurface ==
    ASSUME OneModuleEach, NEW tree, NEW p \in DOMAIN ModuleOf
    PROVE  LET S == SurfaceOf(tree)
               L == SurfaceAt(p, At(tree, p))
           IN /\ \A k : k \in DOMAIN L <=> k \in DOMAIN S /\ k[1] = ModuleOf[p]
              /\ \A k \in DOMAIN L : Alike(L[k], S[k]) /\ Alike(S[k], L[k])
                                     /\ Shaped(S[k]) /\ S[k].name = k[2]
<1> DEFINE S == SurfaceOf(tree)
           one == Alone(p, At(tree, p))
           L == SurfaceOf(one)
<1>1. DOMAIN one = {p} \cap DOMAIN tree /\ (p \in DOMAIN tree => one[p] = tree[p])
  BY DEF Alone, At
<1> HIDE DEF one
<1>2. /\ \A k : k \in DOMAIN S <=>
            \E q \in DOMAIN tree \cap DOMAIN ModuleOf : \E n \in Defines(tree[q]) :
               ModulePublic(ModuleOf[q]) /\ k = <<ModuleOf[q], n>>
      /\ \A q \in DOMAIN tree \cap DOMAIN ModuleOf : \A k \in DOMAIN S :
            k[1] = ModuleOf[q] => OfModule(S[k], tree[q], k)
  BY SurfaceIs
<1>3. /\ \A k : k \in DOMAIN L <=>
            \E q \in DOMAIN one \cap DOMAIN ModuleOf : \E n \in Defines(one[q]) :
               ModulePublic(ModuleOf[q]) /\ k = <<ModuleOf[q], n>>
      /\ \A q \in DOMAIN one \cap DOMAIN ModuleOf : \A k \in DOMAIN L :
            k[1] = ModuleOf[q] => OfModule(L[k], one[q], k)
  BY SurfaceIs
<1> HIDE DEF S, L
<1>4. ASSUME NEW k, k \in DOMAIN L
      PROVE  k \in DOMAIN S /\ k[1] = ModuleOf[p] /\ p \in DOMAIN tree
  <2>1. PICK q \in DOMAIN one \cap DOMAIN ModuleOf : \E n \in Defines(one[q]) :
           ModulePublic(ModuleOf[q]) /\ k = <<ModuleOf[q], n>>
    BY <1>3, <1>4
  <2>2. q = p /\ p \in DOMAIN tree /\ one[q] = tree[p]
    BY <2>1, <1>1
  <2> QED  BY <2>1, <2>2, <1>2
<1>5. ASSUME NEW k, k \in DOMAIN S, k[1] = ModuleOf[p]
      PROVE  k \in DOMAIN L
  <2>1. PICK q \in DOMAIN tree \cap DOMAIN ModuleOf : \E n \in Defines(tree[q]) :
           ModulePublic(ModuleOf[q]) /\ k = <<ModuleOf[q], n>>
    BY <1>2, <1>5
  <2>2. q = p
    BY <2>1, <1>5 DEF OneModuleEach
  <2>3. p \in DOMAIN one \cap DOMAIN ModuleOf /\ one[p] = tree[p]
    BY <2>1, <2>2, <1>1
  <2> QED  BY <2>1, <2>2, <2>3, <1>3
<1>6. ASSUME NEW k \in DOMAIN L
      PROVE  Alike(L[k], S[k]) /\ Alike(S[k], L[k]) /\ Shaped(S[k]) /\ S[k].name = k[2]
  <2>1. k \in DOMAIN S /\ k[1] = ModuleOf[p] /\ p \in DOMAIN tree
        /\ p \in DOMAIN one /\ one[p] = tree[p]
    BY <1>4, <1>1
  <2>2. OfModule(S[k], tree[p], k) /\ OfModule(L[k], tree[p], k)
    BY <2>1, <1>2, <1>3
  <2>4. Alike(S[k], Bare(tree[p], k)) /\ Shaped(S[k]) /\ S[k].name = k[2]
    BY <2>2, BareIs
  <2>5. Alike(L[k], Bare(tree[p], k))
    BY <2>2, BareIs
  <2> QED  BY <2>4, <2>5 DEF Alike
<1> QED  BY <1>4, <1>5, <1>6 DEF S, L, one, SurfaceAt

\* A symbol that is as it was is not broken anywhere.
LEMMA SameIsWhole ==
    ASSUME NEW sym
    PROVE  Broken(sym, sym) = {}
<1>1. ASSUME NEW f  PROVE ~BreaksCallers(f, f) /\ ~BreaksDrivers(f, f) /\ ~CallsBreak(f, f)
  <2>1. ~CallsBreak(f, f)
    BY DEF CallsBreak
  <2>2. \A a : Accepts(a, a)
    BY DEF Accepts
  <2> QED  BY <2>1, <2>2 DEF BreaksCallers, BreaksDrivers
<1> QED  BY <1>1 DEF Broken

LEMMA BreakIs ==
    ASSUME NEW start, NEW now, NEW b
    PROVE  b \in BreaksSince(start, now) <=>
              \E k \in DOMAIN start :
                 IF k \in DOMAIN now THEN \E x \in Broken(start[k], now[k]) : b = <<k, x>>
                 ELSE b = <<k, NoMember>>
<1> DEFINE Of(k) == IF k \in DOMAIN now THEN {<<k, x>> : x \in Broken(start[k], now[k])}
                    ELSE {<<k, NoMember>>}
           Changed == {s \in DOMAIN start : s \in DOMAIN now => start[s] # now[s]}
<1>1. BreaksSince(start, now) = UNION {Of(k) : k \in Changed}
  BY DEF BreaksSince
<1>2. \A k : b \in Of(k) <=> IF k \in DOMAIN now THEN \E x \in Broken(start[k], now[k]) : b = <<k, x>>
                             ELSE b = <<k, NoMember>>
  OBVIOUS
<1>3. ASSUME NEW k \in DOMAIN start, k \notin Changed, b \in Of(k)  PROVE FALSE
  <2>1. k \in DOMAIN now /\ start[k] = now[k]
    BY <1>3
  <2>2. Broken(start[k], now[k]) = {}
    BY <2>1, SameIsWhole
  <2> QED  BY <1>2, <1>3, <2>1, <2>2
<1> HIDE DEF Of, Changed
<1>4. Changed \subseteq DOMAIN start
  BY DEF Changed
<1> QED  BY <1>1, <1>2, <1>3, <1>4

\* What is broken in a tree is what is broken at one of its paths.
LEMMA BreaksByPath ==
    ASSUME OneModuleEach, NEW old, NEW new, NEW b
    PROVE  b \in BreaksSince(SurfaceOf(old), SurfaceOf(new)) <=>
              \E p \in DOMAIN ModuleOf : b \in BreaksAt(p, At(old, p), At(new, p))
<1> DEFINE S == SurfaceOf(old)
           T == SurfaceOf(new)
           SA(p) == SurfaceAt(p, At(old, p))
           TA(p) == SurfaceAt(p, At(new, p))
<1>1. ASSUME NEW p \in DOMAIN ModuleOf
      PROVE  /\ \A k : k \in DOMAIN SA(p) <=> k \in DOMAIN S /\ k[1] = ModuleOf[p]
             /\ \A k : k \in DOMAIN TA(p) <=> k \in DOMAIN T /\ k[1] = ModuleOf[p]
             /\ \A k \in DOMAIN SA(p) : Alike(SA(p)[k], S[k])
             /\ \A k \in DOMAIN TA(p) : Alike(TA(p)[k], T[k])
  BY LocalSurface
<1>2. \A k \in DOMAIN S : \E p \in DOMAIN ModuleOf : k[1] = ModuleOf[p]
  <2>1. \A k : k \in DOMAIN S =>
           \E q \in DOMAIN old \cap DOMAIN ModuleOf : \E n \in Defines(old[q]) :
              ModulePublic(ModuleOf[q]) /\ k = <<ModuleOf[q], n>>
    BY SurfaceIs
  <2> HIDE DEF S
  <2> QED  BY <2>1
<1> HIDE DEF S, T, SA, TA
<1>3. ASSUME NEW p \in DOMAIN ModuleOf, NEW k \in DOMAIN SA(p)
      PROVE  /\ k \in DOMAIN S /\ (k \in DOMAIN TA(p) <=> k \in DOMAIN T)
             /\ k \in DOMAIN T => Broken(SA(p)[k], TA(p)[k]) = Broken(S[k], T[k])
  BY <1>1, AlikeBreaks
<1>4. \A p : b \in BreaksSince(SA(p), TA(p)) <=>
         \E k \in DOMAIN SA(p) :
            IF k \in DOMAIN TA(p) THEN \E x \in Broken(SA(p)[k], TA(p)[k]) : b = <<k, x>>
            ELSE b = <<k, NoMember>>
  BY BreakIs
<1>5. b \in BreaksSince(S, T) <=>
         \E k \in DOMAIN S : IF k \in DOMAIN T THEN \E x \in Broken(S[k], T[k]) : b = <<k, x>>
                             ELSE b = <<k, NoMember>>
  BY BreakIs
<1>6. ASSUME b \in BreaksSince(S, T)
      PROVE  \E p \in DOMAIN ModuleOf : b \in BreaksSince(SA(p), TA(p))
  <2>1. PICK k \in DOMAIN S : IF k \in DOMAIN T THEN \E x \in Broken(S[k], T[k]) : b = <<k, x>>
                              ELSE b = <<k, NoMember>>
    BY <1>5, <1>6
  <2>2. PICK p \in DOMAIN ModuleOf : k[1] = ModuleOf[p]
    BY <1>2
  <2>3. k \in DOMAIN SA(p)
    BY <2>2, <1>1
  <2> QED  BY <2>1, <2>3, <1>3, <1>4
<1>7. ASSUME NEW p \in DOMAIN ModuleOf, b \in BreaksSince(SA(p), TA(p))
      PROVE  b \in BreaksSince(S, T)
  <2>1. PICK k \in DOMAIN SA(p) :
           IF k \in DOMAIN TA(p) THEN \E x \in Broken(SA(p)[k], TA(p)[k]) : b = <<k, x>>
           ELSE b = <<k, NoMember>>
    BY <1>4, <1>7
  <2> QED  BY <2>1, <1>3, <1>5
<1> QED  BY <1>6, <1>7 DEF S, T, SA, TA, BreaksAt

\* Nothing is broken in what did not change.
LEMMA NothingBroken ==
    ASSUME NEW p, NEW at
    PROVE  BreaksAt(p, at, at) = {}
<1> DEFINE S == SurfaceAt(p, at)
<1>1. ASSUME NEW b, b \in BreaksSince(S, S)  PROVE FALSE
  <2> HIDE DEF S
  <2>1. PICK k \in DOMAIN S : IF k \in DOMAIN S THEN \E x \in Broken(S[k], S[k]) : b = <<k, x>>
                              ELSE b = <<k, NoMember>>
    BY <1>1, BreakIs
  <2> QED  BY <2>1, SameIsWhole
<1> QED  BY <1>1 DEF BreaksAt

----------------------------------------------------------------------------
\* What a changelog that goes on from another, or is merged of two, says.

LEMMA SaidIs ==
    ASSUME NEW log \in Seq(SECTIONS)
    PROVE  /\ \A e : e \in Said(log) <=> \E k \in 1..Len(log) : e \in ToSet(FromBottom(log, k).entries)
           /\ Said(log) \subseteq ENTRIES
<1>1. \A e : e \in Said(log) <=> \E i \in 1..Len(log) : e \in ToSet(log[i].entries)
  BY DEF Said
<1>2. \A k \in 1..Len(log) : Len(log) + 1 - k \in 1..Len(log) /\ FromBottom(log, k) = log[Len(log) + 1 - k]
  BY DEF FromBottom
<1>3. \A i \in 1..Len(log) : Len(log) + 1 - i \in 1..Len(log)
                             /\ FromBottom(log, Len(log) + 1 - i) = log[i]
  <2> SUFFICES ASSUME NEW i \in 1..Len(log)
               PROVE  /\ Len(log) + 1 - i \in 1..Len(log)
                      /\ FromBottom(log, Len(log) + 1 - i) = log[i]
    OBVIOUS
  <2>1. Len(log) + 1 - (Len(log) + 1 - i) = i
    OBVIOUS
  <2> QED  BY <2>1 DEF FromBottom
<1>4. \A k \in 1..Len(log) : ToSet(FromBottom(log, k).entries) \subseteq ENTRIES
  <2> SUFFICES ASSUME NEW k \in 1..Len(log), NEW e \in ToSet(FromBottom(log, k).entries)
               PROVE  e \in ENTRIES
    OBVIOUS
  <2>1. FromBottom(log, k).entries \in Seq(ENTRIES)
    BY BottomOf
  <2> DEFINE seq == FromBottom(log, k).entries
  <2> HIDE DEF seq
  <2> QED  BY <2>1 DEF seq, ToSet
<1>5. \A e : e \in Said(log) <=> \E k \in 1..Len(log) : e \in ToSet(FromBottom(log, k).entries)
  BY <1>1, <1>2, <1>3
<1> QED  BY <1>4, <1>5

LEMMA SaidGoesOn ==
    ASSUME NEW old \in Seq(SECTIONS), NEW log \in Seq(SECTIONS), GoesOn(old, log)
    PROVE  Said(old) \subseteq Said(log)
<1> SUFFICES ASSUME NEW e \in Said(old)  PROVE e \in Said(log)
  OBVIOUS
<1>1. PICK k \in 1..Len(old) : e \in ToSet(FromBottom(old, k).entries)
  BY SaidIs
<1>2. e \in ToSet(FromBottom(log, k).entries)
  BY <1>1, EntriesStay
<1>3. k \in 1..Len(log)
  BY DEF GoesOn
<1> QED  BY <1>2, <1>3, SaidIs

\* A branch that is no release adds to what main says what it says itself.
LEMMA MergedSaid ==
    ASSUME NEW ours \in Seq(SECTIONS), NEW theirs \in Seq(SECTIONS), NEW merged \in Seq(SECTIONS),
           NEW n, n = Len(theirs), GoesOn(ours, merged), n <= Len(ours),
           Gathers(ours, theirs, merged, n), OnTop(ours, merged, n)
    PROVE  Said(ours) \cup Said(theirs) = Said(merged)
<1>1. Said(ours) \subseteq Said(merged)
  BY SaidGoesOn
<1>2. n \in Nat /\ Len(ours) \in Nat /\ Len(merged) \in Nat /\ Len(ours) <= Len(merged)
  BY DEF GoesOn
<1>3. ASSUME NEW e \in Said(theirs)  PROVE e \in Said(merged)
  <2>1. PICK k \in 1..n : e \in ToSet(FromBottom(theirs, k).entries)
    BY SaidIs
  <2>2. e \in ToSet(FromBottom(merged, k).entries) /\ k \in 1..Len(merged)
    BY <1>2, <2>1 DEF Gathers
  <2> QED  BY <2>2, SaidIs
<1>4. ASSUME NEW e \in Said(merged)  PROVE e \in Said(ours) \cup Said(theirs)
  <2>1. PICK k \in 1..Len(merged) : e \in ToSet(FromBottom(merged, k).entries)
    BY SaidIs
  <2>2. CASE k > n
    <3>1. k \in 1..Len(ours) /\ e \in ToSet(FromBottom(ours, k).entries)
      BY <2>1, <2>2 DEF OnTop
    <3> QED  BY <3>1, SaidIs
  <2>3. CASE ~(k > n)
    <3>1. k \in 1..n /\ k \in 1..Len(ours) /\ k \in 1..Len(theirs)
      BY <2>3, <1>2
    <3>2. e \in ToSet(FromBottom(ours, k).entries) \cup ToSet(FromBottom(theirs, k).entries)
      BY <2>1, <3>1 DEF Gathers
    <3> QED  BY <3>1, <3>2, SaidIs
  <2> QED  BY <2>2, <2>3
<1> QED  BY <1>1, <1>3, <1>4

----------------------------------------------------------------------------
\* What becomes of a source file.

LEMMA MergedSource ==
    ASSUME NEW base, NEW ours, NEW theirs, Merges(base, ours, theirs), NEW p, p # CHANGELOG,
           NEW merged, merged = Merge(base, ours, theirs)
    PROVE  \/ At(theirs, p) \in {At(ours, p), At(base, p)} /\ At(merged, p) = At(ours, p)
           \/ At(ours, p) = At(base, p) /\ At(merged, p) = At(theirs, p)
<1> DEFINE of == MergeFile(p, base, ours, theirs)
           both == DOMAIN ours \cup DOMAIN theirs
<1>1. p \in both => of # Conflict
  BY DEF Merges
<1>2. /\ DOMAIN merged = {q \in both : MergeFile(q, base, ours, theirs) # <<>>}
      /\ p \in DOMAIN merged => merged[p] = of[1]
  BY DEF Merge
<1>3. of \in {At(ours, p), At(theirs, p), Conflict}
  BY DEF MergeFile
<1>4. p \notin both => At(ours, p) = <<>> /\ At(theirs, p) = <<>>
  BY DEF At
<1>5. of # Conflict => At(merged, p) = of
  <2> SUFFICES ASSUME of # Conflict  PROVE At(merged, p) = of
    OBVIOUS
  <2>1. of = <<>> \/ \E x : of = <<x>>
    BY <1>3 DEF At
  <2>2. p \notin both => of = <<>>
    BY <1>3, <1>4
  <2> HIDE DEF of, both
  <2>3. CASE of = <<>>
    <3>1. p \notin DOMAIN merged
      BY <1>2, <2>3 DEF of
    <3> QED  BY <3>1, <2>3 DEF At
  <2>4. CASE \E x : of = <<x>>
    <3>1. of # <<>> /\ of = <<of[1]>>
      BY <2>4
    <3>2. p \in DOMAIN merged
      BY <3>1, <1>2, <2>2 DEF of
    <3> QED  BY <3>1, <3>2, <1>2 DEF At
  <2> QED  BY <2>1, <2>3, <2>4
<1>6. CASE of = Conflict
  BY <1>1, <1>4, <1>6 DEF MergeFile, Conflict
<1>7. CASE of # Conflict
  BY <1>5, <1>7 DEF MergeFile
<1> QED  BY <1>6, <1>7

LEMMA ContributedSource ==
    ASSUME NEW c, NEW n, NEW p, p \notin CHANGELOG_FILES, NEW head, head = Contribute(c, n)
    PROVE  At(head, p) = IF p \in DOMAIN c.edits THEN <<c.edits[p].to>> ELSE At(mainTree, p)
<1> DEFINE u == Unreleased(mainTree[CHANGELOG])
           entries == [i \in DOMAIN c.entries |-> [c.entries[i] EXCEPT !.fields = <<CITATION, n>>]]
           recorded == [mainTree EXCEPT ![CHANGELOG][u].entries = @ \o entries,
                                        ![DEPRECATIONS] =
                                            SelectSeq(@, LAMBDA r : r \notin c.gone) \o c.rows]
<1>1. head = [q \in DOMAIN mainTree \cup DOMAIN c.edits |->
                 IF q \in DOMAIN c.edits THEN c.edits[q].to ELSE recorded[q]]
  BY DEF Contribute
<1>2. p \in DOMAIN mainTree => recorded[p] = mainTree[p]
  BY DEF CHANGELOG_FILES
<1> HIDE DEF recorded
<1> QED  BY <1>1, <1>2 DEF At

LEMMA CutSource ==
    ASSUME NEW version, NEW p, p \notin CHANGELOG_FILES \cup VERSION_FILES,
           NEW head, head = Cut(version)
    PROVE  At(head, p) = At(mainTree, p)
<1>1. DOMAIN head = DOMAIN mainTree /\ (p \in DOMAIN mainTree => head[p] = mainTree[p])
  BY DEF Cut, CHANGELOG_FILES, VERSION_FILES
<1> QED  BY <1>1 DEF At

----------------------------------------------------------------------------
\* What the contract step of lint passes.

\* What is known of a symbol of main, or of a branch that left it.
Sound(sym) ==
    /\ Parses(sym) /\ Shaped(sym) /\ ~sym.deprecated
    /\ \A e \in ENTRIES : NamesMembers(e, sym)
HoldsWhatIsHeld(tree) == \A p \in DOMAIN ModuleOf : At(tree, p) \in Held(p)

LEMMA OneEach == ASSUME EditsAreAccountedFor PROVE OneModuleEach
BY DEF EditsAreAccountedFor, OneModuleEach

\* A citation leaves the subject of an entry alone.
LEMMA EntriesName ==
    ASSUME EditsAreAccountedFor, NEW sym,
           \A e \in Said(Start[CHANGELOG]) \cup CONTRIBUTED : NamesMembers(e, sym)
    PROVE  \A e \in ENTRIES : NamesMembers(e, sym)
<1> SUFFICES ASSUME NEW e \in ENTRIES  PROVE NamesMembers(e, sym)
  OBVIOUS
<1>1. CASE e \in STARTED
  <2>1. STARTED \subseteq Said(Start[CHANGELOG])
    BY DEF STARTED, Said, ToSet
  <2> QED  BY <1>1, <2>1
<1>2. CASE e \in CITED
  <2>1. PICK d \in CONTRIBUTED : e \in Citing(d)
    BY <1>2 DEF CITED
  <2>2. "subject" \in DOMAIN d
    BY DEF EditsAreAccountedFor, CONTRIBUTED
  <2>3. PICK n : e = [d EXCEPT !.fields = <<CITATION, n>>]
    BY <2>1 DEF Citing
  <2>4. e.subject = d.subject
    BY <2>2, <2>3
  <2> QED  BY <2>1, <2>4 DEF NamesMembers
<1> QED  BY <1>1, <1>2 DEF ENTRIES

LEMMA SymbolsAreSound ==
    ASSUME EditsAreAccountedFor, NEW tree, HoldsWhatIsHeld(tree), NEW k \in DOMAIN SurfaceOf(tree)
    PROVE  Sound(SurfaceOf(tree)[k]) /\ SurfaceOf(tree)[k].name = k[2]
<1> DEFINE S == SurfaceOf(tree)
<1>1. OneModuleEach
  BY OneEach
<1>2. PICK p \in DOMAIN ModuleOf : k[1] = ModuleOf[p]
  <2>1. PICK q \in DOMAIN tree \cap DOMAIN ModuleOf : \E n \in Defines(tree[q]) :
           ModulePublic(ModuleOf[q]) /\ k = <<ModuleOf[q], n>>
    BY <1>1, SurfaceIs
  <2> QED  BY <2>1
<1> DEFINE L == SurfaceAt(p, At(tree, p))
<1>3. k \in DOMAIN L /\ Alike(L[k], S[k]) /\ Shaped(S[k]) /\ S[k].name = k[2]
  <2>1. /\ \A j : j \in DOMAIN L <=> j \in DOMAIN S /\ j[1] = ModuleOf[p]
        /\ \A j \in DOMAIN L : Alike(L[j], S[j]) /\ Shaped(S[j]) /\ S[j].name = j[2]
    BY <1>1, LocalSurface
  <2> HIDE DEF L, S
  <2>2. k \in DOMAIN S
    BY DEF S
  <2> QED  BY <1>2, <2>1, <2>2
<1>4. At(tree, p) \in Held(p)
  BY DEF HoldsWhatIsHeld
<1>5. /\ Parses(L[k]) /\ ~L[k].deprecated
      /\ \A e \in Said(Start[CHANGELOG]) \cup CONTRIBUTED : NamesMembers(e, L[k])
  BY <1>3, <1>4 DEF EditsAreAccountedFor, CONTRIBUTED
<1> HIDE DEF L, S
<1>6. /\ Parses(S[k]) /\ ~S[k].deprecated
      /\ \A e \in Said(Start[CHANGELOG]) \cup CONTRIBUTED : NamesMembers(e, S[k])
  <2>1. S[k].deprecated = L[k].deprecated
    BY <1>3, AlikeTraits
  <2> QED  BY <2>1, <1>3, <1>5, AlikeOtherwise
<1>7. \A e \in ENTRIES : NamesMembers(e, S[k])
  BY <1>6, EntriesName
<1> QED  BY <1>3, <1>6, <1>7 DEF Sound, S

\* An entry that names a change as the rule asks, when nothing is deprecated as a whole.
NamedBy(e, change) ==
    /\ e.subsection \in UNKNOWN /\ change.name \in Tokens(e.subject)
    /\ \/ change.member = NoMember
       \/ change.member \in Tokens(e.subject)
       \/ change.param # NoMember /\ change.param \in Tokens(e.subject)

LEMMA CoveredIsNamed ==
    ASSUME NEW changes, NEW log, NEW register, NEW head,
           Uncovered(changes, log, register, head) = {}, Unreleased(log) \in DOMAIN log,
           \A k \in DOMAIN head : ~head[k].deprecated, NEW c \in changes, Asks(c)
    PROVE  \E e \in Said(log) : NamedBy(e, c)
<1> DEFINE at == Defining(c, head)
           aliases == IF at = {} THEN {c.path} ELSE UNION {head[k].paths : k \in at}
           row == \E k \in at : DeprecatedWithRow(head[k], c, register)
           classWide == row /\ \E k \in at : head[k].deprecated
           needs == IF row THEN c.needs \cup {DEPRECATED} ELSE c.needs
           entries == ToSet(UnreleasedEntries(log))
<1>1. \E e \in entries :
         /\ ~Placeholder(e) /\ e.package = c.package /\ e.subsection \in needs
         /\ \/ NamesChange(e.subject, c, aliases, TRUE)
            \/ /\ classWide /\ e.subsection = DEPRECATED
               /\ NamesChange(e.subject, Whole(c), aliases, TRUE)
  BY DEF Uncovered, Asks
<1>2. at \subseteq DOMAIN head /\ ~classWide
  BY DEF Defining
<1>3. needs \subseteq UNKNOWN
  BY DEF Asks, UNKNOWN, ANNOUNCED
<1>4. entries \subseteq Said(log)
  <2>1. entries = ToSet(log[Unreleased(log)].entries) \/ entries = {}
    BY DEF UnreleasedEntries, ToSet
  <2> QED  BY <2>1 DEF Said
<1> HIDE DEF aliases, classWide, needs, entries
<1>5. PICK e \in entries : e.subsection \in needs /\ NamesChange(e.subject, c, aliases, TRUE)
  BY <1>1, <1>2
<1>6. NamedBy(e, c)
  BY <1>3, <1>5 DEF NamedBy, NamesChange
<1> QED  BY <1>4, <1>6

LEMMA LintTells ==
    ASSUME NEW old, NEW new, NEW log \in Seq(SECTIONS), NEW register,
           CheckChangelog(old, new, log, register) = {}, Unreleased(log) \in DOMAIN log,
           \A k \in DOMAIN old : Sound(old[k]) /\ old[k].name = k[2],
           \A k \in DOMAIN new : Sound(new[k]) /\ new[k].name = k[2],
           NEW b \in BreaksSince(old, new)
    PROVE  RecordedIn(log, b)
<1>1. Uncovered(Diff(old, new), log, register, new) = {}
  BY DEF CheckChangelog, Problem
<1>2. \A k \in DOMAIN new : ~new[k].deprecated
  BY DEF Sound
<1>3. \A c \in Diff(old, new) : Asks(c) => \E e \in Said(log) : NamedBy(e, c)
  BY <1>1, <1>2, CoveredIsNamed
<1>4. Said(log) \subseteq ENTRIES
  BY SaidIs
<1>5. PICK k \in DOMAIN old :
         IF k \in DOMAIN new THEN \E x \in Broken(old[k], new[k]) : b = <<k, x>>
         ELSE b = <<k, NoMember>>
  BY BreakIs
<1>6. CASE k \notin DOMAIN new
  <2> DEFINE c == Change("removed-member", old[k], NoMember, NoMember, "callable", "", "")
  <2>1. c \in Diff(old, new)
    BY <1>6 DEF Diff
  <2>2. c.needs \in Strong /\ c.name = k[2] /\ c.member = NoMember
    <3>1. Needs("removed-member", "callable", "", "") \in Strong
      BY NeedsAre
    <3>2. c.needs = Needs("removed-member", "callable", "", "") /\ c.name = old[k].name
          /\ c.member = NoMember
      BY DEF c, Change
    <3> QED  BY <3>1, <3>2
  <2> HIDE DEF c
  <2>3. PICK e \in Said(log) : NamedBy(e, c)
    BY <1>3, <2>1, <2>2, KindsOfNeeds
  <2>4. Tells(e, b)
    BY <1>5, <1>6, <2>2, <2>3 DEF Tells, NamedBy
  <2> QED  BY <2>4 DEF RecordedIn
<1>7. CASE k \in DOMAIN new
  <2> DEFINE was == old[k]
             is == new[k]
  <2>1. PICK x \in Broken(was, is) : b = <<k, x>>
    BY <1>5, <1>7
  <2>2. /\ Sound(was) /\ Sound(is) /\ was.name = k[2] /\ is.name = k[2]
    BY <1>7
  <2>3. DiffSymbol(was, is) \subseteq Diff(old, new)
    BY <1>7 DEF Diff
  <2> HIDE DEF was, is
  <2>4. PICK c \in DiffSymbol(was, is) : AsksFor(c, was, is, x)
    BY <2>2, DiffFindsBreaks DEF Finds, Sound
  <2>5. PICK e \in Said(log) : NamedBy(e, c)
    BY <1>3, <2>3, <2>4 DEF AsksFor
  <2>6. /\ e.subsection \in UNKNOWN /\ k[2] \in Tokens(e.subject)
        /\ \/ x = NoMember
           \/ x \in Tokens(e.subject)
           \/ \E n \in ParamNames(was, x) \cup ParamNames(is, x) : n \in Tokens(e.subject)
    BY <2>2, <2>4, <2>5 DEF AsksFor, NamedBy
  <2>7. NamesMembers(e, was) /\ NamesMembers(e, is)
    BY <1>4, <2>2 DEF Sound
  <2>8. x = NoMember \/ x \in Tokens(e.subject)
    BY <2>2, <2>6, <2>7 DEF NamesMembers, ParamNames
  <2> QED  BY <2>1, <2>6, <2>8 DEF Tells, RecordedIn
<1> QED  BY <1>6, <1>7

\* What lint passes says of every file what it breaks, in the changelog that the merge
\* has.
LEMMA LintPasses ==
    ASSUME EditsAreAccountedFor, NEW base, NEW head, ContractJob(base, head) = "success",
           NEW merged, merged = Merge(base, mainTree, head),
           NEW s \in 0..Len(Releases), TreeOf(merged, s),
           HoldsWhatIsHeld(mainTree), HoldsWhatIsHeld(merged)
    PROVE  /\ Merges(base, mainTree, head)
           /\ \A p \in DOMAIN ModuleOf : \A b \in BreaksAt(p, At(mainTree, p), At(merged, p)) :
                 RecordedIn(merged[CHANGELOG], b)
<1> DEFINE old == SurfaceOf(mainTree)
           new == SurfaceOf(merged)
           log == merged[CHANGELOG]
<1>1. /\ Merges(base, mainTree, head)
      /\ CheckChangelog(old, new, log, merged[DEPRECATIONS]) = {}
  BY DEF ContractJob
<1>2. log \in Seq(SECTIONS) /\ Unreleased(log) \in DOMAIN log
  BY UnreleasedFirst DEF TreeOf, LogOf
<1>3. /\ \A k \in DOMAIN old : Sound(old[k]) /\ old[k].name = k[2]
      /\ \A k \in DOMAIN new : Sound(new[k]) /\ new[k].name = k[2]
  BY SymbolsAreSound
<1>4. ASSUME NEW p \in DOMAIN ModuleOf, NEW b \in BreaksAt(p, At(mainTree, p), At(merged, p))
      PROVE  b \in BreaksSince(old, new)
  BY BreaksByPath, OneEach
<1> HIDE DEF old, new, log
<1>5. \A b \in BreaksSince(old, new) : RecordedIn(log, b)
  BY <1>1, <1>2, <1>3, LintTells
<1> QED  BY <1>1, <1>4, <1>5 DEF log

----------------------------------------------------------------------------
\* What is broken is told.

\* All that main broke since a tree that it was.
KeptUp(tree, main) ==
    \A p \in DOMAIN ModuleOf :
       /\ At(tree, p) \in Held(p)
       /\ \A b \in BreaksAt(p, At(tree, p), At(main, p)) : RecordedIn(main[CHANGELOG], b)

\* A branch has made at most one edit of each file, and a release none.
EditsOnly(pr) ==
    \A p \in DOMAIN ModuleOf :
       \/ At(pr.head, p) = At(pr.base, p)
       \/ /\ ~IsRelease(pr)
          /\ \E c \in Contributions : /\ p \in DOMAIN c.edits
                                      /\ At(pr.base, p) = c.edits[p].from
                                      /\ At(pr.head, p) = <<c.edits[p].to>>

\* What a branch breaks is told by main, or by what the branch brings.
Announces(pr, main) ==
    \A p \in DOMAIN ModuleOf : \A b \in BreaksAt(p, At(pr.base, p), At(pr.head, p)) :
       RecordedIn(main[CHANGELOG], b) \/ RecordedIn(pr.head[CHANGELOG], b)

Accounted(pr, main) ==
    /\ KeptUp(pr.base, main)
    /\ EditsOnly(pr)
    /\ pr.lint = "success" => Announces(pr, main)
RecInv ==
    /\ LogInv
    /\ HoldsWhatIsHeld(mainTree)
    /\ KeptUp(Start, mainTree)
    /\ \A s \in Open : Accounted(prs[s], mainTree)

LEMMA SourcesApart ==
    ASSUME EditsAreAccountedFor, NEW p \in DOMAIN ModuleOf
    PROVE  p \notin CHANGELOG_FILES \cup VERSION_FILES /\ p # CHANGELOG
BY DEF EditsAreAccountedFor, CHANGELOG_FILES

LEMMA KeptUpWithItself ==
    ASSUME NEW tree, HoldsWhatIsHeld(tree)
    PROVE  KeptUp(tree, tree)
BY NothingBroken DEF KeptUp, HoldsWhatIsHeld

\* The merge of a branch that is no release says what main and the branch say.
LEMMA MergedSays ==
    ASSUME LogInv, NEW pr, NEW sb \in 0..shipped, BranchFrom(pr, sb, mainTree, shipped),
           ~IsRelease(pr), NEW merged, merged = Merge(pr.base, mainTree, pr.head),
           Merges(pr.base, mainTree, pr.head)
    PROVE  /\ TreeOf(merged, shipped)
           /\ Said(merged[CHANGELOG]) = Said(mainTree[CHANGELOG]) \cup Said(pr.head[CHANGELOG])
<1> DEFINE b == pr.base[CHANGELOG]
           o == mainTree[CHANGELOG]
           t == pr.head[CHANGELOG]
           m == merged[CHANGELOG]
<1>1. /\ TreeOf(pr.base, sb) /\ TreeOf(mainTree, shipped) /\ TreeOf(pr.head, sb)
      /\ GoesOn(b, o) /\ GoesOn(b, t)
  BY MainStays DEF BranchFrom
<1>2. shipped \in 0..Len(Releases) /\ sb \in 0..Len(Releases) /\ Len(Releases) \in Nat
  BY MainStays, AtStart
<1>3. TreeOf(merged, shipped) /\ GoesOn(o, m) /\ Gathers(o, t, m, Len(b)) /\ OnTop(o, m, Len(b))
  BY <1>1, <1>2, MergedTree
<1>4. /\ o \in Seq(SECTIONS) /\ t \in Seq(SECTIONS) /\ m \in Seq(SECTIONS)
      /\ Len(b) = Len(t) /\ Len(b) <= Len(o)
  BY <1>1, <1>3 DEF TreeOf, LogOf, GoesOn
<1> HIDE DEF b, o, t, m
<1>5. Said(o) \cup Said(t) = Said(m)
  BY <1>3, <1>4, MergedSaid
<1> QED  BY <1>3, <1>5 DEF o, t, m

\* A file in the merge of a branch: that of main, or the edit of a branch that left
\* main with the file that it has.
LEMMA MergedEdit ==
    ASSUME EditsAreAccountedFor, NEW pr, EditsOnly(pr), NEW main,
           NEW merged, merged = Merge(pr.base, main, pr.head),
           Merges(pr.base, main, pr.head), NEW p \in DOMAIN ModuleOf
    PROVE  \/ At(merged, p) = At(main, p)
           \/ /\ ~IsRelease(pr) /\ At(main, p) = At(pr.base, p) /\ At(merged, p) = At(pr.head, p)
              /\ \E c \in Contributions : /\ p \in DOMAIN c.edits
                                          /\ At(main, p) = c.edits[p].from
                                          /\ At(merged, p) = <<c.edits[p].to>>
<1>1. \/ At(merged, p) = At(main, p)
      \/ At(main, p) = At(pr.base, p) /\ At(merged, p) = At(pr.head, p)
  BY MergedSource, SourcesApart
<1> QED  BY <1>1 DEF EditsOnly

LEMMA MergedHolds ==
    ASSUME EditsAreAccountedFor, NEW pr, EditsOnly(pr), NEW main, HoldsWhatIsHeld(main),
           NEW merged, merged = Merge(pr.base, main, pr.head),
           Merges(pr.base, main, pr.head)
    PROVE  HoldsWhatIsHeld(merged)
<1> SUFFICES ASSUME NEW p \in DOMAIN ModuleOf  PROVE At(merged, p) \in Held(p)
  BY DEF HoldsWhatIsHeld
<1>1. At(main, p) \in Held(p)
  BY DEF HoldsWhatIsHeld
<1>2. \A c \in Contributions : p \in DOMAIN c.edits => <<c.edits[p].to>> \in Held(p)
  BY DEF Held
<1> QED  BY <1>1, <1>2, MergedEdit

\* What a branch breaks of its base is told when lint passes it: it breaks the same of
\* main, or main has it broken already.
LEMMA LintAnnounces ==
    ASSUME EditsAreAccountedFor, LogInv, HoldsWhatIsHeld(mainTree), NEW pr,
           NEW sb \in 0..shipped, BranchFrom(pr, sb, mainTree, shipped),
           KeptUp(pr.base, mainTree), EditsOnly(pr),
           ContractJob(pr.base, pr.head) = "success"
    PROVE  Announces(pr, mainTree)
<1> DEFINE merged == Merge(pr.base, mainTree, pr.head)
<1> SUFFICES ASSUME NEW p \in DOMAIN ModuleOf,
                    NEW b \in BreaksAt(p, At(pr.base, p), At(pr.head, p))
             PROVE  RecordedIn(mainTree[CHANGELOG], b) \/ RecordedIn(pr.head[CHANGELOG], b)
  BY DEF Announces
<1>1. At(pr.head, p) # At(pr.base, p)
  BY NothingBroken
<1>2. ~IsRelease(pr)
  BY <1>1 DEF EditsOnly
<1>3. Merges(pr.base, mainTree, pr.head)
  BY DEF ContractJob
<1>4. /\ TreeOf(merged, shipped)
      /\ Said(merged[CHANGELOG]) = Said(mainTree[CHANGELOG]) \cup Said(pr.head[CHANGELOG])
  BY <1>2, <1>3, MergedSays
<1>5. HoldsWhatIsHeld(merged)
  BY <1>3, MergedHolds
<1>6. shipped \in 0..Len(Releases)
  BY MainStays
<1>7. \A x \in BreaksAt(p, At(mainTree, p), At(merged, p)) : RecordedIn(merged[CHANGELOG], x)
  BY <1>4, <1>5, <1>6, LintPasses
<1>8. \/ At(pr.head, p) = At(mainTree, p)
      \/ At(mainTree, p) = At(pr.base, p) /\ At(merged, p) = At(pr.head, p)
  BY <1>1, <1>3, MergedSource, SourcesApart
<1> HIDE DEF merged
<1>9. CASE At(pr.head, p) = At(mainTree, p)
  BY <1>9 DEF KeptUp
<1>10. CASE At(mainTree, p) = At(pr.base, p) /\ At(merged, p) = At(pr.head, p)
  <2>1. RecordedIn(merged[CHANGELOG], b)
    BY <1>7, <1>10
  <2> QED  BY <2>1, <1>4 DEF RecordedIn
<1> QED  BY <1>8, <1>9, <1>10

\* A step that puts one record in one slot, judged anew.
LEMMA OneJudged ==
    ASSUME EditsAreAccountedFor, RecInv, LogInv', UNCHANGED <<mainTree, shipped>>,
           NEW s \in Slots, NEW pr, prs' = [prs EXCEPT ![s] = pr], pr.open,
           KeptUp(pr.base, mainTree), EditsOnly(pr), pr.lint = ContractJob(pr.base, pr.head)
    PROVE  RecInv'
<1>1. prs'[s] = pr /\ \A t \in Slots : t # s => prs'[t] = prs[t]
  BY DEF RecInv, LogInv, KeptInv
<1>2. s \in Open' /\ Open' \subseteq Slots /\ \A t \in Open' : t # s => t \in Open
  BY <1>1 DEF Open
<1>3. Branch(pr, mainTree, numbers', shipped)
  BY <1>1, <1>2 DEF LogInv
<1>4. PICK sb \in 0..shipped : BranchFrom(pr, sb, mainTree, shipped)
  BY <1>3 DEF Branch
<1>5. pr.lint = "success" => Announces(pr, mainTree)
  BY <1>4, LintAnnounces DEF RecInv
<1>6. Accounted(pr, mainTree)
  BY <1>5 DEF Accounted
<1>7. \A t \in Open' : Accounted(prs'[t], mainTree)
  BY <1>1, <1>2, <1>6 DEF RecInv
<1> QED  BY <1>7 DEF RecInv

\* A step that leaves every branch that stays open as it is, but for its verdict.
LEMMA OthersStay ==
    ASSUME RecInv, LogInv', UNCHANGED mainTree,
           \A t \in Open' : /\ t \in Open
                            /\ \A f \in {"title", "base", "head", "lint"} : prs'[t][f] = prs[t][f]
    PROVE  RecInv'
<1>1. ASSUME NEW t \in Open'  PROVE Accounted(prs'[t], mainTree)
  <2>1. /\ prs'[t].title = prs[t].title /\ prs'[t].base = prs[t].base
        /\ prs'[t].head = prs[t].head /\ prs'[t].lint = prs[t].lint
    OBVIOUS
  <2>2. Accounted(prs[t], mainTree)
    BY DEF RecInv
  <2> QED  BY <2>1, <2>2 DEF Accounted, EditsOnly, Announces, IsRelease
<1> QED  BY <1>1 DEF RecInv

LEMMA OpenPrAccounts ==
    ASSUME EditsAreAccountedFor, RecInv, LogInv', OpenPr
    PROVE  RecInv'
<1>1. PICK s \in Slots \ Open, c \in Contributions :
         /\ AppliesTo(c, mainTree)
         /\ prs' = [prs EXCEPT ![s] = Pushed(c.title, c.author, numbers + 1, mainTree,
                                             Contribute(c, numbers + 1))]
  BY DEF OpenPr
<1> DEFINE head == Contribute(c, numbers + 1)
           pr == Pushed(c.title, c.author, numbers + 1, mainTree, head)
<1>2. /\ pr.open /\ pr.base = mainTree /\ pr.head = head /\ pr.title = c.title
      /\ pr.lint = ContractJob(pr.base, pr.head)
  BY DEF Pushed
<1>3. \A p \in DOMAIN ModuleOf :
         At(head, p) = IF p \in DOMAIN c.edits THEN <<c.edits[p].to>> ELSE At(mainTree, p)
  BY SourcesApart, ContributedSource
<1>4. ~IsRelease(pr)
  BY <1>2, RepositoryAssumption DEF IsRelease
<1> HIDE DEF pr, head
<1>5. EditsOnly(pr)
  BY <1>1, <1>2, <1>3, <1>4 DEF EditsOnly, AppliesTo
<1>6. KeptUp(pr.base, mainTree)
  BY <1>2, KeptUpWithItself DEF RecInv
<1>7. prs' = [prs EXCEPT ![s] = pr] /\ UNCHANGED <<mainTree, shipped>>
  BY <1>1 DEF OpenPr, pr, head
<1> QED  BY <1>2, <1>5, <1>6, <1>7, OneJudged

LEMMA OpenReleaseAccounts ==
    ASSUME EditsAreAccountedFor, RecInv, LogInv', OpenRelease
    PROVE  RecInv'
<1> DEFINE version == Releases[shipped + 1]
           head == Cut(version)
           pr == Pushed([prefix |-> "release", rest |-> version], "mia", numbers + 1, mainTree, head)
<1>1. PICK s \in Slots \ Open : prs' = [prs EXCEPT ![s] = pr]
  BY DEF OpenRelease
<1>2. /\ pr.open /\ pr.base = mainTree /\ pr.head = head
      /\ pr.lint = ContractJob(pr.base, pr.head)
  BY DEF Pushed
<1>3. \A p \in DOMAIN ModuleOf : At(head, p) = At(mainTree, p)
  BY SourcesApart, CutSource
<1>4. UNCHANGED <<mainTree, shipped>>
  BY DEF OpenRelease
<1> HIDE DEF pr, head
<1>5. EditsOnly(pr)
  BY <1>2, <1>3 DEF EditsOnly
<1>6. KeptUp(pr.base, mainTree)
  BY <1>2, KeptUpWithItself DEF RecInv
<1> QED  BY <1>1, <1>2, <1>4, <1>5, <1>6, OneJudged

\* A branch that merges main in has main's files and its own edits.
LEMMA PushAccounts ==
    ASSUME EditsAreAccountedFor, RecInv, LogInv', Push
    PROVE  RecInv'
<1>1. PICK s \in Open :
         \/ prs' = [prs EXCEPT ![s] = Pushed(prs[s].title, prs[s].author, prs[s].number,
                                             prs[s].base, prs[s].head)]
         \/ /\ Merges(prs[s].base, mainTree, prs[s].head)
            /\ prs' = [prs EXCEPT ![s] =
                          Pushed(prs[s].title, prs[s].author, prs[s].number, mainTree,
                                 Merge(prs[s].base, mainTree, prs[s].head))]
  BY DEF Push
<1>2. UNCHANGED <<mainTree, shipped>> /\ s \in Slots
  BY DEF Push, Open
<1> DEFINE old == prs[s]
<1>3. KeptUp(old.base, mainTree) /\ EditsOnly(old)
  BY DEF RecInv, Accounted
<1>4. CASE prs' = [prs EXCEPT ![s] = Pushed(old.title, old.author, old.number, old.base, old.head)]
  <2> DEFINE pr == Pushed(old.title, old.author, old.number, old.base, old.head)
  <2>1. /\ pr.open /\ pr.title = old.title /\ pr.base = old.base /\ pr.head = old.head
        /\ pr.lint = ContractJob(pr.base, pr.head)
    BY DEF Pushed
  <2> HIDE DEF pr, old
  <2>2. KeptUp(pr.base, mainTree) /\ EditsOnly(pr)
    BY <1>3, <2>1 DEF EditsOnly, IsRelease
  <2> QED  BY <1>2, <1>4, <2>1, <2>2, OneJudged DEF pr
<1>5. CASE /\ Merges(old.base, mainTree, old.head)
           /\ prs' = [prs EXCEPT ![s] = Pushed(old.title, old.author, old.number, mainTree,
                                               Merge(old.base, mainTree, old.head))]
  <2> DEFINE merged == Merge(old.base, mainTree, old.head)
             pr == Pushed(old.title, old.author, old.number, mainTree, merged)
  <2>1. /\ pr.open /\ pr.title = old.title /\ pr.base = mainTree /\ pr.head = merged
        /\ pr.lint = ContractJob(pr.base, pr.head)
    BY DEF Pushed
  <2> HIDE DEF pr, old
  <2>2. \A p \in DOMAIN ModuleOf :
           \/ At(merged, p) = At(mainTree, p)
           \/ ~IsRelease(old) /\ \E c \in Contributions : /\ p \in DOMAIN c.edits
                                                          /\ At(mainTree, p) = c.edits[p].from
                                                          /\ At(merged, p) = <<c.edits[p].to>>
    BY <1>3, <1>5, MergedEdit
  <2> HIDE DEF merged
  <2>3. EditsOnly(pr)
    BY <2>1, <2>2 DEF EditsOnly, IsRelease
  <2>4. KeptUp(pr.base, mainTree)
    BY <2>1, KeptUpWithItself DEF RecInv
  <2> QED  BY <1>2, <1>5, <2>1, <2>3, <2>4, OneJudged DEF pr, merged
<1> QED  BY <1>1, <1>4, <1>5

\* Main as a branch makes it: what was broken before it landed was told, and what it
\* breaks was told when lint passed it, on whatever main.
LEMMA LandedKeepsUp ==
    ASSUME EditsAreAccountedFor, RecInv, NEW s \in Open, prs[s].lint = "success",
           Merges(prs[s].base, mainTree, prs[s].head),
           NEW merged, merged = Merge(prs[s].base, mainTree, prs[s].head),
           NEW tree, KeptUp(tree, mainTree)
    PROVE  KeptUp(tree, merged)
<1> DEFINE pr == prs[s]
           was == mainTree[CHANGELOG]
           is == merged[CHANGELOG]
<1>1. LogInv /\ EditsOnly(pr) /\ Announces(pr, mainTree)
  BY DEF RecInv, Accounted
<1>2. PICK sb \in 0..shipped : BranchFrom(pr, sb, mainTree, shipped)
  BY <1>1 DEF LogInv, Branch
<1>3. Said(was) \subseteq Said(is)
  <2>1. /\ TreeOf(merged, IF IsRelease(pr) THEN shipped + 1 ELSE shipped)
        /\ GoesOn(was, is) /\ TreeOf(mainTree, shipped)
    BY <1>1, MergedBranch, MainStays
  <2> QED  BY <2>1, SaidGoesOn DEF TreeOf, LogOf
<1>4. ~IsRelease(pr) => Said(pr.head[CHANGELOG]) \subseteq Said(is)
  <2> SUFFICES ASSUME ~IsRelease(pr)  PROVE Said(pr.head[CHANGELOG]) \subseteq Said(is)
    OBVIOUS
  <2> HIDE DEF pr
  <2>1. Merges(pr.base, mainTree, pr.head) /\ merged = Merge(pr.base, mainTree, pr.head)
    BY DEF pr
  <2> QED  BY <1>1, <1>2, <2>1, MergedSays
<1> HIDE DEF was, is
<1> SUFFICES ASSUME NEW p \in DOMAIN ModuleOf, NEW b \in BreaksAt(p, At(tree, p), At(merged, p))
             PROVE  RecordedIn(is, b)
  BY DEF KeptUp, is
<1>5. At(tree, p) \in Held(p) /\ \A x \in BreaksAt(p, At(tree, p), At(mainTree, p)) : RecordedIn(was, x)
  BY DEF KeptUp, was
<1>6. \A x : RecordedIn(was, x) => RecordedIn(is, x)
  BY <1>3 DEF RecordedIn
<1>7. \/ At(merged, p) = At(mainTree, p)
      \/ /\ ~IsRelease(pr) /\ At(mainTree, p) = At(pr.base, p) /\ At(merged, p) = At(pr.head, p)
         /\ \E c \in Contributions : /\ p \in DOMAIN c.edits
                                     /\ At(mainTree, p) = c.edits[p].from
                                     /\ At(merged, p) = <<c.edits[p].to>>
  BY <1>1, MergedEdit
<1>8. CASE At(merged, p) = At(mainTree, p)
  BY <1>5, <1>6, <1>8
<1>9. CASE /\ ~IsRelease(pr) /\ At(mainTree, p) = At(pr.base, p) /\ At(merged, p) = At(pr.head, p)
           /\ \E c \in Contributions : /\ p \in DOMAIN c.edits
                                       /\ At(mainTree, p) = c.edits[p].from
                                       /\ At(merged, p) = <<c.edits[p].to>>
  <2>1. BreaksAt(p, At(tree, p), At(merged, p))
           \subseteq BreaksAt(p, At(tree, p), At(mainTree, p))
                        \cup BreaksAt(p, At(mainTree, p), At(merged, p))
    <3>1. PICK c \in Contributions : /\ p \in DOMAIN c.edits
                                     /\ At(mainTree, p) = c.edits[p].from
                                     /\ At(merged, p) = <<c.edits[p].to>>
      BY <1>9
    <3>2. BreaksAt(p, At(tree, p), <<c.edits[p].to>>)
             \subseteq BreaksAt(p, At(tree, p), c.edits[p].from)
                          \cup BreaksAt(p, c.edits[p].from, <<c.edits[p].to>>)
      BY <1>5, <3>1 DEF EditsAreAccountedFor
    <3> QED  BY <3>1, <3>2
  <2>2. CASE b \in BreaksAt(p, At(tree, p), At(mainTree, p))
    BY <2>2, <1>5, <1>6
  <2>3. CASE b \in BreaksAt(p, At(mainTree, p), At(merged, p))
    <3>1. b \in BreaksAt(p, At(pr.base, p), At(pr.head, p))
      BY <2>3, <1>9
    <3>2. RecordedIn(was, b) \/ RecordedIn(pr.head[CHANGELOG], b)
      BY <1>1, <3>1 DEF Announces, was
    <3> QED  BY <3>2, <1>4, <1>6, <1>9 DEF RecordedIn
  <2> QED  BY <2>1, <2>2, <2>3
<1> QED  BY <1>7, <1>8, <1>9

LEMMA LandAccounts ==
    ASSUME EditsAreAccountedFor, RecInv, LogInv', Land
    PROVE  RecInv'
<1>1. PICK s \in Open :
         /\ prs[s].lint = "success" /\ Merges(prs[s].base, mainTree, prs[s].head)
         /\ mainTree' = Merge(prs[s].base, mainTree, prs[s].head)
         /\ prs' = [prs EXCEPT ![s] = NoPr]
  BY DEF Land
<1>2. \A tree : KeptUp(tree, mainTree) => KeptUp(tree, mainTree')
  BY <1>1, LandedKeepsUp
<1>3. HoldsWhatIsHeld(mainTree')
  BY <1>1, MergedHolds DEF RecInv, Accounted
<1>4. \A t \in Open' : t \in Open /\ prs'[t] = prs[t]
  BY <1>1 DEF RecInv, LogInv, KeptInv, Open, NoPr
<1>5. \A x : RecordedIn(mainTree[CHANGELOG], x) => RecordedIn(mainTree'[CHANGELOG], x)
  <2>1. mainTree[CHANGELOG] \in Seq(SECTIONS) /\ mainTree'[CHANGELOG] \in Seq(SECTIONS)
    BY DEF RecInv, LogInv, MainOf, TreeOf, LogOf
  <2>2. GoesOn(mainTree[CHANGELOG], mainTree'[CHANGELOG])
    BY LandKeepsLog DEF RecInv
  <2>3. Said(mainTree[CHANGELOG]) \subseteq Said(mainTree'[CHANGELOG])
    BY <2>1, <2>2, SaidGoesOn
  <2> QED  BY <2>3 DEF RecordedIn
<1>6. ASSUME NEW t \in Open'  PROVE Accounted(prs[t], mainTree')
  <2>1. Accounted(prs[t], mainTree)
    BY <1>4 DEF RecInv
  <2>2. KeptUp(prs[t].base, mainTree') /\ EditsOnly(prs[t])
    BY <1>2, <2>1 DEF Accounted
  <2>3. Announces(prs[t], mainTree) => Announces(prs[t], mainTree')
    BY <1>5 DEF Announces
  <2> QED  BY <2>1, <2>2, <2>3 DEF Accounted
<1>7. KeptUp(Start, mainTree')
  BY <1>2 DEF RecInv
<1> QED  BY <1>3, <1>4, <1>6, <1>7 DEF RecInv

LEMMA RecNext ==
    ASSUME EditsAreAccountedFor
    PROVE  RecInv /\ [Next]_vars => RecInv'
<1> SUFFICES ASSUME RecInv, [Next]_vars  PROVE RecInv'
  OBVIOUS
<1>1. LogInv' /\ KeptInv
  BY LogNext DEF RecInv, LogInv
<1>2. CASE OpenPr
  BY <1>1, <1>2, OpenPrAccounts
<1>3. CASE OpenRelease
  BY <1>1, <1>3, OpenReleaseAccounts
<1>4. CASE HygieneJob
  <2>1. PICK s \in Open : \E pr : JudgedAs(s, pr)
    BY <1>1, <1>4, Judged
  <2>2. PICK pr : JudgedAs(s, pr)
    BY <2>1
  <2>3. prs' = [prs EXCEPT ![s] = pr] /\ \A f \in FIELDS \ {"hygiene"} : pr[f] = prs[s][f]
    BY <2>2 DEF JudgedAs
  <2>4. /\ pr.open = prs[s].open
        /\ \A f \in {"title", "base", "head", "lint"} : pr[f] = prs[s][f]
    BY <2>3 DEF FIELDS
  <2>5. \A t \in Open' : /\ t \in Open
                         /\ \A f \in {"title", "base", "head", "lint"} : prs'[t][f] = prs[t][f]
    BY <1>1, <2>3, <2>4 DEF Open, KeptInv
  <2>6. UNCHANGED mainTree
    BY <1>4 DEF HygieneJob
  <2> QED  BY <1>1, <2>5, <2>6, OthersStay
<1>5. CASE Push
  BY <1>1, <1>5, PushAccounts
<1>6. CASE Land
  BY <1>1, <1>6, LandAccounts
<1>7. CASE Close
  <2>1. \A t \in Open' : t \in Open /\ prs'[t] = prs[t]
    BY <1>1, <1>7 DEF Close, Open, KeptInv, NoPr
  <2> QED  BY <1>1, <1>7, <2>1, OthersStay DEF Close
<1>8. CASE UNCHANGED vars
  <2>1. Open' = Open /\ prs' = prs /\ UNCHANGED mainTree
    BY <1>8 DEF vars, Open
  <2> QED  BY <1>1, <2>1, OthersStay
<1> QED  BY <1>2, <1>3, <1>4, <1>5, <1>6, <1>7, <1>8 DEF Next

\* Whatever lands in whatever order, judged on whatever main: of all that no longer
\* works as in the surface of the start, an entry of main's changelog tells, as long as
\* nothing that was taken away comes back in another form and nothing is deprecated as a
\* whole (EditsAreAccountedFor). contract_surface.py compares neighbours only: a branch
\* with main at its push, whatever main is when it lands.
THEOREM BreaksAreRecordedCorrect ==
    ASSUME EditsAreAccountedFor
    PROVE  Spec => []BreaksAreRecorded
<1>1. Init => RecInv
  <2> SUFFICES ASSUME Init  PROVE RecInv
    OBVIOUS
  <2>1. LogInv
    BY LogInvAtStart
  <2>2. mainTree = Start /\ Open = {}
    BY DEF Init, Open, NoPr
  <2>3. HoldsWhatIsHeld(Start)
    BY DEF HoldsWhatIsHeld, Held
  <2> QED  BY <2>1, <2>2, <2>3, KeptUpWithItself DEF RecInv
<1>2. RecInv /\ [Next]_vars => RecInv'
  BY RecNext
<1>3. RecInv => BreaksAreRecorded
  <2> SUFFICES ASSUME RecInv, NEW b \in BreaksSince(SurfaceOf(Start), SurfaceOf(mainTree))
               PROVE  RecordedIn(mainTree[CHANGELOG], b)
    BY DEF BreaksAreRecorded
  <2>1. PICK p \in DOMAIN ModuleOf : b \in BreaksAt(p, At(Start, p), At(mainTree, p))
    BY BreaksByPath, OneEach
  <2> QED  BY <2>1 DEF RecInv, KeptUp
<1> QED  BY <1>1, <1>2, <1>3, PTL DEF Spec

----------------------------------------------------------------------------
\* When it is enough to compare neighbours.

\* What two signatures have in common, one between them has too, and it takes no
\* arguments that it does not name.
Between(old, mid, new) ==
    /\ Names(old) \cap Names(new) \subseteq Names(mid)
    /\ \A p \in ToSet(mid) : ~Variadic(p)

LEMMA CountOfPositional ==
    ASSUME NEW sig, IsSignature(sig.params)
    PROVE  Cardinality(Positional(sig.params)) \in Nat
<1>1. sig.params \in Seq(ToSet(sig.params))
  BY DEF IsSignature, Distinct
<1>2. Len(sig.params) \in Nat /\ Positional(sig.params) \in SUBSET (1..Len(sig.params))
  BY <1>1 DEF Positional
<1> QED  BY <1>2, RankIs

LEMMA NamedCalls ==
    ASSUME NEW sig, \A p \in ToSet(sig.params) : ~Variadic(p), NEW n \in Nat, NEW K,
           Legal(sig, n, K), Cardinality(Positional(sig.params)) \in Nat
    PROVE  n \in 0..Cardinality(Positional(sig.params)) /\ K \in SUBSET Names(sig.params)
<1> DEFINE byName == {p.name : p \in {q \in ToSet(sig.params) :
                                         q.kind \in {"positional", "keyword-only"}}}
<1>1. \A p \in ToSet(sig.params) : p.kind # "var-positional" /\ p.kind # "var-keyword"
  BY DEF Variadic
<1>2. n <= Cardinality(Positional(sig.params)) /\ K \subseteq byName
  BY <1>1 DEF Legal
<1>3. byName \subseteq Names(sig.params)
  BY DEF Names
<1> QED  BY <1>2, <1>3

LEMMA CallsAddUp ==
    ASSUME NEW old, NEW mid, NEW new, Between(old.params, mid.params, new.params),
           Cardinality(Positional(old.params)) \in Nat, Cardinality(Positional(mid.params)) \in Nat,
           ~CallsBreak(old, mid), ~CallsBreak(mid, new)
    PROVE  ~CallsBreak(old, new)
<1> SUFFICES ASSUME NEW n \in 0..Cardinality(Positional(old.params)),
                    NEW K \in SUBSET Names(old.params), Legal(old, n, K)
             PROVE  /\ Legal(new, n, K)
                    /\ \A x \in Names(old.params) \cap Names(new.params) :
                          Place(old, n, K, x) = Place(new, n, K, x)
  BY DEF CallsBreak
<1>1. /\ Legal(mid, n, K)
      /\ \A x \in Names(old.params) \cap Names(mid.params) :
            Place(old, n, K, x) = Place(mid, n, K, x)
  BY DEF CallsBreak
<1>2. n \in 0..Cardinality(Positional(mid.params)) /\ K \in SUBSET Names(mid.params)
  BY <1>1, NamedCalls DEF Between
<1>3. /\ Legal(new, n, K)
      /\ \A x \in Names(mid.params) \cap Names(new.params) :
            Place(mid, n, K, x) = Place(new, n, K, x)
  BY <1>1, <1>2 DEF CallsBreak
<1> QED  BY <1>1, <1>3 DEF Between

LEMMA AcceptsAddsUp ==
    ASSUME NEW a, NEW b, NEW c, Accepts(a, b), Accepts(b, c)
    PROVE  Accepts(a, c)
BY DEF Accepts

LEMMA SignaturesAddUp ==
    ASSUME NEW old, NEW mid, NEW new,
           IsSignature(old.params), IsSignature(mid.params), IsSignature(new.params),
           Between(old.params, mid.params, new.params)
    PROVE  /\ BreaksCallers(old, new) => BreaksCallers(old, mid) \/ BreaksCallers(mid, new)
           /\ BreaksDrivers(old, new) => BreaksDrivers(old, mid) \/ BreaksDrivers(mid, new)
<1>1. \A sig : IsSignature(sig.params) => Cardinality(Positional(sig.params)) \in Nat
  BY CountOfPositional
<1>2. Between(new.params, mid.params, old.params)
  BY DEF Between
<1>3. BreaksCallers(old, new) => BreaksCallers(old, mid) \/ BreaksCallers(mid, new)
  <2> SUFFICES ASSUME ~BreaksCallers(old, mid), ~BreaksCallers(mid, new)
               PROVE  ~BreaksCallers(old, new)
    OBVIOUS
  <2>1. old.kind = new.kind
    BY DEF BreaksCallers
  <2>2. ~CallsBreak(old, new)
    BY <1>1, CallsAddUp DEF BreaksCallers
  <2>3. ASSUME NEW x \in Names(old.params) \cap Names(new.params)
        PROVE  Accepts(Named(new.params, x).annotation, Named(old.params, x).annotation)
    <3>1. x \in Names(mid.params)
      BY DEF Between
    <3>2. /\ Accepts(Named(mid.params, x).annotation, Named(old.params, x).annotation)
          /\ Accepts(Named(new.params, x).annotation, Named(mid.params, x).annotation)
      BY <3>1 DEF BreaksCallers
    <3> QED  BY <3>2, AcceptsAddsUp
  <2>4. Accepts(old.returns, new.returns)
    BY AcceptsAddsUp DEF BreaksCallers
  <2> QED  BY <2>1, <2>2, <2>3, <2>4 DEF BreaksCallers
<1>4. BreaksDrivers(old, new) => BreaksDrivers(old, mid) \/ BreaksDrivers(mid, new)
  BY <1>1, <1>2, CallsAddUp, AcceptsAddsUp DEF BreaksDrivers
<1> QED  BY <1>3, <1>4

\* What an old symbol and a new one have in common, the one between them has too.
NeverAway(old, mid, new) ==
    /\ mid.kind \in {old.kind, new.kind}
    /\ \A m \in DOMAIN old.members \cap DOMAIN mid.members \cap DOMAIN new.members :
          Between(old.members[m].params, mid.members[m].params, new.members[m].params)
    /\ {old.kind, mid.kind, new.kind} = {"function"} =>
          Between(old.function[1].params, mid.function[1].params, new.function[1].params)
    /\ Names(old.fields) \cap Names(new.fields) \subseteq Names(mid.fields)

WholeBroken(old, new) ==
    \/ old.kind # new.kind
    \/ old.kind = "function" /\ BreaksCallers(old.function[1], new.function[1])
    \/ old.kind \in RECORDS /\ CallsBreak(Constructor(old), Constructor(new))
    \/ new.frozen /\ ~old.frozen
    \/ \E m \in DOMAIN old.enum : m \notin DOMAIN new.enum \/ old.enum[m] # new.enum[m]
MemberBroken(old, new, x) ==
    \/ BreaksCallers(old.members[x], new.members[x])
    \/ {old.kind, new.kind} = {"protocol"} /\ BreaksDrivers(old.members[x], new.members[x])

LEMMA BrokenIs ==
    ASSUME NEW old, NEW new, NEW x
    PROVE  x \in Broken(old, new) <=>
              \/ WholeBroken(old, new) /\ x = NoMember
              \/ x \in DOMAIN old.members \ DOMAIN new.members
              \/ x \in DOMAIN old.members \cap DOMAIN new.members /\ MemberBroken(old, new, x)
<1> DEFINE kept == DOMAIN old.members \cap DOMAIN new.members
           G == {m \in kept : BreaksCallers(old.members[m], new.members[m])}
           H == {m \in kept : BreaksDrivers(old.members[m], new.members[m])}
           W == IF WholeBroken(old, new) THEN {NoMember} ELSE {}
           R == IF {old.kind, new.kind} # {"protocol"} THEN {} ELSE H
<1>1. Broken(old, new) = W \cup (DOMAIN old.members \ DOMAIN new.members) \cup G \cup R
  BY DEF Broken, WholeBroken
<1>2. x \in kept => (x \in G \cup R <=> MemberBroken(old, new, x))
  BY DEF MemberBroken
<1>3. x \notin kept => x \notin G \cup R
  OBVIOUS
<1>4. x \in W <=> WholeBroken(old, new) /\ x = NoMember
  OBVIOUS
<1> HIDE DEF W, G, R
<1> QED  BY <1>1, <1>2, <1>3, <1>4

LEMMA ConstructorsAddUp ==
    ASSUME NEW old, NEW mid, NEW new, Distinct(old.fields), Distinct(mid.fields), Distinct(new.fields),
           Names(old.fields) \cap Names(new.fields) \subseteq Names(mid.fields),
           CallsBreak(Constructor(old), Constructor(new))
    PROVE  CallsBreak(Constructor(old), Constructor(mid))
           \/ CallsBreak(Constructor(mid), Constructor(new))
<1> DEFINE a == Constructor(old)
           b == Constructor(mid)
           c == Constructor(new)
<1>1. /\ Names(a.params) = Names(old.fields) /\ Names(b.params) = Names(mid.fields)
      /\ Names(c.params) = Names(new.fields) /\ \A p \in ToSet(b.params) : ~Variadic(p)
      /\ IsSignature(a.params) /\ IsSignature(b.params)
  BY ConstructorIs
<1> HIDE DEF a, b, c
<1>2. Between(a.params, b.params, c.params)
  BY <1>1 DEF Between
<1>3. Cardinality(Positional(a.params)) \in Nat /\ Cardinality(Positional(b.params)) \in Nat
  BY <1>1, CountOfPositional
<1>4. CallsBreak(a, c)
  BY DEF a, c
<1>5. CallsBreak(a, b) \/ CallsBreak(b, c)
  BY <1>2, <1>3, <1>4, CallsAddUp
<1> QED  BY <1>5 DEF a, b, c

LEMMA WholeAddsUp ==
    ASSUME NEW old, NEW mid, NEW new, Parses(old), Parses(mid), Parses(new),
           Shaped(old), Shaped(mid), Shaped(new), NeverAway(old, mid, new), WholeBroken(old, new)
    PROVE  WholeBroken(old, mid) \/ WholeBroken(mid, new)
<1>1. CASE old.kind # mid.kind \/ mid.kind # new.kind
  BY <1>1 DEF WholeBroken
<1>2. CASE old.kind = mid.kind /\ mid.kind = new.kind
  <2>1. CASE old.kind = "function" /\ BreaksCallers(old.function[1], new.function[1])
    <3> DEFINE f == old.function[1]
               g == mid.function[1]
               h == new.function[1]
    <3>1. f \in ToSet(old.function) /\ g \in ToSet(mid.function) /\ h \in ToSet(new.function)
      BY <1>2, <2>1 DEF Shaped, ToSet
    <3>2. IsSignature(f.params) /\ IsSignature(g.params) /\ IsSignature(h.params)
      BY <3>1 DEF Parses
    <3>3. Between(f.params, g.params, h.params)
      BY <1>2, <2>1 DEF NeverAway
    <3> HIDE DEF f, g, h
    <3>4. BreaksCallers(f, g) \/ BreaksCallers(g, h)
      BY <2>1, <3>2, <3>3, SignaturesAddUp DEF f, h
    <3> QED  BY <1>2, <2>1, <3>4 DEF WholeBroken, f, g, h
  <2>2. CASE old.kind \in RECORDS /\ CallsBreak(Constructor(old), Constructor(new))
    <3>1. \/ CallsBreak(Constructor(old), Constructor(mid))
          \/ CallsBreak(Constructor(mid), Constructor(new))
      BY <2>2, ConstructorsAddUp DEF Parses, NeverAway
    <3> QED  BY <1>2, <2>2, <3>1 DEF WholeBroken
  <2>3. CASE new.frozen /\ ~old.frozen
    BY <2>3 DEF WholeBroken
  <2>4. CASE \E m \in DOMAIN old.enum : m \notin DOMAIN new.enum \/ old.enum[m] # new.enum[m]
    BY <2>4 DEF WholeBroken
  <2> QED  BY <1>2, <2>1, <2>2, <2>3, <2>4 DEF WholeBroken
<1> QED  BY <1>1, <1>2

\* Of three versions of a symbol.
LEMMA BreaksAddUp ==
    ASSUME NEW old, NEW mid, NEW new, Parses(old), Parses(mid), Parses(new),
           Shaped(old), Shaped(mid), Shaped(new), NeverAway(old, mid, new)
    PROVE  Broken(old, new) \subseteq Broken(old, mid) \cup Broken(mid, new)
<1> SUFFICES ASSUME NEW x \in Broken(old, new)
             PROVE  x \in Broken(old, mid) \/ x \in Broken(mid, new)
  OBVIOUS
<1> DEFINE a == DOMAIN old.members
           b == DOMAIN mid.members
           c == DOMAIN new.members
<1>1. \/ WholeBroken(old, new) /\ x = NoMember
      \/ x \in a \ c
      \/ x \in a \cap c /\ MemberBroken(old, new, x)
  BY BrokenIs
<1>2. CASE WholeBroken(old, new) /\ x = NoMember
  BY <1>2, WholeAddsUp, BrokenIs
<1>3. CASE x \in a \ c
  BY <1>3, BrokenIs
<1>4. CASE x \in a \cap c /\ MemberBroken(old, new, x)
  <2>1. CASE x \notin b
    BY <1>4, <2>1, BrokenIs
  <2>2. CASE x \in b
    <3> DEFINE f == old.members[x]
               g == mid.members[x]
               h == new.members[x]
    <3>1. /\ IsSignature(f.params) /\ IsSignature(g.params) /\ IsSignature(h.params)
          /\ Between(f.params, g.params, h.params)
      BY <1>4, <2>2 DEF Parses, NeverAway
    <3> HIDE DEF f, g, h
    <3>2. /\ BreaksCallers(f, h) => BreaksCallers(f, g) \/ BreaksCallers(g, h)
          /\ BreaksDrivers(f, h) => BreaksDrivers(f, g) \/ BreaksDrivers(g, h)
      BY <3>1, SignaturesAddUp
    <3>3. {old.kind, new.kind} = {"protocol"} =>
             {old.kind, mid.kind} = {"protocol"} /\ {mid.kind, new.kind} = {"protocol"}
      BY DEF NeverAway
    <3>4. MemberBroken(old, mid, x) \/ MemberBroken(mid, new, x)
      BY <1>4, <3>2, <3>3 DEF MemberBroken, f, g, h
    <3> QED  BY <1>4, <2>2, <3>4, BrokenIs
  <2> QED  BY <2>1, <2>2
<1> QED  BY <1>1, <1>2, <1>3, <1>4

\* Of three surfaces, what the last breaks of the first is broken between neighbours,
\* which is all that contract_surface.py compares: as long as no symbol, kind, member,
\* parameter or field is away in the middle one and back in the last, and the middle one
\* takes no arguments that it does not name.
THEOREM SurfacesAddUp ==
    ASSUME NEW start, NEW mid, NEW now,
           \A S \in {start, mid, now} : \A k \in DOMAIN S : Parses(S[k]) /\ Shaped(S[k]),
           \A k \in DOMAIN start \cap DOMAIN now :
              k \in DOMAIN mid /\ NeverAway(start[k], mid[k], now[k])
    PROVE  BreaksSince(start, now) \subseteq BreaksSince(start, mid) \cup BreaksSince(mid, now)
<1> SUFFICES ASSUME NEW b \in BreaksSince(start, now)
             PROVE  b \in BreaksSince(start, mid) \/ b \in BreaksSince(mid, now)
  OBVIOUS
<1>1. PICK k \in DOMAIN start :
         IF k \in DOMAIN now THEN \E x \in Broken(start[k], now[k]) : b = <<k, x>>
         ELSE b = <<k, NoMember>>
  BY BreakIs
<1>2. CASE k \in DOMAIN now
  <2>1. PICK x \in Broken(start[k], now[k]) : b = <<k, x>>
    BY <1>1, <1>2
  <2>2. k \in DOMAIN mid /\ NeverAway(start[k], mid[k], now[k])
    BY <1>2
  <2>3. /\ Parses(start[k]) /\ Shaped(start[k]) /\ Parses(mid[k]) /\ Shaped(mid[k])
        /\ Parses(now[k]) /\ Shaped(now[k])
    BY <1>2, <2>2
  <2>4. x \in Broken(start[k], mid[k]) \/ x \in Broken(mid[k], now[k])
    BY <2>2, <2>3, BreaksAddUp
  <2> QED  BY <1>2, <2>1, <2>2, <2>4, BreakIs
<1>3. CASE k \notin DOMAIN now
  <2>1. CASE k \in DOMAIN mid
    BY <1>1, <1>3, <2>1, BreakIs
  <2>2. CASE k \notin DOMAIN mid
    BY <1>1, <1>3, <2>2, BreakIs
  <2> QED  BY <2>1, <2>2
<1> QED  BY <1>2, <1>3
====
