---- MODULE PullRequestProofs ----
(***************************************************************************)
(* The jobs around one pull request, for any titles, contents, people and  *)
(* checks, and any number of pushes, edits, comments and gate runs.        *)
(***************************************************************************)
EXTENDS PullRequest, FiniteSetTheorems, SequenceTheorems, TLAPS

States == {"in progress", "success", "failure", "cancelled"}
Commit == [content : DOMAIN Contents, by : People]

CommitsInv ==
    /\ commits \in Seq(Commit) /\ Newest \in 1..MaxHead
    /\ title \in Titles /\ draft \in BOOLEAN /\ fork \in BOOLEAN
ReviewInv == review \in Seq(Statuses) /\ Len(review) = Newest
RunsInv == runs \in Seq([REQUIRED_CHECKS -> Seq(States)]) /\ Len(runs) = Newest

\* The run that waits, if any, is one on the head.
QueueInv == queued = {} \/ \E k \in Nat : queued = {[sha |-> Newest, run |-> k]}

\* The run under way, and if none waits it is on the head too, and goes by the
\* title that the pull request still has.
HygieneInv ==
    /\ \/ hygiene = NoRun
       \/ hygiene \in [pc : {"start", "set"}, sha : 1..Newest, run : Nat]
       \/ hygiene \in [pc : {"files"}, sha : 1..Newest, run : Nat, title : Titles]
       \/ hygiene \in [pc : {"status", "retract"}, sha : 1..Newest, run : Nat, success : BOOLEAN]
    /\ queued = {} /\ hygiene.pc # "idle" => hygiene.sha = Newest
    /\ queued = {} /\ hygiene.pc = "files" => hygiene.title = title

\* What a gate run has read or decided.
OfItsHead(r) ==
    /\ r.sha \in 1..Newest
    /\ r.sha = Newest => r.reviewers = ReviewersFor(Pr(r.title, commits[r.sha].content))
GateInv(g) ==
    \/ g.pc = "start"
    \/ g.pc = "checks" /\ g.sha \in 1..Newest
    \/ g.pc \in {"post", "dispatch"} /\ DOMAIN g = {"pc", "request"} /\ OfItsHead(g.request)
GatesInv ==
    /\ IsFiniteSet(gates) /\ Cardinality(gates) <= MaxGates
    /\ \A g \in gates : GateInv(g)
    /\ \A r \in asked : OfItsHead(r)

PlaceInv == CommitsInv /\ ReviewInv /\ RunsInv /\ QueueInv /\ HygieneInv /\ GatesInv

----------------------------------------------------------------------------
\* The parts that several actions share.

LEMMA AnotherRun ==
    ASSUME NEW before \in Seq(States)
    PROVE  Append(before, "in progress") \in Seq(States) /\ Len(before) + 1 \in Nat
<1>1. "in progress" \in States
  BY DEF States
<1>2. Append(before, "in progress") \in Seq(States)
  BY <1>1, AppendProperties
<1>3. Len(before) + 1 \in Nat
  BY LenProperties
<1> QED  BY <1>2, <1>3, Zenon

LEMMA TriggerKeeps ==
    ASSUME NEW states \in Seq([REQUIRED_CHECKS -> Seq(States)]), NEW h \in 1..Len(states),
           Trigger(states, h)
    PROVE  /\ runs' \in Seq([REQUIRED_CHECKS -> Seq(States)]) /\ Len(runs') = Len(states)
           /\ \E k \in Nat : queued' = {[sha |-> h, run |-> k]}
<1> DEFINE before == states[h]["hygiene"]
           after == [states[h] EXCEPT !["hygiene"] = Append(before, "in progress")]
<1>1. states[h] \in [REQUIRED_CHECKS -> Seq(States)]
  BY ElementOfSeq
<1>2. before \in Seq(States)
  BY <1>1, HygieneAssumption
<1>3. Append(before, "in progress") \in Seq(States) /\ Len(before) + 1 \in Nat
  BY <1>2, AnotherRun
<1>4. after \in [REQUIRED_CHECKS -> Seq(States)]
  BY <1>1, <1>3
<1>5. runs' = [states EXCEPT ![h] = after] /\ queued' = {[sha |-> h, run |-> Len(before) + 1]}
  BY DEF Trigger
<1> HIDE DEF before, after
<1>6. runs' \in Seq([REQUIRED_CHECKS -> Seq(States)]) /\ Len(runs') = Len(states)
  BY <1>4, <1>5, ExceptSeq
<1> QED  BY <1>3, <1>5, <1>6

LEMMA StateOfKeeps ==
    ASSUME NEW states \in Seq([REQUIRED_CHECKS -> Seq(States)]), NEW q,
           q.sha \in 1..Len(states), NEW to \in States
    PROVE  /\ StateOf(states, q, to) \in Seq([REQUIRED_CHECKS -> Seq(States)])
           /\ Len(StateOf(states, q, to)) = Len(states)
<1> DEFINE before == states[q.sha]["hygiene"]
           one == [before EXCEPT ![q.run] = to]
           after == [states[q.sha] EXCEPT !["hygiene"] = one]
<1>1. states[q.sha] \in [REQUIRED_CHECKS -> Seq(States)]
  BY ElementOfSeq
<1>2. before \in Seq(States)
  BY <1>1, HygieneAssumption
<1>3. one \in Seq(States)
  <2>1. CASE q.run \in 1..Len(before)
    BY <1>2, <2>1, ExceptSeq
  <2>2. CASE q.run \notin 1..Len(before)
    <3>1. one = before
      BY <1>2, <2>2, LenProperties
    <3> QED  BY <1>2, <3>1
  <2> QED  BY <2>1, <2>2
<1>4. after \in [REQUIRED_CHECKS -> Seq(States)]
  BY <1>1, <1>3
<1>5. StateOf(states, q, to) = [states EXCEPT ![q.sha] = after]
  BY DEF StateOf
<1> HIDE DEF before, one, after
<1> QED  BY <1>4, <1>5, ExceptSeq

LEMMA CancelledKeeps ==
    ASSUME RunsInv, QueueInv, CommitsInv
    PROVE  /\ Cancelled(runs) \in Seq([REQUIRED_CHECKS -> Seq(States)])
           /\ Len(Cancelled(runs)) = Newest
<1>1. CASE queued = {}
  BY <1>1 DEF Cancelled, RunsInv
<1>2. CASE queued # {}
  <2> DEFINE q == CHOOSE x \in queued : TRUE
  <2>1. q.sha = Newest
    BY <1>2 DEF QueueInv
  <2>2. q.sha \in 1..Len(runs) /\ "cancelled" \in States
    <3> HIDE DEF q
    <3>1. q.sha \in 1..Len(runs)
      BY <2>1, BoundsAssumption DEF RunsInv, CommitsInv
    <3> QED  BY <3>1 DEF States
  <2>3. Cancelled(runs) = StateOf(runs, q, "cancelled")
    BY <1>2 DEF Cancelled
  <2> HIDE DEF q
  <2> QED  BY <2>2, <2>3, StateOfKeeps DEF RunsInv
<1> QED  BY <1>1, <1>2

\* Nothing that has been said of a commit is about the head that a push makes.
LEMMA OldHeads ==
    ASSUME CommitsInv, Newest' = Newest + 1, NEW r, OfItsHead(r)
    PROVE  OfItsHead(r)'
BY BoundsAssumption DEF CommitsInv, OfItsHead

LEMMA SameHead ==
    ASSUME UNCHANGED commits, NEW r, OfItsHead(r)
    PROVE  OfItsHead(r)'
BY DEF OfItsHead, Pr, Newest

LEMMA GatesStand ==
    ASSUME GatesInv, UNCHANGED <<gates, asked, commits>>
    PROVE  GatesInv'
BY DEF GatesInv, GateInv, OfItsHead, Pr, Newest

\* A gate run that becomes another.
LEMMA BecomesKeeps ==
    ASSUME GatesInv, NEW g \in gates, NEW h, Becomes(g, h), GateInv(h),
           UNCHANGED <<asked, commits>>, MaxGates \in Nat
    PROVE  GatesInv'
<1>1. IsFiniteSet(gates') /\ Cardinality(gates') <= Cardinality(gates)
  <2>1. /\ IsFiniteSet(gates \ {g}) /\ Cardinality(gates \ {g}) = Cardinality(gates) - 1
        /\ Cardinality(gates) \in Nat
    BY FS_RemoveElement, FS_CardinalityType DEF GatesInv
  <2>2. Cardinality(gates \ {g}) \in Nat
    BY <2>1, FS_CardinalityType
  <2> QED  BY <2>1, <2>2, FS_AddElement DEF Becomes
<1>2. Cardinality(gates') \in Nat /\ Cardinality(gates) \in Nat
  BY <1>1, FS_CardinalityType DEF GatesInv
<1>3. \A x \in gates' : x \in gates \/ x = h
  BY DEF Becomes
<1>4. Newest' = Newest
  BY DEF Newest
<1>5. \A x \in gates' : GateInv(x)'
  BY <1>3, <1>4 DEF GatesInv, GateInv, OfItsHead, Pr
<1>6. \A r \in asked' : OfItsHead(r)'
  BY <1>4 DEF GatesInv, OfItsHead, Pr
<1>7. Cardinality(gates') <= MaxGates
  BY <1>1, <1>2 DEF GatesInv
<1> QED  BY <1>1, <1>5, <1>6, <1>7 DEF GatesInv

LEMMA GateEnds ==
    ASSUME GatesInv, NEW g \in gates, gates' = gates \ {g}, UNCHANGED commits,
           \A r \in asked' : OfItsHead(r), MaxGates \in Nat
    PROVE  GatesInv'
<1>1. IsFiniteSet(gates') /\ Cardinality(gates') <= MaxGates
  <2>1. Cardinality(gates) \in Nat /\ Cardinality(gates') = Cardinality(gates) - 1
    BY FS_RemoveElement, FS_CardinalityType DEF GatesInv
  <2> QED  BY <2>1, FS_RemoveElement DEF GatesInv
<1>2. Newest' = Newest
  BY DEF Newest
<1> QED  BY <1>1, <1>2 DEF GatesInv, GateInv, OfItsHead, Pr

LEMMA GateBegins ==
    ASSUME GatesInv, Cardinality(gates) < MaxGates, MaxGates \in Nat,
           NEW g, g.pc = "start", gates' = gates \cup {g}
    PROVE  /\ IsFiniteSet(gates') /\ Cardinality(gates') <= MaxGates
           /\ \A x \in gates' : x \in gates \/ x.pc = "start"
<1>1. Cardinality(gates) \in Nat
  BY FS_CardinalityType DEF GatesInv
<1> QED  BY <1>1, FS_AddElement DEF GatesInv

----------------------------------------------------------------------------
\* What happens to the pull request.

LEMMA EventKeeps ==
    ASSUME PlaceInv, title' \in Titles, draft' \in BOOLEAN, Trigger(Cancelled(runs), Newest),
           UNCHANGED <<fork, commits, review, hygiene, gates, asked>>
    PROVE  PlaceInv'
<1>1. Newest' = Newest /\ Newest \in 1..MaxHead
  BY DEF PlaceInv, CommitsInv, Newest
<1>2. /\ runs' \in Seq([REQUIRED_CHECKS -> Seq(States)]) /\ Len(runs') = Newest
      /\ \E k \in Nat : queued' = {[sha |-> Newest, run |-> k]}
  <2>1. /\ Cancelled(runs) \in Seq([REQUIRED_CHECKS -> Seq(States)])
        /\ Len(Cancelled(runs)) = Newest
    BY CancelledKeeps DEF PlaceInv
  <2>2. Newest \in 1..Len(Cancelled(runs))
    BY <1>1, <2>1, BoundsAssumption
  <2> QED  BY <2>1, <2>2, TriggerKeeps
<1>3. CommitsInv' /\ ReviewInv'
  BY <1>1 DEF PlaceInv, CommitsInv, ReviewInv
<1>4. RunsInv' /\ QueueInv'
  BY <1>1, <1>2 DEF RunsInv, QueueInv
<1>5. HygieneInv'
  <2>1. queued' # {}
    BY <1>2
  <2> QED  BY <1>1, <2>1 DEF PlaceInv, HygieneInv
<1>6. GatesInv'
  BY GatesStand DEF PlaceInv
<1> QED  BY <1>3, <1>4, <1>5, <1>6 DEF PlaceInv

LEMMA PushKeeps == ASSUME PlaceInv, Push PROVE PlaceInv'
<1> DEFINE fresh == [n \in REQUIRED_CHECKS |-> IF n = "hygiene" THEN <<>> ELSE <<"in progress">>]
           states == Append(Cancelled(runs), fresh)
<1>1. PICK c \in DOMAIN Contents, p \in Writers :
         /\ commits' = Append(commits, [content |-> c, by |-> p])
         /\ review' = Append(review, "none")
         /\ Trigger(states, Newest + 1)
         /\ IF draft \/ fork THEN UNCHANGED gates
            ELSE /\ Cardinality(gates) < MaxGates
                 /\ gates' = gates \cup {[pc |-> "start", refresh |-> TRUE, body |-> "/review",
                                          by |-> p, before |-> Newest, pushed |-> Newest + 1]}
  BY DEF Push
<1>2. /\ Newest < MaxHead /\ Newest \in 1..MaxHead /\ MaxHead \in Nat /\ MaxGates \in Nat
      /\ UNCHANGED <<title, draft, fork, hygiene, asked, edits, comments>>
  BY BoundsAssumption DEF Push, PlaceInv, CommitsInv
<1>3. CommitsInv' /\ Newest' = Newest + 1
  <2>1. [content |-> c, by |-> p] \in Commit
    BY PeopleAssumption DEF Commit
  <2>2. commits' \in Seq(Commit) /\ Newest' = Newest + 1
    BY <1>1, <2>1, AppendProperties DEF PlaceInv, CommitsInv, Newest
  <2> QED  BY <1>2, <2>2 DEF PlaceInv, CommitsInv
<1>4. ReviewInv'
  <2>1. "none" \in Statuses
    BY DEF Statuses
  <2> QED  BY <1>1, <1>3, <2>1, AppendProperties DEF PlaceInv, ReviewInv
<1>5. /\ runs' \in Seq([REQUIRED_CHECKS -> Seq(States)]) /\ Len(runs') = Newest + 1
      /\ \E k \in Nat : queued' = {[sha |-> Newest + 1, run |-> k]}
  <2>1. /\ Cancelled(runs) \in Seq([REQUIRED_CHECKS -> Seq(States)])
        /\ Len(Cancelled(runs)) = Newest
    BY CancelledKeeps DEF PlaceInv
  <2>2. fresh \in [REQUIRED_CHECKS -> Seq(States)]
    <3>1. <<>> \in Seq(States) /\ <<"in progress">> \in Seq(States)
      BY DEF States
    <3> QED  BY <3>1
  <2> HIDE DEF fresh
  <2>3. states \in Seq([REQUIRED_CHECKS -> Seq(States)]) /\ Len(states) = Newest + 1
    BY <2>1, <2>2, AppendProperties
  <2>4. Newest + 1 \in 1..Len(states)
    BY <1>2, <2>3
  <2> HIDE DEF states
  <2> QED  BY <1>1, <2>3, <2>4, TriggerKeeps
<1>6. RunsInv' /\ QueueInv'
  BY <1>3, <1>5 DEF RunsInv, QueueInv
<1>7. HygieneInv'
  <2>1. queued' # {}
    BY <1>5
  <2>2. \A h \in 1..Newest : h \in 1..Newest'
    BY <1>2, <1>3
  <2> QED  BY <1>2, <2>1, <2>2 DEF PlaceInv, HygieneInv
<1>8. GatesInv'
  <2>1. \A r : OfItsHead(r) => OfItsHead(r)'
    BY <1>3, OldHeads DEF PlaceInv
  <2>2. /\ IsFiniteSet(gates') /\ Cardinality(gates') <= MaxGates
        /\ \A x \in gates' : x \in gates \/ x.pc = "start"
    <3>1. CASE draft \/ fork
      BY <1>1, <3>1 DEF PlaceInv, GatesInv
    <3>2. CASE ~(draft \/ fork)
      BY <1>1, <1>2, <3>2, GateBegins DEF PlaceInv
    <3> QED  BY <3>1, <3>2
  <2>3. \A h \in 1..Newest : h \in 1..Newest'
    BY <1>2, <1>3
  <2>4. \A g : GateInv(g) => GateInv(g)'
    BY <2>1, <2>3 DEF GateInv
  <2> QED  BY <1>2, <2>1, <2>2, <2>4 DEF PlaceInv, GatesInv, GateInv
<1> QED  BY <1>3, <1>4, <1>6, <1>7, <1>8 DEF PlaceInv

LEMMA CommentKeeps == ASSUME PlaceInv, Comment PROVE PlaceInv'
<1>1. PICK p \in People, b \in Bodies :
         gates' = gates \cup {[pc |-> "start", refresh |-> FALSE, body |-> b, by |-> p,
                               before |-> 0, pushed |-> 0]}
  BY DEF Comment
<1>2. /\ UNCHANGED <<title, draft, fork, commits, review, runs, hygiene, queued, asked>>
      /\ Cardinality(gates) < MaxGates /\ MaxGates \in Nat
  BY BoundsAssumption DEF Comment
<1>3. /\ IsFiniteSet(gates') /\ Cardinality(gates') <= MaxGates
      /\ \A x \in gates' : x \in gates \/ x.pc = "start"
  BY <1>1, <1>2, GateBegins DEF PlaceInv
<1>4. GatesInv'
  BY <1>2, <1>3 DEF PlaceInv, GatesInv, GateInv, OfItsHead, Pr, Newest
<1> QED  BY <1>2, <1>4 DEF PlaceInv, CommitsInv, ReviewInv, RunsInv, QueueInv, HygieneInv, Newest

\* A check run that ends or is run again changes the runs only.
LEMMA RunsChange ==
    ASSUME PlaceInv, UNCHANGED <<title, draft, fork, commits, review, hygiene, queued, gates, asked>>,
           NEW h \in 1..Newest, NEW n \in REQUIRED_CHECKS, NEW s \in Seq(States),
           runs' = [runs EXCEPT ![h] = [runs[h] EXCEPT ![n] = s]]
    PROVE  PlaceInv'
<1>1. Newest' = Newest
  BY DEF Newest
<1>2. h \in 1..Len(runs) /\ runs[h] \in [REQUIRED_CHECKS -> Seq(States)]
  BY ElementOfSeq DEF PlaceInv, RunsInv
<1>3. [runs[h] EXCEPT ![n] = s] \in [REQUIRED_CHECKS -> Seq(States)]
  BY <1>2
<1>4. RunsInv'
  BY <1>1, <1>2, <1>3, ExceptSeq DEF PlaceInv, RunsInv
<1>5. GatesInv'
  BY GatesStand DEF PlaceInv
<1> QED  BY <1>1, <1>4, <1>5 DEF PlaceInv, CommitsInv, ReviewInv, QueueInv, HygieneInv

LEMMA RunsOf ==
    ASSUME RunsInv, NEW h \in 1..Newest, NEW n \in REQUIRED_CHECKS
    PROVE  runs[h][n] \in Seq(States)
<1>1. h \in 1..Len(runs)
  BY DEF RunsInv
<1>2. runs[h] \in [REQUIRED_CHECKS -> Seq(States)]
  BY <1>1, ElementOfSeq DEF RunsInv
<1> QED  BY <1>2

LEMMA CheckEndsKeeps == ASSUME PlaceInv, CheckEnds PROVE PlaceInv'
<1>1. PICK h \in 1..Newest, n \in REQUIRED_CHECKS \ {"hygiene"} :
         \E i \in DOMAIN runs[h][n], to \in {"success", "failure"} :
            runs' = [runs EXCEPT ![h][n][i] = to]
  BY DEF CheckEnds
<1>2. PICK i \in DOMAIN runs[h][n], to \in {"success", "failure"} :
         runs' = [runs EXCEPT ![h][n][i] = to]
  BY <1>1
<1>3. runs[h][n] \in Seq(States)
  BY RunsOf DEF PlaceInv
<1>4. i \in 1..Len(runs[h][n]) /\ to \in States
  BY <1>3, LenProperties DEF States
<1>5. [runs[h][n] EXCEPT ![i] = to] \in Seq(States)
  BY <1>3, <1>4, ExceptSeq
<1>6. runs' = [runs EXCEPT ![h] = [runs[h] EXCEPT ![n] = [runs[h][n] EXCEPT ![i] = to]]]
  BY <1>2
<1> QED  BY <1>5, <1>6, RunsChange DEF CheckEnds

LEMMA CheckRerunsKeeps == ASSUME PlaceInv, CheckReruns PROVE PlaceInv'
<1>1. PICK h \in 1..Newest, n \in REQUIRED_CHECKS \ {"hygiene"} :
         runs' = [runs EXCEPT ![h][n] = Append(@, "in progress")]
  BY DEF CheckReruns
<1>2. runs[h][n] \in Seq(States)
  BY RunsOf DEF PlaceInv
<1>3. Append(runs[h][n], "in progress") \in Seq(States)
  BY <1>2, AnotherRun
<1>4. runs' = [runs EXCEPT ![h] = [runs[h] EXCEPT ![n] = Append(runs[h][n], "in progress")]]
  BY <1>1
<1> QED  BY <1>3, <1>4, RunsChange DEF CheckReruns

----------------------------------------------------------------------------
\* The steps of the hygiene job.

LEMMA HygieneStartsKeeps == ASSUME PlaceInv, HygieneStarts PROVE PlaceInv'
<1>1. Newest' = Newest /\ Newest \in 1..Newest
  BY BoundsAssumption DEF HygieneStarts, Newest, PlaceInv, CommitsInv
<1>2. PICK q \in queued : hygiene' = [pc |-> "start", sha |-> q.sha, run |-> q.run]
  BY DEF HygieneStarts
<1>3. q.sha = Newest /\ q.run \in Nat
  BY DEF PlaceInv, QueueInv
<1>4. HygieneInv'
  BY <1>1, <1>2, <1>3 DEF HygieneInv
<1>5. QueueInv'
  BY DEF HygieneStarts, QueueInv
<1>6. GatesInv'
  BY GatesStand DEF PlaceInv, HygieneStarts
<1> QED  BY <1>1, <1>4, <1>5, <1>6 DEF HygieneStarts, PlaceInv, CommitsInv, ReviewInv, RunsInv

LEMMA ReadPrKeeps == ASSUME PlaceInv, ReadPr PROVE PlaceInv'
<1>1. Newest' = Newest
  BY DEF ReadPr, Newest
<1>2. hygiene.sha \in 1..Newest /\ hygiene.run \in Nat /\ title \in Titles
  BY DEF PlaceInv, HygieneInv, NoRun, ReadPr, CommitsInv
<1>3. HygieneInv'
  BY <1>1, <1>2 DEF ReadPr, Going, PlaceInv, HygieneInv
<1>4. GatesInv'
  BY GatesStand DEF PlaceInv, ReadPr
<1> QED  BY <1>1, <1>3, <1>4 DEF ReadPr, PlaceInv, CommitsInv, ReviewInv, RunsInv, QueueInv

\* A run that is over: the others stand, and so does what the review says,
\* unless it is what the run had to post.
LEMMA EndedKeeps ==
    ASSUME PlaceInv, hygiene.pc # "idle", NEW to \in States, Ended(to),
           ReviewInv', UNCHANGED <<title, draft, fork, commits, queued, gates, asked>>
    PROVE  PlaceInv'
<1>1. Newest' = Newest
  BY DEF Newest
<1>2. hygiene.sha \in 1..Len(runs)
  BY DEF PlaceInv, HygieneInv, RunsInv, NoRun
<1>3. RunsInv'
  BY <1>1, <1>2, StateOfKeeps DEF PlaceInv, RunsInv, Ended
<1>4. HygieneInv'
  BY DEF Ended, HygieneInv, NoRun
<1>5. GatesInv'
  BY GatesStand DEF PlaceInv
<1> QED  BY <1>1, <1>3, <1>4, <1>5 DEF PlaceInv, CommitsInv, QueueInv

LEMMA ReviewStands == ASSUME PlaceInv, UNCHANGED <<review, commits>> PROVE ReviewInv'
BY DEF PlaceInv, ReviewInv, Newest

\* What the rules say, as a record of two fields.
LEMMA Verdict ==
    ASSUME NEW pr, NEW main, NEW head
    PROVE  RunChecks(pr, main, head).setReview
             = (CheckKindScope(pr).setReview /\ RunChecks(pr, main, head).problems = {})
<1> DEFINE P == UNION {
               CheckTitle(pr), CheckKindScope(pr).problems, CheckChangelogTouched(pr),
               CheckChangelogEntries(pr, main, head), CheckProposalDir(pr), CheckProposal(pr, head),
               CheckDelta(pr), CheckMaintainerOpened(pr, main), CheckCharter(pr, head),
               CheckArchetype(pr, main, head), CheckRelease(pr, head), CheckGapsPointers(pr, main) }
<1>1. RunChecks(pr, main, head)
        = [problems |-> P, setReview |-> CheckKindScope(pr).setReview /\ P = {}]
  BY DEF RunChecks
<1> HIDE DEF P
<1> QED  BY <1>1

LEMMA JudgementShape ==
    ASSUME NEW j \in Judgements
    PROVE  j.success \in BOOLEAN /\ j.setReview \in BOOLEAN
<1>1. PICK x \in Titles \X (DOMAIN Contents) \X (DOMAIN Contents) :
         LET pr == Pr(x[1], x[2])
             result == RunChecks(pr, Main, Fetched(pr, Contents[x[3]].tree))
         IN j = [ title |-> x[1], files |-> x[2], from |-> x[3], setReview |-> result.setReview,
                  success |-> result.problems = {} /\ Contents[x[2]].neutral ]
  BY DEF Judgements
<1> DEFINE pr == Pr(x[1], x[2])
           head == Fetched(pr, Contents[x[3]].tree)
<1>2. /\ j.setReview = RunChecks(pr, Main, head).setReview
      /\ j.success = (RunChecks(pr, Main, head).problems = {} /\ Contents[x[2]].neutral)
  BY <1>1
<1> HIDE DEF pr, head
<1>3. j.setReview = (CheckKindScope(pr).setReview /\ RunChecks(pr, Main, head).problems = {})
  BY <1>2, Verdict
<1> QED  BY <1>2, <1>3

LEMMA JudgeKeeps == ASSUME PlaceInv, Judge PROVE PlaceInv'
<1>1. PICK j \in Judgements :
         IF j.setReview /\ ~j.success THEN Ended("failure")
         ELSE /\ hygiene' = IF j.setReview
                            THEN [pc |-> "set", sha |-> hygiene.sha, run |-> hygiene.run]
                            ELSE [pc |-> "status", sha |-> hygiene.sha, run |-> hygiene.run,
                                  success |-> j.success]
              /\ UNCHANGED runs
  BY DEF Judge
<1>2. /\ Newest' = Newest /\ hygiene.pc = "files"
      /\ UNCHANGED <<title, draft, fork, commits, review, queued, gates, asked>>
  BY DEF Judge, Newest
<1>3. hygiene.sha \in 1..Newest /\ hygiene.run \in Nat
  BY <1>2 DEF PlaceInv, HygieneInv, NoRun
<1>4. CASE j.setReview /\ ~j.success
  BY <1>1, <1>2, <1>4, ReviewStands, EndedKeeps DEF States
<1>5. CASE ~(j.setReview /\ ~j.success)
  <2>1. HygieneInv'
    BY <1>1, <1>2, <1>3, <1>5, JudgementShape DEF PlaceInv, HygieneInv
  <2>2. GatesInv'
    BY <1>2, GatesStand DEF PlaceInv
  <2> QED  BY <1>1, <1>2, <1>5, <2>1, <2>2
           DEF PlaceInv, CommitsInv, ReviewInv, RunsInv, QueueInv
<1> QED  BY <1>4, <1>5

LEMMA PostKeeps ==
    ASSUME ReviewInv, UNCHANGED commits, NEW h \in 1..Newest, NEW to \in Statuses,
           review' = [review EXCEPT ![h] = to]
    PROVE  ReviewInv'
BY ExceptSeq DEF ReviewInv, Newest

LEMMA SetReviewKeeps == ASSUME PlaceInv, SetReview PROVE PlaceInv'
<1>1. hygiene.sha \in 1..Newest
  BY DEF SetReview, PlaceInv, HygieneInv, NoRun
<1>2. ReviewInv'
  BY <1>1, PostKeeps DEF SetReview, PlaceInv, Statuses
<1> QED  BY <1>2, EndedKeeps DEF SetReview, States

LEMMA OutcomeShape == Outcome \in States
BY DEF Outcome, States

LEMMA ReadStatusKeeps == ASSUME PlaceInv, ReadStatus PROVE PlaceInv'
<1>1. hygiene \in [pc : {"status", "retract"}, sha : 1..Newest, run : Nat, success : BOOLEAN]
  BY DEF ReadStatus, PlaceInv, HygieneInv, NoRun
<1>2. Newest' = Newest
  BY DEF ReadStatus, Newest
<1>3. CASE review[hygiene.sha] = "hygiene"
  <2>1. hygiene' = [hygiene EXCEPT !.pc = "retract"] /\ UNCHANGED runs
    BY <1>3 DEF ReadStatus
  <2>2. HygieneInv'
    BY <1>1, <1>2, <2>1 DEF ReadStatus, PlaceInv, HygieneInv
  <2>3. GatesInv'
    BY GatesStand DEF PlaceInv, ReadStatus
  <2> QED  BY <1>2, <2>1, <2>2, <2>3
           DEF ReadStatus, PlaceInv, CommitsInv, ReviewInv, RunsInv, QueueInv
<1>4. CASE review[hygiene.sha] # "hygiene"
  BY <1>4, ReviewStands, EndedKeeps, OutcomeShape DEF ReadStatus
<1> QED  BY <1>3, <1>4

LEMMA RetractKeeps == ASSUME PlaceInv, Retract PROVE PlaceInv'
<1>1. hygiene.sha \in 1..Newest
  BY DEF Retract, PlaceInv, HygieneInv, NoRun
<1>2. ReviewInv'
  BY <1>1, PostKeeps DEF Retract, PlaceInv, Statuses
<1> QED  BY <1>2, EndedKeeps, OutcomeShape DEF Retract

LEMMA HygieneCancelledKeeps == ASSUME PlaceInv, HygieneCancelled PROVE PlaceInv'
BY ReviewStands, EndedKeeps DEF HygieneCancelled, States

----------------------------------------------------------------------------
\* The steps of the gate, and the runner.

LEMMA OnlyGates ==
    ASSUME PlaceInv, GatesInv',
           UNCHANGED <<title, draft, fork, commits, review, runs, hygiene, queued>>
    PROVE  PlaceInv'
BY DEF PlaceInv, CommitsInv, ReviewInv, RunsInv, QueueInv, HygieneInv, Newest

LEMMA GateReadsPrKeeps == ASSUME PlaceInv, GateReadsPr PROVE PlaceInv'
<1>1. PICK g \in gates :
         Becomes(g, [pc |-> "checks", refresh |-> g.refresh, body |-> g.body, by |-> g.by,
                     before |-> g.before, pushed |-> g.pushed,
                     verdict |-> IF g.refresh THEN review[g.before] ELSE "none",
                     title |-> title, draft |-> draft, sha |-> Newest])
  BY DEF GateReadsPr
<1> DEFINE h == [pc |-> "checks", refresh |-> g.refresh, body |-> g.body, by |-> g.by,
                 before |-> g.before, pushed |-> g.pushed,
                 verdict |-> IF g.refresh THEN review[g.before] ELSE "none",
                 title |-> title, draft |-> draft, sha |-> Newest]
<1>2. h.pc = "checks" /\ h.sha = Newest /\ Newest \in 1..Newest
  BY BoundsAssumption DEF PlaceInv, CommitsInv
<1>3. GateInv(h)
  BY <1>2 DEF GateInv
<1> HIDE DEF h
<1>4. GatesInv'
  BY <1>1, <1>3, BecomesKeeps, BoundsAssumption DEF h, GateReadsPr, PlaceInv
<1> QED  BY <1>4, OnlyGates DEF GateReadsPr

LEMMA GateDecidesKeeps == ASSUME PlaceInv, GateDecides PROVE PlaceInv'
<1>1. PICK g \in gates :
         /\ g.pc = "checks"
         /\ \/ gates' = gates \ {g}
            \/ Becomes(g, [pc |-> "post", request |-> Request(g)])
  BY DEF GateDecides
<1>2. UNCHANGED <<title, draft, fork, commits, review, runs, hygiene, queued, asked>>
  BY DEF GateDecides
<1>3. CASE gates' = gates \ {g}
  <2>1. \A r \in asked' : OfItsHead(r)
    BY <1>2 DEF PlaceInv, GatesInv
  <2>2. GatesInv'
    BY <1>2, <1>3, <2>1, GateEnds, BoundsAssumption DEF PlaceInv
  <2> QED  BY <1>2, <2>2, OnlyGates
<1>4. CASE Becomes(g, [pc |-> "post", request |-> Request(g)])
  <2> DEFINE h == [pc |-> "post", request |-> Request(g)]
  <2>1. g.sha \in 1..Newest
    BY <1>1 DEF PlaceInv, GatesInv, GateInv
  <2>2. OfItsHead(Request(g))
    BY <2>1 DEF OfItsHead, Request
  <2>3. h.pc = "post" /\ h.request = Request(g) /\ DOMAIN h = {"pc", "request"}
    OBVIOUS
  <2> HIDE DEF h
  <2>4. GateInv(h)
    BY <2>2, <2>3 DEF GateInv
  <2>5. GatesInv'
    BY <1>2, <1>4, <2>4, BecomesKeeps, BoundsAssumption DEF h, PlaceInv
  <2> QED  BY <1>2, <2>5, OnlyGates
<1> QED  BY <1>1, <1>3, <1>4

LEMMA OnlyReview ==
    ASSUME PlaceInv, GatesInv', ReviewInv',
           UNCHANGED <<title, draft, fork, commits, runs, hygiene, queued>>
    PROVE  PlaceInv'
BY DEF PlaceInv, CommitsInv, RunsInv, QueueInv, HygieneInv, Newest

LEMMA GatePostsKeeps == ASSUME PlaceInv, GatePosts PROVE PlaceInv'
<1>1. PICK g \in gates :
         /\ g.pc = "post"
         /\ review' = [review EXCEPT ![g.request.sha] =
                          IF g.request.refresh THEN "refresh" ELSE "requested"]
         /\ Becomes(g, [g EXCEPT !.pc = "dispatch"])
  BY DEF GatePosts
<1>2. UNCHANGED <<title, draft, fork, commits, runs, hygiene, queued, asked>>
  BY DEF GatePosts
<1>3. DOMAIN g = {"pc", "request"} /\ OfItsHead(g.request)
  BY <1>1 DEF PlaceInv, GatesInv, GateInv
<1> DEFINE h == [g EXCEPT !.pc = "dispatch"]
<1>4. h.pc = "dispatch" /\ h.request = g.request /\ DOMAIN h = {"pc", "request"}
  BY <1>3
<1> HIDE DEF h
<1>5. GateInv(h)
  BY <1>3, <1>4 DEF GateInv
<1>6. GatesInv'
  BY <1>1, <1>2, <1>5, BecomesKeeps, BoundsAssumption DEF h, PlaceInv
<1>7. ReviewInv'
  BY <1>1, <1>2, <1>3, PostKeeps DEF PlaceInv, OfItsHead, Statuses
<1> QED  BY <1>2, <1>6, <1>7, OnlyReview

LEMMA GateDispatchesKeeps == ASSUME PlaceInv, GateDispatches PROVE PlaceInv'
<1>1. PICK g \in gates : /\ g.pc = "dispatch"
                         /\ asked' = asked \cup {g.request} /\ gates' = gates \ {g}
  BY DEF GateDispatches
<1>2. UNCHANGED <<title, draft, fork, commits, review, runs, hygiene, queued>>
  BY DEF GateDispatches
<1>3. OfItsHead(g.request)
  BY <1>1 DEF PlaceInv, GatesInv, GateInv
<1>4. \A r \in asked' : OfItsHead(r)
  BY <1>1, <1>3 DEF PlaceInv, GatesInv
<1>5. GatesInv'
  BY <1>1, <1>2, <1>4, GateEnds, BoundsAssumption DEF PlaceInv
<1> QED  BY <1>2, <1>5, OnlyGates

LEMMA RunnerPostsKeeps == ASSUME PlaceInv, RunnerPosts PROVE PlaceInv'
<1>1. PICK r \in asked, v \in Verdicts : /\ asked' = asked \ {r}
                                        /\ review' = [review EXCEPT ![r.sha] = v]
  BY DEF RunnerPosts
<1>2. UNCHANGED <<title, draft, fork, commits, runs, hygiene, queued, gates>>
  BY DEF RunnerPosts
<1>3. r.sha \in 1..Newest /\ v \in Statuses
  BY DEF PlaceInv, GatesInv, OfItsHead, Statuses
<1>4. ReviewInv'
  BY <1>1, <1>2, <1>3, PostKeeps DEF PlaceInv
<1>5. GatesInv'
  BY <1>1, <1>2 DEF PlaceInv, GatesInv, GateInv, OfItsHead, Pr, Newest
<1> QED  BY <1>2, <1>4, <1>5, OnlyReview

----------------------------------------------------------------------------
LEMMA PlaceInit == Init => PlaceInv
<1> SUFFICES ASSUME Init  PROVE PlaceInv
  OBVIOUS
<1>1. PICK c \in DOMAIN Contents : commits = <<[content |-> c, by |-> Author]>>
  BY DEF Init
<1>2. CommitsInv /\ Newest = 1
  <2>1. [content |-> c, by |-> Author] \in Commit
    BY PeopleAssumption DEF Commit
  <2>2. commits \in Seq(Commit) /\ Newest = 1
    BY <1>1, <2>1 DEF Newest
  <2>3. title \in Titles /\ draft \in BOOLEAN /\ fork \in BOOLEAN
    BY OpeningAssumption DEF Init
  <2>4. Newest \in 1..MaxHead
    BY <2>2, BoundsAssumption
  <2> QED  BY <2>2, <2>3, <2>4, Zenon DEF CommitsInv
<1>3. ReviewInv
  <2>1. review = <<"none">> /\ "none" \in Statuses
    BY DEF Init, Statuses
  <2>2. <<"none">> \in Seq(Statuses) /\ Len(<<"none">>) = 1
    BY <2>1
  <2> QED  BY <1>2, <2>1, <2>2 DEF ReviewInv
<1>4. RunsInv
  <2> DEFINE one == [n \in REQUIRED_CHECKS |-> <<"in progress">>]
  <2>1. <<"in progress">> \in Seq(States)
    BY DEF States
  <2>2. one \in [REQUIRED_CHECKS -> Seq(States)]
    BY <2>1
  <2>3. runs = <<one>>
    BY DEF Init
  <2> HIDE DEF one
  <2> QED  BY <1>2, <2>2, <2>3 DEF RunsInv
<1>5. QueueInv
  BY <1>2 DEF Init, QueueInv
<1>6. HygieneInv
  BY DEF Init, HygieneInv, NoRun
<1>7. GatesInv
  <2>1. gates = {} /\ asked = {} /\ MaxGates \in Nat
    BY BoundsAssumption DEF Init
  <2> QED  BY <2>1, FS_EmptySet DEF GatesInv
<1> QED  BY <1>2, <1>3, <1>4, <1>5, <1>6, <1>7 DEF PlaceInv

LEMMA PlaceNext == PlaceInv /\ [Next]_vars => PlaceInv'
<1> SUFFICES ASSUME PlaceInv, [Next]_vars  PROVE PlaceInv'
  OBVIOUS
<1>1. CASE EditTitle
  BY <1>1, EventKeeps DEF EditTitle, PlaceInv, CommitsInv
<1>2. CASE MarkReady
  BY <1>2, EventKeeps DEF MarkReady, PlaceInv, CommitsInv
<1>3. CASE Push \/ Comment \/ CheckEnds \/ CheckReruns
  BY <1>3, PushKeeps, CommentKeeps, CheckEndsKeeps, CheckRerunsKeeps
<1>4. CASE HygieneJob
  BY <1>4, HygieneStartsKeeps, ReadPrKeeps, JudgeKeeps, SetReviewKeeps, ReadStatusKeeps,
     RetractKeeps, HygieneCancelledKeeps DEF HygieneJob
<1>5. CASE Gate
  BY <1>5, GateReadsPrKeeps, GateDecidesKeeps, GatePostsKeeps, GateDispatchesKeeps DEF Gate
<1>6. CASE RunnerPosts
  BY <1>6, RunnerPostsKeeps
<1>7. CASE UNCHANGED vars
  BY <1>7, GatesStand, OnlyGates DEF vars, PlaceInv
<1> QED  BY <1>1, <1>2, <1>3, <1>4, <1>5, <1>6, <1>7 DEF Next

LEMMA PlaceCorrect == Spec => []PlaceInv
BY PlaceInit, PlaceNext, PTL DEF Spec

\* Every state of a pull request is well typed, however many jobs and people are
\* at it.
THEOREM TypeCorrect == Spec => []TypeOK
<1>1. PlaceInv => TypeOK
  <2> SUFFICES ASSUME PlaceInv  PROVE TypeOK
    OBVIOUS
  <2>1. \A h \in 1..Newest : commits[h].content \in DOMAIN Contents /\ commits[h].by \in People
    <3>1. \A h \in 1..Newest : commits[h] \in Commit
      BY ElementOfSeq DEF PlaceInv, CommitsInv, Newest
    <3> QED  BY <3>1 DEF Commit
  <2>2. review \in [1..Newest -> Statuses]
    BY LenProperties DEF PlaceInv, ReviewInv
  <2>3. DOMAIN runs = 1..Newest
    BY LenProperties DEF PlaceInv, RunsInv
  <2>4. \A h \in 1..Newest : \A n \in REQUIRED_CHECKS : runs[h][n] \in Seq(States)
    BY RunsOf DEF PlaceInv
  <2>5. hygiene.pc \in {"idle", "start", "files", "set", "status", "retract"}
    BY DEF PlaceInv, HygieneInv, NoRun
  <2>6. Cardinality(queued) <= 1 /\ \A q \in queued : q.sha \in 1..Newest
    <3>1. Newest \in 1..Newest
      BY BoundsAssumption DEF PlaceInv, CommitsInv
    <3> QED  BY <3>1, FS_EmptySet, FS_Singleton DEF PlaceInv, QueueInv
  <2>7. /\ Cardinality(gates) <= MaxGates
        /\ \A g \in gates : g.pc \in {"start", "checks", "post", "dispatch"}
        /\ \A r \in asked : r.sha \in 1..Newest
    BY DEF PlaceInv, GatesInv, GateInv, OfItsHead
  <2>8. /\ title \in Titles /\ draft \in BOOLEAN /\ fork \in BOOLEAN
        /\ Newest \in 1..MaxHead
    BY DEF PlaceInv, CommitsInv
  <2> QED  BY <2>1, <2>2, <2>3, <2>4, <2>5, <2>6, <2>7, <2>8, Zenon DEF TypeOK, States
<1> QED  BY <1>1, PlaceCorrect, PTL

\* The gate reads the title, the head and the files in calls of their own; a
\* request that is still about the head names the reviewers its files take.
THEOREM AskedForItsHeadCorrect == Spec => []AskedForItsHead
<1>1. PlaceInv => AskedForItsHead
  BY DEF PlaceInv, GatesInv, OfItsHead, AskedForItsHead
<1> QED  BY <1>1, PlaceCorrect, PTL

----------------------------------------------------------------------------
\* Of a kind that hygiene decides the rules read two files of the head at most,
\* and the job has fetched them.
LEMMA FetchedIsEnough ==
    ASSUME NEW pr, NEW main, NEW tree
    PROVE  RunChecks(pr, main, Fetched(pr, tree)).setReview
             <=> RunChecks(pr, main, tree).setReview
<1>1. CASE Kind(pr) \notin HYGIENE_ONLY_KINDS
  <2>1. ~CheckKindScope(pr).setReview
    BY <1>1 DEF CheckKindScope
  <2> QED  BY <2>1, Verdict
<1>2. CASE Kind(pr) \in HYGIENE_ONLY_KINDS
  <2>1. Kind(pr) \notin {"proposal", "charter", "archetype", "release"}
    BY <1>2 DEF HYGIENE_ONLY_KINDS
  <2>2. \A head : /\ CheckProposal(pr, head) = {} /\ CheckCharter(pr, head) = {}
                  /\ CheckArchetype(pr, main, head) = {} /\ CheckRelease(pr, head) = {}
    BY <2>1, Zenon DEF CheckProposal, CheckCharter, CheckArchetype, CheckRelease
  <2>3. CheckChangelogEntries(pr, main, Fetched(pr, tree)) = CheckChangelogEntries(pr, main, tree)
    <3>1. CASE ~ChangesChangelogFiles(pr)
      BY <3>1 DEF CheckChangelogEntries
    <3>2. CASE ChangesChangelogFiles(pr)
      <4>1. CHANGELOG_FILES \subseteq HeadPaths(pr)
        BY <3>2 DEF HeadPaths
      <4>2. CHANGELOG_FILES \subseteq DOMAIN Fetched(pr, tree) <=> CHANGELOG_FILES \subseteq DOMAIN tree
        BY <4>1 DEF Fetched
      <4>3. CHANGELOG_FILES \subseteq DOMAIN tree =>
               /\ Fetched(pr, tree)[CHANGELOG] = tree[CHANGELOG]
               /\ Fetched(pr, tree)[DEPRECATIONS] = tree[DEPRECATIONS]
        BY <4>1 DEF Fetched, CHANGELOG_FILES
      <4> QED  BY <3>2, <4>2, <4>3 DEF CheckChangelogEntries
    <3> QED  BY <3>1, <3>2
  <2>4. RunChecks(pr, main, Fetched(pr, tree)).problems = RunChecks(pr, main, tree).problems
    BY <2>2, <2>3, Zenon DEF RunChecks
  <2> QED  BY <2>4, Verdict
<1> QED  BY <1>1, <1>2

\* A judgement of the title and the head as they are is what they ask for.
LEMMA JudgedIsWanted ==
    ASSUME PlaceInv, NEW j \in Judgements, j.setReview, j.title = title,
           j.files = commits[Newest].content, j.from = commits[Newest].content
    PROVE  TakesNoReview
<1>1. PICK x \in Titles \X (DOMAIN Contents) \X (DOMAIN Contents) :
         LET pr == Pr(x[1], x[2])
             result == RunChecks(pr, Main, Fetched(pr, Contents[x[3]].tree))
         IN j = [ title |-> x[1], files |-> x[2], from |-> x[3], setReview |-> result.setReview,
                  success |-> result.problems = {} /\ Contents[x[2]].neutral ]
  BY DEF Judgements
<1> DEFINE pr == Pr(x[1], x[2])
           head == Fetched(pr, Contents[x[3]].tree)
<1>2. /\ j.title = x[1] /\ j.files = x[2] /\ j.from = x[3]
      /\ j.setReview = RunChecks(pr, Main, head).setReview
  BY <1>1
<1>3. /\ x = <<x[1], x[2], x[3]>> /\ x[1] \in Titles /\ x[2] \in DOMAIN Contents /\ x[3] = x[2]
  BY <1>2
<1>4. RunChecks(pr, Main, Contents[x[2]].tree).setReview
  BY <1>2, <1>3, FetchedIsEnough
<1>5. RunChecks(pr, Main, Contents[x[2]].tree).setReview = TRUE
  BY <1>4, Verdict
<1>6. [title |-> x[1], files |-> x[2], setReview |-> TRUE] \in Wanted
  <2> DEFINE Row(z) == [ title |-> z[1], files |-> z[2],
                         setReview |-> RunChecks(Pr(z[1], z[2]), Main, Contents[z[2]].tree).setReview ]
             y == <<x[1], x[2]>>
  <2>1. y \in Titles \X (DOMAIN Contents) /\ y[1] = x[1] /\ y[2] = x[2]
    BY <1>3
  <2>2. Row(y) = [title |-> x[1], files |-> x[2], setReview |-> TRUE]
    BY <1>5, <2>1
  <2>3. Row(y) \in Wanted
    BY <2>1, Zenon DEF Wanted
  <2> QED  BY <2>2, <2>3, Zenon
<1> QED  BY <1>2, <1>6 DEF TakesNoReview

\* A run that nobody overtook and that is about to set the review does so for a
\* head that takes none.
SetInv == queued = {} /\ hygiene.pc = "set" => TakesNoReview
QuietInv == SetInv /\ QuietIsJudged

LEMMA Unmoved ==
    ASSUME UNCHANGED <<title, commits>>
    PROVE  (TakesNoReview <=> TakesNoReview') /\ Newest' = Newest
BY DEF TakesNoReview, Wanted, Pr, Newest

\* With a run waiting there is nothing to show.
LEMMA Waits == ASSUME queued' # {} PROVE QuietInv'
BY DEF QuietInv, SetInv, QuietIsJudged

LEMMA WaitsAfterEvent == ASSUME NEW states, NEW h, Trigger(states, h) PROVE QuietInv'
BY Waits DEF Trigger

\* Steps of others post no status of hygiene's.
LEMMA OthersPost ==
    ASSUME QuietInv, UNCHANGED <<title, commits, hygiene, queued>>,
           review'[Newest] = "hygiene" => review[Newest] = "hygiene"
    PROVE  QuietInv'
BY Unmoved DEF QuietInv, SetInv, QuietIsJudged

LEMMA PostsNoHygiene ==
    ASSUME PlaceInv, QuietInv, NEW h \in 1..Newest, NEW to, to # "hygiene",
           review' = [review EXCEPT ![h] = to], UNCHANGED <<title, commits, hygiene, queued>>
    PROVE  QuietInv'
<1>1. Newest \in DOMAIN review
  <2>1. DOMAIN review = 1..Newest /\ Newest \in 1..Newest
    BY LenProperties, BoundsAssumption DEF PlaceInv, ReviewInv, CommitsInv
  <2> QED  BY <2>1
<1> QED  BY <1>1, OthersPost

LEMMA QuietJob == ASSUME PlaceInv, QuietInv, HygieneJob PROVE QuietInv'
<1>1. UNCHANGED <<title, commits>>
  BY DEF HygieneJob, HygieneStarts, ReadPr, Judge, SetReview, ReadStatus, Retract, HygieneCancelled
<1>2. (TakesNoReview <=> TakesNoReview') /\ Newest' = Newest
  BY <1>1, Unmoved
<1>3. CASE HygieneStarts
  BY <1>3 DEF HygieneStarts, QuietInv, SetInv, QuietIsJudged
<1>4. CASE ReadPr
  BY <1>4 DEF ReadPr, QuietInv, SetInv, QuietIsJudged
<1>5. CASE Judge
  <2>1. queued = {} /\ queued' = {} /\ hygiene.pc = "files"
    BY <1>5 DEF Judge, Going
  <2>2. PICK j \in Judgements :
           /\ j.title = hygiene.title
           /\ j.files = commits[Newest].content /\ j.from = commits[hygiene.sha].content
           /\ IF j.setReview /\ ~j.success THEN Ended("failure")
              ELSE /\ hygiene' = IF j.setReview
                                 THEN [pc |-> "set", sha |-> hygiene.sha, run |-> hygiene.run]
                                 ELSE [pc |-> "status", sha |-> hygiene.sha, run |-> hygiene.run,
                                       success |-> j.success]
                   /\ UNCHANGED runs
    BY <1>5 DEF Judge
  <2>3. hygiene.sha = Newest /\ hygiene.title = title
    BY <2>1 DEF PlaceInv, HygieneInv
  <2>4. j.setReview => TakesNoReview
    BY <2>2, <2>3, JudgedIsWanted
  <2>5. CASE j.setReview
    BY <1>2, <2>4, <2>5 DEF QuietInv, SetInv, QuietIsJudged
  <2>6. CASE ~j.setReview
    <3>1. hygiene'.pc = "status"
      BY <2>2, <2>6
    <3> QED  BY <3>1 DEF QuietInv, SetInv, QuietIsJudged
  <2> QED  BY <2>5, <2>6
<1>6. CASE SetReview
  <2>1. queued' = queued /\ hygiene.pc = "set" /\ hygiene'.pc = "idle"
    BY <1>6 DEF SetReview, Ended, NoRun
  <2> QED  BY <1>2, <2>1 DEF QuietInv, SetInv, QuietIsJudged
<1>7. CASE ReadStatus
  <2>1. queued = {} /\ hygiene.sha = Newest /\ review' = review /\ queued' = queued
    BY <1>7 DEF ReadStatus, Going, PlaceInv, HygieneInv
  <2>2. CASE review[Newest] = "hygiene"
    <3>1. hygiene' = [hygiene EXCEPT !.pc = "retract"]
      BY <1>7, <2>1, <2>2 DEF ReadStatus
    <3>2. hygiene \in [pc : {"status", "retract"}, sha : 1..Newest, run : Nat, success : BOOLEAN]
      BY <1>7 DEF ReadStatus, PlaceInv, HygieneInv, NoRun
    <3>3. hygiene'.pc = "retract"
      BY <3>1, <3>2
    <3> QED  BY <3>3 DEF QuietInv, SetInv, QuietIsJudged
  <2>3. CASE review[Newest] # "hygiene"
    <3>1. hygiene'.pc = "idle"
      BY <1>7, <2>1, <2>3 DEF ReadStatus, Ended, NoRun
    <3> QED  BY <1>2, <2>1, <2>3, <3>1 DEF QuietInv, SetInv, QuietIsJudged
  <2> QED  BY <2>2, <2>3
<1>8. CASE Retract
  <2>1. /\ queued' = queued /\ hygiene.pc = "retract" /\ hygiene'.pc = "idle"
        /\ review' = [review EXCEPT ![hygiene.sha] = "required"]
    BY <1>8 DEF Retract, Ended, NoRun
  <2>2. CASE queued # {}
    BY <2>1, <2>2, Waits
  <2>3. CASE queued = {}
    <3>1. hygiene.sha = Newest
      BY <2>1, <2>3 DEF PlaceInv, HygieneInv
    <3>2. DOMAIN review = 1..Newest /\ Newest \in 1..Newest
      BY LenProperties, BoundsAssumption DEF PlaceInv, ReviewInv, CommitsInv
    <3>3. review'[Newest] = "required"
      BY <2>1, <3>1, <3>2
    <3> QED  BY <1>2, <2>1, <3>3 DEF QuietInv, SetInv, QuietIsJudged
  <2> QED  BY <2>2, <2>3
<1>9. CASE HygieneCancelled
  BY <1>9, Waits DEF HygieneCancelled, Going
<1> QED  BY <1>3, <1>4, <1>5, <1>6, <1>7, <1>8, <1>9 DEF HygieneJob

LEMMA QuietNext == PlaceInv /\ QuietInv /\ [Next]_vars => QuietInv'
<1> SUFFICES ASSUME PlaceInv, QuietInv, [Next]_vars  PROVE QuietInv'
  OBVIOUS
<1>1. CASE EditTitle \/ MarkReady \/ Push
  BY <1>1, WaitsAfterEvent DEF EditTitle, MarkReady, Push
<1>2. CASE Comment \/ CheckEnds \/ CheckReruns
  BY <1>2, OthersPost DEF Comment, CheckEnds, CheckReruns
<1>3. CASE HygieneJob
  BY <1>3, QuietJob
<1>4. CASE GateReadsPr \/ GateDecides \/ GateDispatches
  BY <1>4, OthersPost DEF GateReadsPr, GateDecides, GateDispatches
<1>5. CASE GatePosts
  <2>1. PICK g \in gates :
           /\ g.pc = "post"
           /\ review' = [review EXCEPT ![g.request.sha] =
                            IF g.request.refresh THEN "refresh" ELSE "requested"]
    BY <1>5 DEF GatePosts
  <2>2. g.request.sha \in 1..Newest
    BY <2>1 DEF PlaceInv, GatesInv, GateInv, OfItsHead
  <2> QED  BY <1>5, <2>1, <2>2, PostsNoHygiene DEF GatePosts
<1>6. CASE RunnerPosts
  <2>1. PICK r \in asked, v \in Verdicts : review' = [review EXCEPT ![r.sha] = v]
    BY <1>6 DEF RunnerPosts
  <2>2. r.sha \in 1..Newest /\ v # "hygiene"
    BY DEF PlaceInv, GatesInv, OfItsHead, Verdicts
  <2> QED  BY <1>6, <2>1, <2>2, PostsNoHygiene DEF RunnerPosts
<1>7. CASE UNCHANGED vars
  BY <1>7, OthersPost DEF vars
<1> QED  BY <1>1, <1>2, <1>3, <1>4, <1>5, <1>6, <1>7 DEF Next, Gate

\* Whatever runs were cancelled, queued or overtaken: once none is left, a head
\* that hygiene has passed without a review takes none.
THEOREM QuietIsJudgedCorrect == Spec => []QuietIsJudged
<1>1. Init => QuietInv
  BY Zenon DEF Init, QuietInv, SetInv, QuietIsJudged, NoRun
<1>2. QuietInv => QuietIsJudged
  BY DEF QuietInv
<1> QED  BY <1>1, <1>2, QuietNext, PlaceCorrect, PTL DEF Spec
====
