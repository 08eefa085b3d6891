---- MODULE PullRequest ----
(***************************************************************************)
(* The life of one pull request between its jobs: hygiene                  *)
(* (.github/workflows/hygiene.yml with scripts/pr_hygiene.py), the review  *)
(* gate (.github/workflows/review.yml with scripts/review_gate.py) and the *)
(* review runner outside this repository.                                  *)
(*                                                                         *)
(* Each commit carries the newest `review` status posted on it and, for    *)
(* each required check, its check runs in the order of their ids. A job    *)
(* reads the pull request as it is when it reads, and posts later, while   *)
(* pushes, title edits and the other jobs go on.                           *)
(***************************************************************************)
EXTENDS Hygiene

CONSTANTS Titles,       \* titles the pull request may have
          Contents,     \* what a push may leave, by name: [files, tree, neutral]
          Drafts, Forks,   \* whether it is opened as a draft, and from a fork
          Main,         \* the tree of main
          Number,       \* the pull request's number
          Author,
          People, Writers,   \* who comments and pushes; who has write access
          Bodies,       \* comments that start with /review
          REQUIRED_CHECKS,
          MaxHead, MaxEdits, MaxComments, MaxReruns,   \* bounds of the exploration
          MaxGates     \* another: of gate runs at a time; no event that would start one more comes

ASSUME BoundsAssumption ==
    MaxHead \in Nat \ {0} /\ {MaxEdits, MaxComments, MaxReruns, MaxGates} \subseteq Nat
ASSUME PeopleAssumption == Author \in People /\ Writers \subseteq People
ASSUME OpeningAssumption == Drafts \subseteq BOOLEAN /\ Forks \subseteq BOOLEAN
ASSUME HygieneAssumption == "hygiene" \in REQUIRED_CHECKS

COMMANDS == {"/review", "/review full"}
Verdicts == {"approve", "changes"}
Statuses == {"none", "hygiene", "required", "requested", "refresh"} \cup Verdicts
Final == {"hygiene"} \cup Verdicts

VARIABLES title, draft,
          fork,      \* whether the branch is in a fork
          commits,   \* what was pushed: [content, by]; the last one is the head
          review,    \* per commit, the newest status with context `review`
          runs,      \* per commit and check, the states of its check runs
          hygiene,   \* the hygiene run in progress
          queued,    \* the runs of the concurrency group that wait: one at most
          gates,     \* the gate runs in progress
          asked,     \* review requests the runner has not answered
          edits, comments

vars == <<title, draft, fork, commits, review, runs, hygiene, queued, gates, asked, edits, comments>>

Newest == Len(commits)   \* the head commit
Pr(t, c) == [title |-> t, labels |-> {}, files |-> Contents[c].files, author |-> Author,
             number |-> Number]

\* One state per check name (review_gate.conclusions).
Conclusion(states) ==
    IF states = <<>> THEN "missing"
    ELSE IF "in progress" \in ToSet(states) THEN "in progress" ELSE Last(states)

NoRun == [pc |-> "idle"]

TypeOK ==
    /\ title \in Titles /\ draft \in BOOLEAN /\ fork \in BOOLEAN
    /\ Newest \in 1..MaxHead
    /\ \A h \in 1..Newest : commits[h].content \in DOMAIN Contents /\ commits[h].by \in People
    /\ review \in [1..Newest -> Statuses]
    /\ DOMAIN runs = 1..Newest
    /\ \A h \in 1..Newest : \A n \in REQUIRED_CHECKS :
          runs[h][n] \in Seq({"in progress", "success", "failure", "cancelled"})
    /\ hygiene.pc \in {"idle", "start", "files", "set", "status", "retract"}
    /\ Cardinality(queued) <= 1 /\ \A q \in queued : q.sha \in 1..Newest
    /\ Cardinality(gates) <= MaxGates
    /\ \A g \in gates : g.pc \in {"start", "checks", "post", "dispatch"}
    /\ \A r \in asked : r.sha \in 1..Newest

----------------------------------------------------------------------------
\* Events. Each one that hygiene.yml lists starts a run on the head: a check
\* run in progress, queued in the concurrency group behind the run that is
\* cancelled for it and in the place of one that has not started.

StateOf(states, q, to) == [states EXCEPT ![q.sha]["hygiene"][q.run] = to]
Cancelled(states) ==
    IF queued = {} THEN states
    ELSE StateOf(states, CHOOSE q \in queued : TRUE, "cancelled")

Trigger(states, h) ==
    /\ runs' = [states EXCEPT ![h]["hygiene"] = Append(@, "in progress")]
    /\ queued' = {[sha |-> h, run |-> Len(states[h]["hygiene"]) + 1]}

EditTitle_Unseen ==
    /\ edits < MaxEdits
    /\ edits' = edits + 1
    /\ \E t \in Titles \ {title} : title' = t
    /\ UNCHANGED <<draft, fork, commits, review, runs, hygiene, queued, gates, asked, comments>>

EditTitle ==
    /\ edits < MaxEdits
    /\ edits' = edits + 1
    /\ \E t \in Titles \ {title} : title' = t
    /\ Trigger(Cancelled(runs), Newest)
    /\ UNCHANGED <<draft, fork, commits, review, hygiene, gates, asked, comments>>

MarkReady ==
    /\ draft
    /\ draft' = FALSE
    /\ Trigger(Cancelled(runs), Newest)
    /\ UNCHANGED <<title, fork, commits, review, hygiene, gates, asked, edits, comments>>

\* A push runs every check on the new head, and the gate for a status refresh
\* when the pull request is no draft and its branch is in this repository.
Push ==
    /\ Newest < MaxHead
    /\ \E c \in DOMAIN Contents, p \in Writers :
          /\ commits' = Append(commits, [content |-> c, by |-> p])
          /\ review' = Append(review, "none")
          /\ Trigger(Append(Cancelled(runs),
                            [n \in REQUIRED_CHECKS |-> IF n = "hygiene" THEN <<>>
                                                       ELSE <<"in progress">>]), Newest + 1)
          /\ IF draft \/ fork THEN UNCHANGED gates
             ELSE /\ Cardinality(gates) < MaxGates
                  /\ gates' = gates \cup {[pc |-> "start", refresh |-> TRUE, body |-> "/review",
                                           by |-> p, before |-> Newest, pushed |-> Newest + 1]}
    /\ UNCHANGED <<title, draft, fork, hygiene, asked, edits, comments>>

Comment ==
    /\ comments < MaxComments /\ Cardinality(gates) < MaxGates
    /\ comments' = comments + 1
    /\ \E p \in People, b \in Bodies :
          gates' = gates \cup {[pc |-> "start", refresh |-> FALSE, body |-> b, by |-> p,
                                before |-> 0, pushed |-> 0]}
    /\ UNCHANGED <<title, draft, fork, commits, review, runs, hygiene, queued, asked, edits>>

\* The other required checks end, and a failed one is run again.
CheckEnds ==
    /\ \E h \in 1..Newest, n \in REQUIRED_CHECKS \ {"hygiene"} :
          \E i \in DOMAIN runs[h][n], to \in {"success", "failure"} :
             /\ runs[h][n][i] = "in progress"
             /\ runs' = [runs EXCEPT ![h][n][i] = to]
    /\ UNCHANGED <<title, draft, fork, commits, review, hygiene, queued, gates, asked, edits, comments>>

Reruns == {x \in (1..Newest) \X (REQUIRED_CHECKS \ {"hygiene"}) : Len(runs[x[1]][x[2]]) > 1}

CheckReruns ==
    /\ Cardinality(Reruns) < MaxReruns
    /\ \E h \in 1..Newest, n \in REQUIRED_CHECKS \ {"hygiene"} :
          /\ <<h, n>> \notin Reruns
          /\ runs[h][n][1] = "failure"
          /\ runs' = [runs EXCEPT ![h][n] = Append(@, "in progress")]
    /\ UNCHANGED <<title, draft, fork, commits, review, hygiene, queued, gates, asked, edits, comments>>

----------------------------------------------------------------------------
\* hygiene.yml: one run at a time, on the head of its event, reading the
\* pull request as it is by then.

HygieneStarts ==
    /\ hygiene.pc = "idle"
    /\ \E q \in queued : hygiene' = [pc |-> "start", sha |-> q.sha, run |-> q.run]
    /\ queued' = {}
    /\ UNCHANGED <<title, draft, fork, commits, review, runs, gates, asked, edits, comments>>

\* A run for which another waits has been cancelled: it does nothing more
\* than end a call it has under way.
Going == queued = {}

ReadPr ==
    /\ hygiene.pc = "start" /\ Going
    /\ hygiene' = [pc |-> "files", sha |-> hygiene.sha, run |-> hygiene.run, title |-> title]
    /\ UNCHANGED <<title, draft, fork, commits, review, runs, queued, gates, asked, edits, comments>>

Ended(to) ==
    /\ hygiene' = NoRun
    /\ runs' = StateOf(runs, hygiene, to)

\* The rules over a title and the files of one commit, with what those files
\* hold fetched from another.
Fetched(pr, tree) == [p \in HeadPaths(pr) \cap DOMAIN tree |-> tree[p]]
Judgements ==
    { LET pr == Pr(x[1], x[2])
          result == RunChecks(pr, Main, Fetched(pr, Contents[x[3]].tree))
      IN [ title |-> x[1], files |-> x[2], from |-> x[3], setReview |-> result.setReview,
           success |-> result.problems = {} /\ Contents[x[2]].neutral ]
      : x \in Titles \X (DOMAIN Contents) \X (DOMAIN Contents) }

\* The files are those of the head by now, what they hold is fetched from
\* the run's own commit.
Judge ==
    /\ hygiene.pc = "files" /\ Going
    /\ \E j \in Judgements :
          /\ j.title = hygiene.title
          /\ j.files = commits[Newest].content /\ j.from = commits[hygiene.sha].content
          /\ IF j.setReview /\ ~j.success THEN Ended("failure")
             ELSE /\ hygiene' = IF j.setReview
                                THEN [pc |-> "set", sha |-> hygiene.sha, run |-> hygiene.run]
                                ELSE [pc |-> "status", sha |-> hygiene.sha, run |-> hygiene.run,
                                      success |-> j.success]
                  /\ UNCHANGED runs
    /\ UNCHANGED <<title, draft, fork, commits, review, queued, gates, asked, edits, comments>>

SetReview ==
    /\ hygiene.pc = "set"
    /\ review' = [review EXCEPT ![hygiene.sha] = "hygiene"]
    /\ Ended("success")
    /\ UNCHANGED <<title, draft, fork, commits, queued, gates, asked, edits, comments>>

Outcome == IF hygiene.success THEN "success" ELSE "failure"

\* Only a status with this job's own description is taken back.
ReadStatus ==
    /\ hygiene.pc = "status" /\ Going
    /\ IF review[hygiene.sha] = "hygiene"
       THEN hygiene' = [hygiene EXCEPT !.pc = "retract"] /\ UNCHANGED runs
       ELSE Ended(Outcome)
    /\ UNCHANGED <<title, draft, fork, commits, review, queued, gates, asked, edits, comments>>

Retract ==
    /\ hygiene.pc = "retract"
    /\ review' = [review EXCEPT ![hygiene.sha] = "required"]
    /\ Ended(Outcome)
    /\ UNCHANGED <<title, draft, fork, commits, queued, gates, asked, edits, comments>>

HygieneCancelled ==
    /\ hygiene.pc # "idle" /\ ~Going
    /\ Ended("cancelled")
    /\ UNCHANGED <<title, draft, fork, commits, review, queued, gates, asked, edits, comments>>

----------------------------------------------------------------------------
\* review.yml: the gate.

Maintainers == Main[MAINTAINERS_FILE]

Refusal(g, checks) ==
    \/ g.body \notin COMMANDS
    \/ g.by \notin Writers
    \/ g.by \notin Maintainers
    \/ g.draft
    \/ \E n \in REQUIRED_CHECKS : Conclusion(checks[n]) # "success"

RefreshAllowed(g) == g.verdict = "approve"

Becomes(g, h) == gates' = (gates \ {g}) \cup {h}

\* The wait for the checks of a pushed head ends after five minutes whether
\* they have ended or not, so it is no guard.
GateReadsPr ==
    /\ \E g \in gates :
          /\ g.pc = "start"
          /\ Becomes(g, [pc |-> "checks", refresh |-> g.refresh, body |-> g.body, by |-> g.by,
                         before |-> g.before, pushed |-> g.pushed,
                         verdict |-> IF g.refresh THEN review[g.before] ELSE "none",
                         title |-> title, draft |-> draft, sha |-> Newest])
    /\ UNCHANGED <<title, draft, fork, commits, review, runs, hygiene, queued, asked, edits, comments>>

Request_Swapped(g) ==
    [sha |-> Newest, title |-> g.title, refresh |-> g.refresh, full |-> g.body = "/review full",
     reviewers |-> ReviewersFor(Pr(g.title, commits[g.sha].content)),
     before |-> g.before, pushed |-> g.pushed]

Request(g) ==
    [sha |-> g.sha, title |-> g.title, refresh |-> g.refresh, full |-> g.body = "/review full",
     reviewers |-> ReviewersFor(Pr(g.title, commits[Newest].content)),
     before |-> g.before, pushed |-> g.pushed]

GateDecides_AnyKind ==
    /\ \E g \in gates :
          /\ g.pc = "checks"
          /\ IF Refusal(g, runs[g.sha]) \/ (g.refresh /\ ~RefreshAllowed(g))
             THEN gates' = gates \ {g}
             ELSE Becomes(g, [pc |-> "post", request |-> Request(g)])
    /\ UNCHANGED <<title, draft, fork, commits, review, runs, hygiene, queued, asked, edits, comments>>

\* The files are those of the head by now, the checks those of the head read
\* before.
GateDecides ==
    /\ \E g \in gates :
          /\ g.pc = "checks"
          /\ IF \/ Refusal(g, runs[g.sha])
                \/ g.refresh /\ ~RefreshAllowed(g)
                \/ Request(g).reviewers = {}
             THEN gates' = gates \ {g}
             ELSE Becomes(g, [pc |-> "post", request |-> Request(g)])
    /\ UNCHANGED <<title, draft, fork, commits, review, runs, hygiene, queued, asked, edits, comments>>

GatePosts ==
    /\ \E g \in gates :
          /\ g.pc = "post"
          /\ review' = [review EXCEPT ![g.request.sha] =
                           IF g.request.refresh THEN "refresh" ELSE "requested"]
          /\ Becomes(g, [g EXCEPT !.pc = "dispatch"])
    /\ UNCHANGED <<title, draft, fork, commits, runs, hygiene, queued, asked, edits, comments>>

GateDispatches ==
    /\ \E g \in gates :
          /\ g.pc = "dispatch"
          /\ asked' = asked \cup {g.request}
          /\ gates' = gates \ {g}
    /\ UNCHANGED <<title, draft, fork, commits, review, runs, hygiene, queued, edits, comments>>

\* The runner, outside this repository, posts one verdict per request that
\* names a reviewer.
RunnerPosts ==
    /\ \E r \in asked, v \in Verdicts :
          /\ r.reviewers # {}
          /\ asked' = asked \ {r}
          /\ review' = [review EXCEPT ![r.sha] = v]
    /\ UNCHANGED <<title, draft, fork, commits, runs, hygiene, queued, gates, edits, comments>>

----------------------------------------------------------------------------
Init ==
    /\ title \in Titles /\ draft \in Drafts /\ fork \in Forks
    /\ \E c \in DOMAIN Contents : commits = <<[content |-> c, by |-> Author]>>
    /\ review = <<"none">>
    /\ runs = <<[n \in REQUIRED_CHECKS |-> <<"in progress">>]>>
    /\ hygiene = NoRun /\ queued = {[sha |-> 1, run |-> 1]}
    /\ gates = {} /\ asked = {}
    /\ edits = 0 /\ comments = 0

HygieneJob ==
    \/ HygieneStarts \/ ReadPr \/ Judge \/ SetReview \/ ReadStatus \/ Retract
    \/ HygieneCancelled

Gate == GateReadsPr \/ GateDecides \/ GatePosts \/ GateDispatches

Next ==
    \/ EditTitle \/ MarkReady \/ Push \/ Comment \/ CheckEnds \/ CheckReruns
    \/ HygieneJob \/ Gate \/ RunnerPosts

Spec == Init /\ [][Next]_vars

\* GitHub runs what it has queued, and the runner answers what it was asked.
FairSpec == Spec /\ WF_vars(HygieneJob) /\ WF_vars(Gate) /\ WF_vars(RunnerPosts)

----------------------------------------------------------------------------
\* What the title and the head's own files ask for.
Wanted ==
    { [ title |-> x[1], files |-> x[2],
        setReview |-> RunChecks(Pr(x[1], x[2]), Main, Contents[x[2]].tree).setReview ]
      : x \in Titles \X (DOMAIN Contents) }
TakesNoReview ==
    [title |-> title, files |-> commits[Newest].content, setReview |-> TRUE] \in Wanted

\* When no hygiene run is waiting or under way, a head that hygiene has passed
\* without a review (hygiene.yml, the set and retract steps) is a head that
\* takes none, however titles, pushes and cancelled runs followed one another.
QuietIsJudged ==
    hygiene.pc = "idle" /\ queued = {} /\ review[Newest] = "hygiene" => TakesNoReview

\* A request that is about the head names the reviewers that its own files
\* take under the title the gate read, although title and files are read by
\* two calls and a push may come between them (review.yml, 93).
AskedForItsHead ==
    \A r \in asked : r.sha = Newest =>
        r.reviewers = ReviewersFor(Pr(r.title, commits[r.sha].content))

\* What the retract step says of itself (hygiene.yml, 110-112): a verdict posted
\* by the agent review is left alone.
VerdictsStand ==
    [][\A h \in DOMAIN review : review[h] \in Verdicts => review'[h] # "required"]_vars

\* A pull request that goes on taking no review is not left without a final
\* review status: not by a cancelled run, nor by a request that overtakes the
\* title edit that makes it needless.
Decided ==
    <>[](TakesNoReview /\ Contents[commits[Newest].content].neutral) => <>[](review[Newest] \in Final)
====
