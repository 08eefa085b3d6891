# A verification project for testprotocols / testoperations

`testprotocols` is a package of contracts (`typing.Protocol` classes, records and
enums, next to no executable behaviour) that test-bed drivers implement;
`testoperations` is the code that calls those drivers: it runs iperf measurements,
retries them, waits for devices, captures traffic, moves clients between
appliances. `scripts/` and `.github/workflows/` hold the process by which the
contracts change: what a pull request must carry, who reviews it, when it may be
released. This directory models both halves, checks the models with TLC and
proves the central results with TLAPS.

Paths below are relative to `packages/testoperations/src/testoperations/` unless
they begin with `packages/`, `scripts/` or `.github/`.

## 1. Inventory

| Component | State it keeps | Operations | What is hard about it | Modules |
| --- | --- | --- | --- | --- |
| One concurrent measurement (`throughput.py` 167-462) | lists of started receivers and launched senders, prior session counts, one deadline; beside it iperf processes and their append-only log files | `measure_concurrent_throughput`, `_await_session`, `iter_json_docs` | every driver call may raise; processes finish and flush whenever they like; 2N sequential waits share one deadline; logs outlive calls | `Throughput`, `ThroughputProofs` |
| Retry and rounds (`throughput.py` 468-560, 948-1013) | findings, one deadline, ports drawn | `_retry_on_noncompletion`, `measure_concurrent_throughput_with_retry`, `_measure_rounds` (and its two public callers) | retry of abandoned work, caller's callbacks raising, budget checked before a backoff | `Rounds`, `RoundsProofs` |
| Log facts and flows (`throughput.py`, the readers of a document and the builders of a round) | none | `last_session_mbps`, `last_session_rtt_ms`, ..., the flows of a probe and of a direction | an untrusted document of any shape; two chains that must ask for the same flows | `Measurements` |
| Polling waits (`waiting.py`, `network_endpoint.py`, `device_management.py`, `sdwan.py`) | deadline, last reading | `wait_until`, `await_reachability`, `wait_for_endpoint_ready`, `wait_for_reboot_completion`, `measure_failover_convergence` | the signal moves between and during reads; the clock is drawn before, between or after | `Waiting`, `WaitingProofs` |
| Homing (`homing.py`) | none of its own; each appliance's VLANs and overlay entries | `realize`, `home_client`, `set_subnet_advertised`, `verify_home` | a call is a sequence of driver operations each of which may fail with or without effect; the next call starts from what is left; a configuration is replaced whole | `ClientHome`, `Homing`, `HomingProofs`, `OverlayConfig` |
| Placement (`_capture.py`, `path_placement.py`) | captures started, the trace of samples; beside it capture processes and files | `capture_shared_window`, `read_fields`, `locate_streams_by_size`, `await_stream_on_path` | captures start and stop one after another while the stream moves; starts outside the `try`, stops without a guard each | `Placement`, `PlacementProofs` |
| Other operations on devices (`iperf_client.py`, `iperf_generator.py`, `http_server.py`, `pcap_capture.py`, `dhcp_client.py`, `firewall.py`, `netem_controller.py`, `sip_phone.py`, `wifi_client.py`, `tr069_server.py`, `measure_external_flow`) | none of their own; processes, leases, mappings on the devices | a few driver calls each; context managers | the second start failing loses the first process's id; brackets nest; members renamed between driver generations | `Sessions`, `OperationsProofs` |
| Readers (`pairs.py`, `selection.py`, `segmentation.py`, `sender_life_record`, `scripts/neutrality_scan.py`) | none | two forms of one field, criteria over candidates, logs, diffs | boundary values, defaults that stand for something, order of discovery | `Readers` |
| Records (`_released.py`, `_compat.py`, `marking_observation.py`, `packages/testprotocols/.../models/networking.py`) | none | a record that equals the dict it replaced, sizes, marking of a flow's frames, HTTP responses | equality, rounding, frames counted twice | `Records` |
| Archetypes (`packages/testprotocols/.../devices`) | the type registry | `register_device_type`, `get_device_type`, conformance of a driver | members inherited, declared again, shared by chance | `Archetypes` |
| Contracts (`packages/testprotocols`) | none | none have bodies | a driver's effect stands in its own repository | the members and records that an operation uses are in `Sessions`, `Readers`, `Records`, `OverlayConfig` |
| Contract surface (`scripts/contract_surface.py`, `scripts/deprecation_parity.py`) | none | read a tree, diff two, judge the changelog entries | a class of change that asks for too little | `Surface` |
| Changelog and register (`scripts/changelog_entries.py`, `scripts/changelog_section.py`) | the two files, as parsed | entries, citations, register rows, sections of a release | files that several branches add to | `Changelog` |
| Hygiene rules (`scripts/pr_hygiene.py`, `scripts/design_doc.py`) | none | one rule per kind of pull request, who reviews it | rules that decide the same question independently, few files of the head fetched | `Hygiene` |
| Main under several pull requests | the tree of main, open branches | open, judge, push, land, release | main moves on between judgement and landing | `Repository`, `RepositoryProofs` |
| Review gate and statuses (`scripts/review_gate.py`, `.github/workflows/review.yml`, `hygiene.yml`) | the commit statuses and check runs of a pull request's heads | jobs that read the pull request and post a status | reads and posts of concurrent jobs, pushes and title edits in between, cancelled runs | `PullRequest`, `PullRequestProofs` |
| Release jobs (`.github/workflows/release.yml`) | none | section and versions of the tag, build, upload | runs on a main that merges made | the precondition in `Repository`; the rest not modelled |
| Conformance dispatch, DCO | none | one dispatch, one check | little | not modelled |

How they interact. `Rounds` calls the measurement `Throughput` models through a
callable (`measure_flow`, `measure`) and sees of it only: completed, did not
complete (`NonCompletion`), raised: the three answers of `MeasureFn`, which
`Throughput` is shown to implement. The flows it asks for and the facts it reads
off a log are in `Measurements`. The waits, homing, captures and brackets are
called by test steps one at a time; what they share is the test bed, which each
module models as the part of its state that moves on its own (`Tick`, `Flush`) or
stays behind when a call fails. Nothing in `testoperations` starts a thread; the
concurrency is between a call and the devices, and over time between a call and
what an earlier one left. The scripts are run by the workflows on a pull request:
`Repository` composes `Hygiene`, `Changelog` and `Surface` over several branches
and one main, `PullRequest` composes `Hygiene` with the gate and the runner over
one branch and its heads.

What would make each part correct:

* measurement - nothing it started outlives it, its rows are made of its own
  sessions, a reported non-completion is a fact, it ends in time;
* rounds - fresh ports, every absorbed failure reported, no half rounds, one
  budget for the whole;
* waits - bounded, a steady signal is never missed, a reported event happened;
* placement - a sample locates the stream where it was, a settled stream is
  found in time, nothing stays capturing;
* homing - never two homes, a completed call repairs everything, a repeated one
  disturbs nothing, nobody else's entries are touched;
* other operations - what is left running is accounted for, what returns is done;
* pure readers - the same answer from either form, in any order, of any input;
* review process - what broke is recorded, each pull request takes exactly one
  route and in the end a verdict, a release can be published.

`PROJECT.json` lists every hazard of the code at its line, with the properties
that would catch it or why none does.

## 2. Plan

Built, in this order: `Throughput` (and later `MeasureFn`), `Rounds`,
`ClientHome` and `Homing`, `Placement`, `Waiting` and `Sessions`, each with its
proofs; the review process (`Surface`, `Changelog`, `Hygiene`, composed by
`Repository` and `PullRequest`, with proofs for both); the pure readers
(`Readers`, `Records`, `Archetypes`, `Measurements`, `OverlayConfig`), which
`Operations` composes with `Sessions`.

`EXTENDS` and `INSTANCE`, from the top: `Throughput` instantiates `MeasureFn`
and `Homing` instantiates `ClientHome`, the abstract specifications they
implement; `Operations` extends `Sessions` and the five reader modules;
`Repository` extends `Hygiene` (which extends `Changelog`) and `Surface`
(likewise); `PullRequest` extends `Hygiene`. An `MC` module gives a
specification its constants; a `Proofs` module holds its theorems.

What is left, by worth: `BreaksAreRecorded` where an entry stands for a whole
deprecated class; inherited members in `Surface`; more of the readers.

## 3. The modules and the code

Each module's header says which functions it models; what follows gives the
correspondence of state and steps. What has no counterpart in the code is named
as such: the clock `now`, the hosts, and the ghosts properties need.

### Throughput (`throughput.py` 48-119, 167-462)

| Model | Code |
| --- | --- |
| `flows`, `N` | the `flows` argument; a flow is its index |
| `prior`, `started`, `senders` | `started: list[(flow, pid, log, prior)]` and `senders` of 354-355. Only lengths and prior counts are kept: both lists are filled in order, so entry *k* is flow *k*'s |
| `text`, `rxText` | the log text `_await_session` holds, and `receiver_text` |
| `results`, `outcome` | the rows, and the exception or return the call ends with |
| `deadline` | drawn once after the window (385) |
| `live`, `log`, `flushedAt` | external: iperf3 processes on the hosts, their log files, when each wrote this call's document |
| `unstopped` | ghost: processes whose `stop_traffic` raised or answered `False` |
| `RejectDuplicatePorts`, `AcceptPorts` | the port check (350-352) |
| `StartReceiver`, `CountPrior` | 357-359 and 360-361: the receiver runs before its log is read and is registered after |
| `StartSender` | 363-379; the client truncates its own log |
| `MeasureWindow` | 381-385, the sleep and the deadline |
| `ReadLog`, `KeepPolling`, `ReceiverDone`, `SenderDone`, `SenderMissed`, `NonCompletion` | `_await_session` and the row loop. The text is sampled when the read begins and judged up to `MaxRead` ticks later, so a host may write in between |
| `Stop`, `StopRaises`, `StopNothing` | the `finally` block (452-462) |
| `DriverRaises` | any of the driver calls above raising, before an effect |
| `StartRaisesLate` | a start raising after its process runs, which nobody then knows of |
| `Flush` | a host's process finishing: a document of either kind, or none ever |

A log is a sequence of documents, of three kinds: with a rate summary, without
one (an error document), or cut before its closing brace. `Readable` is what
`iter_json_docs` returns of it: everything before the first cut document,
because the scanner carries the unclosed depth to the end of the text. Bytes,
braces in strings and the fields of a row other than which document they came
from are left out.

`MeasureFn` is what an operation that is handed a measurement may count on (the
protocol of that name, and the docstring of `measure_concurrent_throughput`):
flows that share a port are refused with nothing started; a call answers once,
with a row for every flow or with an exception and no row; a row is of sessions
that completed in this call, each of the side that observed it; a non-completion
names the first flow without one; at the answer nothing is left running but what
refused to stop, or the one process a driver error lost: the receiver whose
prior count raised, or the process whose start raised when it was running. It
has no log, no clock and no order of stops. `Throughput` maps to it by

| `MeasureFn` | `Throughput` |
| --- | --- |
| `wrote[p]` | `OwnKinds(log[p])`: the kinds of this call's own documents in the log |
| `running`, `refused` | `live`, `unstopped` |
| `answer` | `outcome` from `pc = "done"` on, before that pending: the `finally` block comes between |
| `rows` | `results` of a call that returned; those of one that raised are dropped |

`Drive` stands for every driver call, `Finish` for `Flush`, and `Refuse`,
`Return`, `NonComplete`, `Raise` for the step that reaches `"done"`.

### Rounds (`throughput.py` 468-560, 948-1013)

`mode` chooses between the two engines that share `_retry_on_noncompletion`:
`"path"` is `_measure_rounds` (flow 0 is the unloaded probe, flow *k* the *k*-th
direction), `"set"` is `measure_concurrent_throughput_with_retry`. `Allocate` is
the caller's allocator called per attempt; `Completes`, `NonCompletes`,
`AttemptRaises` are the three answers of the measurement; `GiveUp`, `Redraw` and
`RetryCallbackRaises` the `except` branch (predicate, deadline, `on_retry`,
backoff); `Return`, `AnotherRound`, `RoundCallbackRaises` the end of a round
(`findings.append`, `on_round`, `stop_when`, deadline). `facts.by` is keyed by
name like `by_direction`, so a name given twice keeps its last direction.
`attempts` and `abandoned` are histories: the arguments `allocate` and `on_retry`
saw. A caller's predicate answers anything.

### Waiting

One module for four loops, told apart by `op`; they share the phases
`check` / `poll` / `reading` / `sampled` / `sleeping` and differ in where the
clock is drawn. `"await"` is `wait_until` under `_await_reading`
(`waiting.py` 33-54, 121-159): poll, then clock, then sleep. `"endpoint"` and
`"reboot"` check the clock first; the endpoint's loop reads an exception as "no
address", the reboot's has two phases over one deadline. `"failover"` has no
bound. The sampled signal (`up`) is the testbed's: it changes inside reads and
sleeps, at most `MaxFlips` times, and `flips` is its history.

### Homing and ClientHome (`homing.py`)

`defined` and `entry` are the appliances' VLANs and overlay entries - external
state, changed only by the driver calls here. `pc`, `k`, `j` are the position in
`realize`'s nested loop (or `home_client`'s single pass). Every driver operation
(`Delete`, `Withdraw`, `Define`, `Advertise`) succeeds, or raises with its
effect, or raises without it, and the exception ends the call. Calls follow one
another, so a call also starts from every state a failed one can leave.
`home_client` is called with a `previous` that names the other appliance with a
VLAN of the client (`lan`) and the other with an entry (`vpn`), each of which
may be none: that they are the only ones is what its parameter says of it, and
the two are tested one by one (`NoPrevious`). `realize` has no such
precondition. `set_subnet_advertised` is applied to subnets local to the
appliance, as its callers do; its write succeeds or never happened, a failed one
having no later step of the call to disturb.

`ClientHome` is the promise in terms of two sets per client, definers and
advertisers: define only when nobody else defines or advertises, advertise only
where defined, withdrawing always allowed. `Homing` implements it through
`Overlay == INSTANCE ClientHome WITH definers <- ..., advertisers <- ...`.

### Placement (`_capture.py`, `path_placement.py`)

`pc` and `k` are the place in `await_stream_on_path`'s loop: `Start` is one turn
of the loop over `start_tcpdump` (50-57), `Wake` the end of the sleep, `Stop` one
turn of the `finally` (60-62), `Read` one file of `locate_streams_by_size`,
`Found`, `GiveUp` and `SampleAgain` the judgement. `running` and `frames` are
external: the tcpdump processes and the stream's frames in their files. The
stream is a path that changes at any tick, at most `MaxMoves` times, and carries
a frame per tick; so a window never misses a stream that is there, and the
properties are about when a capture ran, not about how dense the traffic was.
A driver call takes effect at a moment; `timer` counts from one effect to the
next, at most `MaxCall` ticks. `StartRaises` and `StopRaises` happen with or
without the call's effect; `Interrupt` is any exception out of the sleep. The
trace (`samples`) is left out: its entries are what is judged. The caller's
anchor is `age` ticks old at the call, older than the budget too; a file that an
earlier call left behind may hold any of `Leftovers` frames. `since` and `ridden`
are ghosts of the stream's history.

### Sessions (`iperf_client.py`, `iperf_generator.py`, `http_server.py`, ...)

`facts` is what holds on the devices: processes, leases, mappings, a phone off
its hook. An operation is a sequence of driver calls, each with what it makes
true and what it ends; `Perform` makes the first `n` of them, all if none
raises, those after the one that raised not being made: a call that raises has
had its effect or not. `open` is the stack of context managers being in; `held`
the pids and ids a caller was given; `stuck` and `partial` are ghosts: processes
whose stop raised, and processes started by a call that then raised, the start
itself included. `Member` is `_renamed.py`'s choice between the new and the old
name of a driver member. `last` records the call for `ReturnedMeansDone`.
`Refuse` stands for the checks that come before the first call (`coerce_enum`,
sizes, equal peers).

### Readers, Records, Archetypes, Measurements, OverlayConfig, Operations

Pure functions as operators. A text is what a reader takes of it: a port text is
its items, a log its intervals, a diff line its mark and what stands on it, a
JSON value a record named for its type. `<<>>` is a missing optional value and
`RAISES` an exception. `Operations` asks one question at the start of a behaviour
(`asked`, from `Questions`) and compares the answer with a reference that is
stated differently from the code, in six properties: `RecordsReadAlike`,
`ChoicesAreRight`, `OutputsAreRead`, `DiffsAreScanned`, `RequestsAreRight`,
`ArchetypesAreTold`. They are made of

* `FormsAgree`, `OthersAgree` - a value reads the same from its released and its
  typed form (`pairs.py`), whatever order its terms are in;
* `OneCandidate`, `RolesAreStable`, `DenyIsFound`, `DecoyIsChecked` - selection
  judges candidates whole, roles do not depend on the order of discovery, a deny
  rule is found wherever it stands and what is found is that rule or one limited
  to some ports, a decoy never overlaps a network in use (`selection.py`,
  `segmentation.py`);
* `LifeIsWhole`, `LinesAreFound` - a sender's record is that of its intervals
  (one interval with its summary counts twice, section 7), each added line of a
  diff is found at its own number;
* `RecordsAreDicts`, `SizesAgree`, `FramesCountOnce`, `BodyIsFound` - the record
  layer, sizes, marking, HTTP bodies;
* `DriversAreTold`, `ClassesAreGated` - what passes for an archetype, and what
  the registry refuses;
* `FactsAreRead`, `ChainsAgree` - a spoiled part of a document costs its own
  fact alone; the external chain asks for what the managed one asks;
* `HomeIsRead`, with `SubnetIsSet` - what either change of an overlay
  configuration says of one subnet is what `Homing` has it say, and nobody
  else's entry moves.

### Surface, Changelog, Hygiene (`scripts/`)

`Surface!ReadSurface` takes parsed modules to symbols (records, protocols, enums,
aliases, functions, re-exports under their display paths), `Diff` two surfaces to
changes, `Needs` a change to the subsections it must be recorded under,
`CheckChangelog` to what is missing; `ParityProblems` is the parity of a
deprecation's marker, docstring and register row. `Changelog` holds the entries'
format, citations, and the rows of the register; `Hygiene` one operator per rule
of `pr_hygiene.py`, joined by `RunChecks`, and the readers of design documents.
A rule gives the set of its problems. Regular expressions are what they accept
(`Slugs`, `Versions`, `ProposalNames`, `Private` are constants), messages a word.

### Repository

`mainTree` is main, `prs` the open branches with the commit they left main at,
`OpenPr` and `OpenRelease` write a branch as an author would, with what the rules
ask for or less; `HygieneJob` judges its own files against main as it is by then,
of which any may be missing (`lost`: a fetch that fails only warns);
the contract step (`ContractJob`) the merge of the two at the push; `Land` needs
both green and merges into whatever main is by then, the branch protection not
asking a branch to be up to date; `Push` brings one up to date. `Merge` is git's,
with the changelog merged section by section: external, as is GitHub.
`BreaksAreRecorded` does not use `Diff`: what a change breaks is stated from
Python's own rules for calls (`Legal`, `Place`), for callers and for drivers.
Last in the module, `EditsAreAccountedFor` says of which contributions it is
proved (section 5); `MCRepository` has TLC evaluate it for those of the run.

### PullRequest

One pull request: `title`, `draft`, `fork`, the `commits` pushed, and per commit
the newest `review` status and the check `runs`. `hygiene` is the run under way
and `queued` the one of the concurrency group that waits; an event replaces it
and cancels the other. `ReadPr`, `Judge`, `SetReview`, `ReadStatus`, `Retract`
are the steps of `hygiene.yml`; what each read is in the record `hygiene`.
`GateReadsPr`, `GateDecides`, `GatePosts`, `GateDispatches` are those of
`review.yml` with `review_gate.py`; the wait for a pushed head's checks gives up
after five minutes and so is no guard. `EditTitle`, `MarkReady`, `Push`,
`Comment`, `CheckEnds`, `CheckReruns`, `RunnerPosts` are people, GitHub and the
runner.

## 4. What the runs check

| Run | Instance | What it shows |
| --- | --- | --- |
| `throughput_two_flows` | 2 flows, either direction, reads of 0-1 ticks, a log per flow with a rated, an unrated or a cut document left last; no faults | `FlowsOverlap`; `RowsOfThisCall`: a row never contains an earlier session's figures; `NonCompletionIsAFact`: the call never gives up on a session it could have read in time |
| `throughput_faults` | 2 flows, every driver call may raise, a start also when its process runs, `stop_traffic` too; poll interval 2 | `TypeOK`, `ImplementsMeasureFn` (refinement), `SendersStoppedFirst`, `BoundedOverrun`, and `Terminates` under fairness |
| `throughput_leak` | 1 flow, the prior count may raise | violation, see 7 |
| `rounds` | both engines, three directions of which two share a name, 12 ports | `FreshPorts`, `AbsorbedIsReported`, `RoundsAreWhole`, `BudgetBound` |
| `waiting` | all four loops, budgets -1, 0, 1, 4, 11, sleep 2, reads 0-1, three changes of the signal | `BoundedWait`, `SteadySignalIsSeen`, `RebootIsReal`, `MeasuredWithinAPoll`, and `WaitEnds` under fairness |
| `homing` | 3 appliances, 2 clients, 1 static subnet, 3 calls in a row | `ImplementsClientHome` (refinement), `RealizeSettles`, `RerunDisturbsNothing` |
| `placement` | 2 paths, budget 8, window 1, calls of 0-1 ticks, an anchor that is new or older than the budget, files left over or none, two moves of the stream, any call may raise | `SamplesAreFacts`, `SettledStreamConverges`, `CapturesReleased`, `BoundedSampling` |
| `operations` | 2 hosts of which one has the renamed members, 1 port, 3 operations in a row, every driver call may raise, with its effect or without; some 23000 questions | `Accounted`: what runs is held, being in a bracket, or was lost by a named call; `ReturnedMeansDone`; and the six properties of what is read: `RecordsReadAlike`, `ChoicesAreRight`, `OutputsAreRead`, `DiffsAreScanned`, `RequestsAreRight`, `ArchetypesAreTold` |
| `repository` | a protocol, a record, an operation and a design document; 13 contributions and a release, 3 pull requests, two at once, one update, any fetch may fail | `TypeOK`, `BreaksAreRecorded`, `RoutedOnce`, `FilesFetched`, `NotesPublishable` |
| `release_race` | the same with two contributions | violation, see 7 |
| `pull_request` | 2 heads, a title edit, a comment, a check run again, one gate run at a time, opened as a draft, from a branch or a fork | `QuietIsJudged`, `AskedForItsHead`, and `Decided` under fairness |
| `pull_request_verdict` | 1 head, three title edits, one comment | violation, see 7 |

Every property of a passing run has a mutant in `PROJECT.json`: a definition of
the model changed the way a plausible bug would change the code (a dropped
pause, a loop once too often, ports drawn once, a title edit that starts no run),
under which TLC finds the property violated. The mutated definitions stand next
to the originals, named `<definition>_<change>`. The types of the other modules
are proved for every value of their constants (section 5) and not run again.

Bounds, and why they are enough:

* **Flows**: two. The loops treat flows one after another and alike; what needs
  more than one is the shared deadline, the overlap and the order of the stops,
  and all three need exactly a second flow. The proofs cover every `N`.
* **Time**: ticks are small integers; each duration is the smallest that still
  separates the cases (a poll of 2 so that a deadline can fall inside a sleep;
  reads of up to 1 so that a write can fall inside a read; budgets shorter than
  one sleep, equal to a poll boundary, and longer than several).
* **Prior logs**: one or two documents. What the code takes from a log is its
  number of readable documents and the last of them.
* **Rounds**: a budget of 11 ticks allows several rounds and re-draws in each,
  12 ports are few enough to run out in the middle of one.
* **Signal**: three changes make down-up-down-up, enough for a reboot with one
  flap on either side; `Horizon` is when the router has failed over for good.
* **Placement**: a whole sample takes up to 7 ticks, so a budget of 8 has a full
  sample end inside it and another begin; two moves let the stream leave a path
  and settle on another within one sample.
* **Homing**: `MaxCalls` = 3 is a failed call, another on what it left, and a
  repair; three appliances are a source, a target and a bystander. The proofs
  cover any number of each.
* **Operations**: three are two brackets and what happens in them, two starts
  and a stop, two mappings and a reset; the theorem covers any number. Questions
  are sequences of up to three items and the boundary values of each reader.
* **Repository**: the third pull request lands on what two others made of main,
  a release among them. Only one release fits into three pull requests.
  Changes of variadic parameters, base classes and re-exports, and a protocol's
  parameter annotation that gets wider (which asks for no entry), are not among
  the 13 contributions; the theorem has all but the base classes.
* **PullRequest**: two heads are a verdict and what a push makes of it; one
    title edit with one gate run reaches every order of the hygiene steps, the
  gate's steps and the runner's. `MaxGates` is a bound of the exploration: with
  one gate run at a time a push comes between its two reads only where the push
  starts no run of its own, on a fork or a draft. The theorems are for any.

Fairness. `Throughput!FairSpec` is weak fairness of `Call`, the caller's own
thread: it is always runnable, drivers have command timeouts, sleeps end.
Nothing is assumed of the hosts: a process that never writes is a behaviour, and
`Terminates` holds over it. `Waiting!FairSpec` is weak fairness of the caller's
`Step` and of `Tick` (time passes). Nothing makes the router fail over: from
`Horizon` on it may stay on the impaired uplink for ever (`Impaired`, the clock
then not being counted), and the loop with it. `WaitEnds` says just that: the
wait ends, or the router is impaired for good. `PullRequest!FairSpec` is weak
fairness of the hygiene job, of the gate and of the runner: GitHub starts what
it queued and runs what it started, the runner answers. Nothing is assumed of
people.

Deadlock is checked where a call ends: a finished one stutters explicitly
(`Finished`). `operations`, `repository`, `release_race`, `pull_request` and
`pull_request_verdict` explore until their bounds are used up, which is no
deadlock of the system, and say so in their configurations.

## 5. What is proved

`ThroughputProofs`, `RoundsProofs`, `HomingProofs`, `PlacementProofs`,
`WaitingProofs`, `OperationsProofs`, `RepositoryProofs` and `PullRequestProofs`
prove, for every value of the constants the assumptions allow, from the named
`ASSUME`s in the modules:

| Theorem | Statement | Rests on |
| --- | --- | --- |
| `ThroughputProofs!TypeCorrect` | `Spec => []TypeOK` | itself inductive |
| `...!FlowsOverlapCorrect` | receivers first, all clients before the wait | an invariant that ties `pc`, `i`, `started`, `senders` and `live` together: `started` says how far the first loop is, and that no receiver has left `live` while the call measures |
| `...!OnlyFailedStopsOutliveCorrect` | what outlives the call | the same invariant through the `finally` block: what is live and not unstopped is still ahead of the stop loop, or the one process past `started` or `senders` |
| `...!SendersStoppedFirstCorrect` | the action property | the previous two, at the single action that removes a receiver |
| `...!BoundedOverrunCorrect` | the overrun of the deadline | a bound that grows with the position in the 2N waits: each wait started adds at most one read, a poll only if it began before the deadline |
| `...!RowsOfThisCallCorrect` | a row is of this call's sessions | `FreshInv`: `LogInv` (a log's sessions beyond the counted ones end in a document of this call), `TextInv` (so do those of a text read from it), `RowsInv`, and the lemma that appending a document adds at most the session it is |
| `...!NonCompletionIsAFactCorrect` | a non-completion is a fact | `TextInv` (the text judged last is still the log, unless the document came in that instant) and `FactInv` (what is flushed later comes past the deadline) |
| `...!ImplementsMeasureFnCorrect` | `Spec => Promise!Spec` | `OnlyFailedStopsOutlive`, and `PromiseInv`: `OwnInv` (a process that has not flushed has no document of this call in its log, so that the one it flushes is its only one), `ReadInv` (a text that passed `_await_session` means its process wrote a rated session), `AnswerInv` (the flows so far are confirmed, at a non-completion the ones before it), `EndInv` (which outcomes a call can be unwinding with). One lemma per abstract action: the steps inside the call are `Drive`s, the last one is the answer |
| `RoundsProofs!TypeCorrect`, `BudgetBoundCorrect`, `FreshPortsCorrect`, `AbsorbedIsReportedCorrect`, `RoundsAreWholeCorrect` | the four safety properties of the retry engines | `ClockInv` (the clock as a function of the flow reached), `PortsInv` (ports of past attempts lie below `port`), `IndexInv` (the attempt in progress is the last one, of this round and flow), `AbsorbInv` (an attempt is absorbed exactly if the next has its flow), `FactsInv` (`facts` holds what the flows so far measured) |
| `HomingProofs!ImplementsClientHomeCorrect` | `Spec => Overlay!Spec` | `SweepInv`: when the sweep has passed an appliance nothing of the client is left on it, so at `Define` the guard of the abstract step holds |
| `...!RealizeSettlesCorrect` | a returned `realize` has settled everything | `DoneInv`: the assignments before `k` that nothing later moves are settled, and stay so under the steps for another client |
| `...!RerunDisturbsNothingCorrect` | a repeated topology changes nothing | `RerunInv`: `settledAt` carries the fact through the call, every operation then writing what is there |
| `PlacementProofs!CapturesReleasedCorrect` | what still captures when the operation is over | `RunningInv`: which captures run at each place of the three loops |
| `...!BoundedSamplingCorrect` | the overrun of the budget | `ClockInv`: the time since the sample began, by the calls made so far; a sample begins within the budget |
| `...!SamplesAreFactsCorrect` | a sample locates the stream where it was | `SightInv` (a file of this sample holds frames only of paths ridden in it, and a standing stream's file is full after the window), and the lemma that a path with most frames exists, by the well-foundedness of strict inclusion among the sets of better paths |
| `...!SettledStreamConvergesCorrect` | giving up is not a matter of luck | the two above, at `GiveUp` |
| `WaitingProofs!TypeCorrect`, `BoundedWaitCorrect` | no wait with a budget passes it by more than an interval and the reads of a poll | `ClockInv`: what the clock shows at each place, `wait_until` drawing it before the sleep and the other two before the call |
| `...!SteadySignalIsSeenCorrect` | a signal that held through the wait is not given up on | `AgeInv` (how old the last reading is), `LastInv` (a loop that goes on has read what it does not wait for), `AwayInv` (a reboot loop that has not seen the device away read it as there once in every window) |
| `...!RebootIsRealCorrect` | a reported reboot was down and then up | `DownInv`: a device that counts as down was down at a moment of this wait |
| `...!MeasuredWithinAPollCorrect` | the failover time, against the change of path | `PrevInv`, `WrongInv` (the two stamps and the readings they belong to), and the lemma that a signal that goes up once was down all the time before. All five use `PastStands`: what the signal was at an earlier moment is not rewritten by later changes |
| `OperationsProofs!EveryProcessAccountedFor` | what runs on a device is accounted for, for any number of operations | `Numbered` (pids are fresh), `OpenOnce` (a bracket stands for one process, opened once), `OneService` (one service per port, so that a stop by port ends only its own), `NoneLost` |
| `...!ReturningMeansDone` | an operation that returned has done what it is for | the same invariant and `Leases` (every host has one lease of the interface at most, so that the new one replaces the old): one lemma per operation follows its calls to the end |
| `...!AnswersOfAnySize`, `SizesAgreeForAll`, `DecoyIsCheckedForAll`, `DenyIsFoundForAll`, `OneCandidateForAll`, `RecordsAreDictsForAll` | `ChoicesAreRight`, `OutputsAreRead` and `RecordsReadAlike`, for questions of any size of five kinds (`Unbounded` says which): numbers, networks, policies, candidates, records | per reader its own argument: the least index that `SelectInSeq` takes exists (by the well-foundedness of strict inclusion), integer division, a record read back field by field from its dict. Of a deny rule: the search compares four fields of the five, and the first rule that agrees in them denies the same but for its ports |
| `...!ClassIsGatedForAll`, `SubnetIsSetForAll` | parts of `ClassesAreGated` and `HomeIsRead`, for any registry and class, and for an overlay configuration of any length | what has drifted is what `NonCapabilityMembers` finds; every entry of the changed list is the old one or the new, by the places before and after its old end |
| `RepositoryProofs!FilesFetchedCorrect` | hygiene's fetched files are all its rules read | for any pull request and trees: one lemma per rule that reads the head, and `head_paths` has what it reads; of a fetch that failed, one more per rule (`LostIsMissed`): a rule passes no file that it has not seen |
| `...!RoutedOnceCorrect` | set by hygiene or sent to reviewers, never both | `KeptInv`: an open pull request that passed still has a title and scope that pass; the lemma `Routes` says that those decide as `reviewers_for` does |
| `...!RepositoryTypeOK`, `NotesPublishableCorrect` | main's files, and the notes of every release | `LogInv`: main is a tree with `shipped` releases (`LogOf`: its headings from the bottom are those of the start, the releases in their order, [Unreleased]), every branch left such a main and goes on from it, a release branch is the next release and the only one, and one that passed has a section that says something. The work is in the lemmas on git's merge (`MergedLog`, `MergedTree`): what three trees that go on from one have in common their merge keeps |
| `...!ChangelogGoesOn` | an action property: main's changelog only grows | the same invariant, and `MergedEntries`: a merged section is that of main with what the branch added below it |
| `...!DiffFindsBreaks` | of any two forms of a symbol, every break is a reported difference, of the part that broke, that needs an entry | nothing of the repository: one lemma per part (parameters, members, fields, enums, kinds), each from Python's rules to the class of the difference. The work is in the places of positional parameters: `_diff_params` compares places among the names both sides have and looks at added ones by themselves, and a shift of any place shows up in one of the two |
| `...!BreaksAreRecordedCorrect` | main's changelog tells of all that its surface broke since the start, for contributions of which `EditsAreAccountedFor` is true | `RecInv`: main told all that it broke since the start (`KeptUp`), all that it broke since any open branch left it, a branch holds of every source what it left main with or its edit, and one that passed lint has an entry for every break of its edit (`Announces`). At `Land` the file is main's or the branch's edit; the break is then main's or the edit's, and the merge keeps the entries of both (`MergedSaid`, from `MergedTree`), the register's sections included |
| `...!SurfacesAddUp` | of three surfaces, what the last breaks of the first is broken between neighbours | the same lemmas on places: it says when the last part of `EditsAreAccountedFor` is true, which is when nothing is away in the middle one and back in the last |
| `PullRequestProofs!TypeCorrect`, `AskedForItsHeadCorrect` | a request names what its head takes | `GatesInv`: what a gate run has read of title and files is of its head, or its head is no longer the newest |
| `...!QuietIsJudgedCorrect` | a quiet head that passed without a review takes none | `QueueInv` (the run that waits is on the newest head), `HygieneInv` (with none waiting the run under way is on it too and has read the title that still stands), `SetInv` (what the job is about to set is what the rules say), and the lemma that the files it fetched are enough |

The properties are not inductive by themselves: each speaks about one place
(the end of the call, the moment of an action), and the invariants above carry
the fact from where it is established to there.

Only model-checked: liveness (`Terminates`, `WaitEnds`, `Decided`: the provers
here do no fairness); the readers that are defined by folds, sorts, `SelectSeq`
or `@@` (`Operations`: ports, logs, diffs, roles, frames, measurement facts, HTTP
bodies, archetypes), which are checked against references over bounded inputs: the
provers here cannot expand those operators or do induction over data.

`BreaksAreRecorded` is not true of all contributions, and `EditsAreAccountedFor`
is the hypothesis of its theorem rather than an assumption of the module. It
leaves out what lint does let pass unsaid, or said of something else:

* a symbol, member, parameter or field that is taken away and comes back in
  another form. Lint compares neighbours, so the removal is told and the return
  is an addition; that the two together break what was released is nowhere said;
* a class deprecated as a whole, whose one entry stands for all of its members
  (`_deprecated_with_row`), those that a later change breaks included;
* an entry that names a class and a parameter but not the member whose parameter
  it is: `names_change` takes it for a change of any member with that parameter;
* sources that share a module, or are the changelog's or the version's files.

Each part is about single edits, whatever else a file can hold by then (`Held`),
never about runs. What a class inherits is not in the surface (nor in
`contract_surface.py`'s): two branches that change a class and its base could
break together what neither breaks alone.

`RepositoryAssumption` is what the proofs about main take from its start and
from the authors: the files are there and [Unreleased] is the first section and
undated, the versions to come are new and different, a contribution that is no
release touches the changelog by its entries only and leaves the versions alone,
and an entry is never one of the lines that stand for there being none. TLC
evaluates it in the `repository` and `release_race` runs.

## 6. What is not modelled

* Most of the contracts package: the members and records that no operation uses
  are declarations without bodies, and what a driver does behind them stands in
  the driver's repository. They are two thirds of the code by lines.
* Text: regular expressions, the Python and Markdown parsers, messages, Markdown
  and JSON reports, formatting. `iter_json_docs` is modelled on documents, not on
  characters.
* Second writers: another client of an appliance between the read and the
  replace of its configuration (`homing.py:107`), foreign sessions on a call's
  ports (`throughput.py:360`). The code takes its caller to be alone in both.
* What a tool prints in cases that the code does not tell apart: tshark on an
  ICMP error that quotes a flow.
* Several reads of one capture file: `read_fields` removes the file with the last
  of them. A file that a read left behind is there at the start of a run and a
  capture opens it anew; a capture that an earlier call left running on the same
  file is not modelled.
* Numbers that are NaN, and the rounding of floats: a count or a time of Infinity
  is (`INFINITE`), and what raises on it. In `Throughput` such a reading is a call
  that raises.
* Failed calls of the review workflows: a fetch of a head file may fail in
  `Repository`; in `PullRequest` all calls to GitHub succeed, and label and body
  events are left out.
* `release.yml`'s build, attestation and upload; the corpus dispatch of
  `review.yml`, `conformance-dispatch.yml`, `dco.yml`: they post nothing that
  another job of the repository reads.
* `scan_ssid`, `read_tcpdump`: one read each, nothing kept.

## 7. Findings

* `throughput_leak` - a receiver is running before its log is read and
  registered after; a read that raises leaves it running, against
  `measure_concurrent_throughput`'s "no iperf process outlives the call - also
  on failure". `OnlyFailedStopsOutlive` is what does hold: a theorem, and in
  `throughput_faults` part of what `ImplementsMeasureFn` says of the answer.
* `pull_request_verdict` - the retract step of hygiene reads the review status
  and posts over it in a later call, so a verdict that arrives in between is
  lost, against the comment "one posted by the agent review is left alone"
  (`.github/workflows/hygiene.yml` 110-112, the read at 116).
* `release_race` - the register and the changelog are compared on the head of a
  pull request, and a branch need not be up to date to land. One that adds a
  `next release` row and its entry, judged before a release lands, leaves the
  entry in a section that is already released and the row without one, against
  "the CHANGELOG *Deprecated* sections list exactly these rows"
  (`packages/testprotocols/DEPRECATIONS.md` 18-22).

Four docstrings say more than holds, without a run of their own:
`sender_life_record` says that the summary "is excluded"
(`iperf_client.py` 109-110 and 138-139), but that of a run of one interval has
the interval's own span, the fallback (`or rows`, 162) keeps both, and the bytes
count twice (`LifeIsWhole` names the case); `wait_until`
polls once more after its deadline (`BoundedWait` is the bound), a "still wrong"
stamp is drawn after the reading it belongs to (`MeasuredWithinAPoll`), and the
captures of a shared window start and stop one after another
(`SamplesAreFacts`). `find_matching_deny` takes a rule that denies some ports
only for the wanted rule of all ports: it compares four fields, as it says
(`DenyIsFound`). A log whose last document was cut hides every later session
from the measurement; `NonCompletionIsAFact` says what a reported non-completion
then means.
