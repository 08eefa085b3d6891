------------------------------ MODULE Placement ------------------------------
(***************************************************************************)
(* Waiting for a stream to land on a path                                  *)
(* (packages/testoperations/src/testoperations: await_stream_on_path and   *)
(* locate_streams_by_size of path_placement.py over capture_shared_window  *)
(* and read_fields of _capture.py).                                        *)
(*                                                                         *)
(* Each sample starts a capture on every path in turn, sleeps through one  *)
(* window, stops every capture in turn, reads every file and takes the     *)
(* path with the most frames for the stream's.  The stream moves between   *)
(* the paths when it likes; a driver call takes time, may raise, and then  *)
(* ends the operation where it stands; so may an interrupt of the sleep.   *)
(*                                                                         *)
(* A path is its place in `paths`; None is no path at all.  The stream     *)
(* carries a frame per tick.  The trace is left out: its entries are       *)
(* Elapsed and Located of each time the operation is at "judge".  A file   *)
(* that an earlier call left, its read having raised, may lie where a      *)
(* capture is to write: a starting tcpdump opens its file anew.            *)
(***************************************************************************)
EXTENDS Naturals

CONSTANTS
    N,          \* how many paths are watched
    Expected,   \* expected_path
    Budget,     \* budget_s
    Window,     \* poll_s
    MaxCall,    \* the longest between the effects of two driver calls
    Ages,       \* bound: how old the caller's anchor may be at the call
    Leftovers,  \* bound: the frames an earlier call may have left in a file
    MaxMoves    \* bound: how often the stream moves

ASSUME PathsAssumption == N \in Nat \ {0} /\ Expected \in 1..N
ASSUME TimeAssumption == /\ Budget \in Nat
                         /\ Window \in Nat \ {0}
                         /\ MaxCall \in Nat
ASSUME MovesAssumption == MaxMoves \in Nat
ASSUME StartAssumption == Ages \subseteq Nat /\ Leftovers \subseteq Nat

Path == 1..N
None == 0

\* The longest one sample takes: three driver calls per path and the window.
Cycle == Window + 3 * N * MaxCall

VARIABLES
    pc,             \* what the operation does next
    k,              \* the path its current loop is at
    timer,          \* ticks since the last driver call took effect
    running,        \* the captures running on the paths
    frames,         \* the frames of the stream in each path's capture file
    interrupted,    \* the sleep was interrupted: the stops run on the way out
    outcome,        \* how the operation ended
    age,            \* how old the caller's anchor was at the call
    now,            \* the clock, counted from the call
    from,           \* when the current sample began
    stream,         \* the path the stream is on
    since,          \* since when
    moves,          \* how often it has moved
    ridden          \* where it was during the current sample

sight == <<stream, since, moves, ridden>>
vars == <<pc, k, timer, running, frames, interrupted, outcome, age, now, from, sight>>
-----------------------------------------------------------------------------
Init ==
    /\ pc = "start" /\ k = 1
    /\ timer = 0
    /\ running = {} /\ frames \in [Path -> Leftovers]
    /\ interrupted = FALSE
    /\ outcome = "pending"
    /\ age \in Ages /\ now = 0 /\ from = 0
    /\ stream \in Path \cup {None} /\ since = 0 /\ moves = 0
    /\ ridden = {}

Elapsed == age + now

\* The loop over the paths, then what follows it.
Loop(then) ==
    IF k < N THEN k' = k + 1 /\ pc' = pc ELSE k' = 1 /\ pc' = then

\* An exception leaves the operation; the trace is lost with it.
Raise(kind) == outcome' = kind /\ pc' = "done" /\ k' = k

\* Mutant: a sample's frames are added to those of the file before it.
Capture_Appends ==
    /\ running' = running \cup {k}
    /\ UNCHANGED frames

\* start_tcpdump opens the path's file anew.
Capture ==
    /\ running' = running \cup {k}
    /\ frames' = [frames EXCEPT ![k] = 0]

Start ==
    /\ pc = "start"
    /\ timer' = 0
    /\ Capture
    /\ Loop("window")
    /\ UNCHANGED <<interrupted, outcome, now, from, sight>>

\* The starts stand before the try: a raise leaves the earlier captures running.
StartRaises ==
    /\ pc = "start"
    /\ timer' = timer
    /\ Capture \/ UNCHANGED <<running, frames>>
    /\ Raise("start_raised")
    /\ UNCHANGED <<interrupted, now, from, sight>>

\* The window has passed.
Wake ==
    /\ pc = "window" /\ timer = Window
    /\ pc' = "stop" /\ timer' = 0
    /\ UNCHANGED <<k, running, frames, interrupted, outcome, now, from, sight>>

\* Mutant: the stops follow the sleep without a finally.
Interrupt_NoFinally ==
    /\ pc = "window"
    /\ interrupted' = TRUE /\ timer' = 0
    /\ Raise("interrupted")
    /\ UNCHANGED <<running, frames, now, from, sight>>

\* The sleep raises: on to the finally block.
Interrupt ==
    /\ pc = "window"
    /\ interrupted' = TRUE
    /\ pc' = "stop" /\ timer' = 0
    /\ UNCHANGED <<k, running, frames, outcome, now, from, sight>>

\* After the last stop the call goes on, or its interrupt does.
Stop ==
    /\ pc = "stop"
    /\ timer' = 0
    /\ running' = running \ {k}
    /\ IF k = N /\ interrupted
       THEN Raise("interrupted")
       ELSE Loop("read") /\ UNCHANGED outcome
    /\ UNCHANGED <<frames, interrupted, now, from, sight>>

\* The stops have no guard each: a raise ends the finally block.
StopRaises ==
    /\ pc = "stop"
    /\ timer' = timer
    /\ running' \in {running, running \ {k}}
    /\ Raise("stop_raised")
    /\ UNCHANGED <<frames, interrupted, now, from, sight>>

\* One band, so one read per file.
Read ==
    /\ pc = "read"
    /\ timer' = 0
    /\ Loop("judge")
    /\ UNCHANGED <<running, frames, interrupted, outcome, now, from, sight>>

ReadRaises ==
    /\ pc = "read"
    /\ timer' = timer
    /\ Raise("read_raised")
    /\ UNCHANGED <<running, frames, interrupted, now, from, sight>>

\* max over the paths that carry the stream: the first of those with most frames.
Located ==
    IF \A p \in Path : frames[p] = 0 THEN None
    ELSE CHOOSE p \in Path :
            /\ \A q \in Path : frames[q] <= frames[p]
            /\ \A q \in 1..(p - 1) : frames[q] < frames[p]

Found ==
    /\ pc = "judge" /\ Located = Expected
    /\ outcome' = "converged" /\ pc' = "done"
    /\ UNCHANGED <<k, timer, running, frames, interrupted, now, from, sight>>

\* Mutant: the budget is looked at before the sample.
GiveUp_First ==
    /\ pc = "judge"
    /\ Elapsed > Budget
    /\ outcome' = "expired" /\ pc' = "done"
    /\ UNCHANGED <<k, timer, running, frames, interrupted, now, from, sight>>

GiveUp ==
    /\ pc = "judge" /\ Located # Expected
    /\ Elapsed > Budget
    /\ outcome' = "expired" /\ pc' = "done"
    /\ UNCHANGED <<k, timer, running, frames, interrupted, now, from, sight>>

\* The next sample begins; its captures are anew.
NextSample ==
    /\ pc' = "start"
    /\ from' = now /\ ridden' = {}
    /\ UNCHANGED <<k, timer, running, frames, interrupted, outcome, now, stream,
                   since, moves>>

\* Mutant: the budget is not looked at.
SampleAgain_NoBudget ==
    /\ pc = "judge" /\ Located # Expected
    /\ NextSample

SampleAgain ==
    /\ pc = "judge" /\ Located # Expected
    /\ Elapsed <= Budget
    /\ NextSample

\* The stream stays where it is, or moves to another path or off all of them.
Stream ==
    \/ UNCHANGED <<stream, since, moves>>
    \/ /\ moves < MaxMoves
       /\ moves' = moves + 1
       /\ stream' \in (Path \cup {None}) \ {stream}
       /\ since' = now'

\* Time passes: the running captures see the stream, then it may move.
Tick ==
    /\ \/ pc \in {"start", "stop", "read"} /\ timer < MaxCall
       \/ pc = "window" /\ timer < Window
    /\ timer' = timer + 1 /\ now' = now + 1
    /\ frames' = [p \in Path |->
                    IF p \in running /\ p = stream THEN frames[p] + 1 ELSE frames[p]]
    /\ ridden' = ridden \cup {stream}
    /\ Stream
    /\ UNCHANGED <<pc, k, running, interrupted, outcome, from>>

Step == \/ Start \/ Wake \/ Stop \/ Read \/ Found \/ GiveUp \/ SampleAgain
        \/ StartRaises \/ Interrupt \/ StopRaises \/ ReadRaises

Finished == pc = "done" /\ UNCHANGED vars

Next ==
    \/ Step /\ UNCHANGED age
    \/ Tick /\ UNCHANGED age
    \/ Finished

Spec == Init /\ [][Next]_vars
-----------------------------------------------------------------------------
TypeOK ==
    /\ pc \in {"start", "window", "stop", "read", "judge", "done"}
    /\ k \in Path
    /\ timer \in 0..(Window + MaxCall)
    /\ running \subseteq Path
    /\ frames \in [Path -> Nat]
    /\ interrupted \in BOOLEAN
    /\ outcome \in {"pending", "start_raised", "stop_raised", "read_raised",
                    "interrupted", "converged", "expired"}
    /\ age \in Nat /\ now \in Nat /\ from \in 0..now /\ since \in 0..now
    /\ stream \in Path \cup {None} /\ moves \in 0..MaxMoves
    /\ ridden \subseteq Path \cup {None}

\* "which path carries the signature": whatever lay in the files before, a located
\* stream did ride that path during the sample, and one that stood still through
\* the sample, on a path or on none, is located exactly there.
SamplesAreFacts ==
    pc = "judge" =>
        /\ Located = None \/ Located \in ridden
        /\ since <= from => Located = stream

\* Giving up is not a matter of luck: a stream that had settled on the expected
\* path a sample's length before the budget ran out has been located there, in
\* any phase of the sampling.
SettledStreamConverges ==
    outcome = "expired" =>
        stream # Expected \/ (since > 0 /\ age + since + Cycle > Budget + 1)

\* "The stops run in a `finally` so an interrupted wait still releases every
\* started capture": only a start or a stop that raised leaves any running, a start
\* those it came after and itself, a stop itself and those it came before.
CapturesReleased ==
    pc = "done" =>
        \/ running = {}
        \/ outcome = "start_raised" /\ running \subseteq 1..k
        \/ outcome = "stop_raised" /\ running \subseteq k..N

\* The budget is looked at between samples: it is passed by at most one of them,
\* also by a call that begins when its anchor is older than the budget.
BoundedSampling == now <= Cycle \/ Elapsed <= Budget + Cycle
=============================================================================
