--------------------------- MODULE PlacementProofs ---------------------------
(* Theorems about Placement, for every number of paths and any timing. *)
EXTENDS Placement, FiniteSetTheorems, WellFoundedInduction, TLAPS

(***************************************************************************)
(* Type correctness.  The timer needs the place in the operation: it stays *)
(* within one call outside the window and within the window inside it.     *)
(***************************************************************************)
TimerInv ==
    /\ pc \in {"start", "stop", "read"} => timer <= MaxCall
    /\ pc = "window" => timer <= Window
    /\ pc = "judge" => timer = 0

IndexInv == TypeOK /\ TimerInv

LEMMA PathType == 1 \in Path /\ None \notin Path /\ Path \subseteq Nat
BY PathsAssumption DEF Path, None

LEMMA IndexInvInit == Init => IndexInv
<1> SUFFICES ASSUME Init PROVE IndexInv
  OBVIOUS
<1>1. timer \in 0..(Window + MaxCall) /\ timer <= MaxCall
  BY TimeAssumption DEF Init
<1>2. moves \in 0..MaxMoves
  BY MovesAssumption DEF Init
<1>3. k \in Path
  BY PathType DEF Init
<1>4. from \in 0..now /\ since \in 0..now /\ now \in Nat
  BY DEF Init
<1>5. frames \in [Path -> Nat] /\ age \in Nat
  BY StartAssumption DEF Init
<1>6. TypeOK
  BY <1>1, <1>2, <1>3, <1>4, <1>5 DEF TypeOK, Init
<1>7. TimerInv
  BY <1>1 DEF TimerInv, Init
<1> QED BY <1>6, <1>7 DEF IndexInv

\* A turn of a loop keeps its index among the paths.
LEMMA LoopType ==
  ASSUME TypeOK, NEW then, Loop(then)
  PROVE  k' \in Path /\ pc' \in {pc, then}
BY PathType, PathsAssumption DEF Loop, TypeOK, Path

\* Opening a file anew keeps the files and the captures typed.
LEMMA CaptureType ==
  ASSUME TypeOK, Capture
  PROVE  running' \subseteq Path /\ frames' \in [Path -> Nat]
BY DEF Capture, TypeOK

\* The steps of the operation itself: time stands still and so does the stream.
LEMMA StepStill == Step => UNCHANGED <<now, stream, since, moves>>
BY DEF Step, Start, Wake, Stop, Read, Found, GiveUp, SampleAgain, NextSample,
       StartRaises, Interrupt, StopRaises, ReadRaises, sight

\* What Tick does to the clock and to the stream.
LEMMA TickStream ==
  ASSUME TypeOK, Tick
  PROVE  /\ now' = now + 1 /\ timer' = timer + 1
         /\ stream' \in Path \cup {None} /\ moves' \in 0..MaxMoves
         /\ since' \in 0..now' /\ now' \in Nat /\ from \in 0..now'
<1>1. now' = now + 1 /\ timer' = timer + 1 /\ Stream
  BY DEF Tick
<1>2. /\ now \in Nat /\ since \in 0..now /\ from \in 0..now
      /\ moves \in 0..MaxMoves /\ stream \in Path \cup {None}
  BY DEF TypeOK
<1>3. now' \in Nat /\ from \in 0..now' /\ since \in 0..now'
  BY <1>1, <1>2
<1>4. CASE UNCHANGED <<stream, since, moves>>
  BY <1>1, <1>2, <1>3, <1>4
<1>5. CASE ~UNCHANGED <<stream, since, moves>>
  <2>1. /\ moves < MaxMoves /\ moves' = moves + 1 /\ since' = now'
        /\ stream' \in (Path \cup {None}) \ {stream}
    BY <1>1, <1>5 DEF Stream
  <2>2. moves' \in 0..MaxMoves
    BY <1>2, <2>1, MovesAssumption
  <2>3. since' \in 0..now'
    BY <1>3, <2>1
  <2> QED BY <1>1, <1>3, <2>1, <2>2, <2>3
<1> QED BY <1>4, <1>5

\* Tick counts a frame at most, and on the stream's path only.
LEMMA TickFrames ==
  ASSUME TypeOK, Tick
  PROVE  /\ frames' \in [Path -> Nat]
         /\ \A p \in Path : frames'[p] = IF p \in running /\ p = stream
                                         THEN frames[p] + 1 ELSE frames[p]
<1>1. frames' = [p \in Path |->
                    IF p \in running /\ p = stream THEN frames[p] + 1 ELSE frames[p]]
  BY DEF Tick
<1>2. \A p \in Path : frames[p] \in Nat /\ frames[p] + 1 \in Nat
  BY DEF TypeOK
<1> QED BY <1>1, <1>2

LEMMA IndexInvStep == IndexInv /\ [Next]_vars => IndexInv'
<1> SUFFICES ASSUME IndexInv, [Next]_vars PROVE IndexInv'
  OBVIOUS
<1>0. /\ TypeOK /\ TimerInv
      /\ Window \in Nat /\ MaxCall \in Nat /\ 0 \in 0..(Window + MaxCall)
  BY TimeAssumption DEF IndexInv
<1>00. age' \in Nat
  BY <1>0 DEF Next, Finished, vars, TypeOK
<1>1. CASE Step
  <2>1. now' \in Nat /\ since' \in 0..now' /\ stream' \in Path \cup {None} /\ moves' \in 0..MaxMoves
    BY <1>0, <1>1, StepStill DEF TypeOK
  <2>2. CASE Start
    <3>1. k' \in Path /\ pc' \in {"start", "window"}
      BY <1>0, <2>2, LoopType DEF Start
    <3>2. running' \subseteq Path /\ frames' \in [Path -> Nat]
      BY <1>0, <2>2, CaptureType DEF Start
    <3>3. timer' = 0 /\ UNCHANGED <<interrupted, outcome, now, from, ridden>>
      BY <2>2 DEF Start, sight
    <3> QED BY <1>0, <1>00, <2>1, <3>1, <3>2, <3>3 DEF IndexInv, TypeOK, TimerInv
  <2>3. CASE StartRaises
    <3>1. running' \subseteq Path /\ frames' \in [Path -> Nat]
      BY <1>0, <2>3, CaptureType DEF StartRaises, TypeOK
    <3>2. /\ pc' = "done" /\ k' = k /\ timer' = timer /\ outcome' = "start_raised"
          /\ UNCHANGED <<interrupted, now, from, ridden>>
      BY <2>3 DEF StartRaises, Raise, sight
    <3> QED BY <1>0, <1>00, <2>1, <3>1, <3>2 DEF IndexInv, TypeOK, TimerInv
  <2>4. CASE Wake \/ Interrupt
    <3>1. /\ pc' = "stop" /\ timer' = 0 /\ interrupted' \in BOOLEAN
          /\ UNCHANGED <<k, running, frames, outcome, now, from, ridden>>
      BY <1>0, <2>4 DEF Wake, Interrupt, sight, TypeOK
    <3> QED BY <1>0, <1>00, <2>1, <3>1 DEF IndexInv, TypeOK, TimerInv
  <2>5. CASE Stop
    <3>1. k' \in Path /\ pc' \in {"stop", "read", "done"}
          /\ outcome' \in {outcome, "interrupted"}
      BY <1>0, <2>5, LoopType DEF Stop, Raise, TypeOK
    <3>2. timer' = 0 /\ running' \subseteq Path
          /\ UNCHANGED <<frames, interrupted, now, from, ridden>>
      BY <1>0, <2>5 DEF Stop, sight, TypeOK
    <3> QED BY <1>0, <1>00, <2>1, <3>1, <3>2 DEF IndexInv, TypeOK, TimerInv
  <2>6. CASE StopRaises \/ ReadRaises
    <3>1. /\ pc' = "done" /\ k' = k /\ timer' = timer /\ running' \subseteq Path
          /\ outcome' \in {"stop_raised", "read_raised"}
          /\ UNCHANGED <<frames, interrupted, now, from, ridden>>
      BY <1>0, <2>6 DEF StopRaises, ReadRaises, Raise, sight, TypeOK
    <3> QED BY <1>0, <1>00, <2>1, <3>1 DEF IndexInv, TypeOK, TimerInv
  <2>7. CASE Read
    <3>1. k' \in Path /\ pc' \in {"read", "judge"}
      BY <1>0, <2>7, LoopType DEF Read
    <3>2. timer' = 0 /\ UNCHANGED <<running, frames, interrupted, outcome, now, from, ridden>>
      BY <2>7 DEF Read, sight
    <3> QED BY <1>0, <1>00, <2>1, <3>1, <3>2 DEF IndexInv, TypeOK, TimerInv
  <2>8. CASE Found \/ GiveUp
    <3>1. /\ pc' = "done" /\ outcome' \in {"converged", "expired"}
          /\ UNCHANGED <<k, timer, running, frames, interrupted, now, from, ridden>>
      BY <2>8 DEF Found, GiveUp, sight
    <3> QED BY <1>0, <1>00, <2>1, <3>1 DEF IndexInv, TypeOK, TimerInv
  <2>9. CASE SampleAgain
    <3>1. /\ pc = "judge" /\ pc' = "start" /\ from' = now /\ ridden' = {}
          /\ UNCHANGED <<k, timer, running, frames, interrupted, outcome, now>>
      BY <2>9 DEF SampleAgain, NextSample
    <3> QED BY <1>0, <1>00, <2>1, <3>1 DEF IndexInv, TypeOK, TimerInv
  <2> QED BY <1>1, <2>2, <2>3, <2>4, <2>5, <2>6, <2>7, <2>8, <2>9 DEF Step
<1>2. CASE Tick
  <2>1. /\ now' \in Nat /\ stream' \in Path \cup {None} /\ moves' \in 0..MaxMoves
        /\ since' \in 0..now' /\ from' \in 0..now' /\ timer' = timer + 1
    BY <1>0, <1>2, TickStream DEF Tick
  <2>2. frames' \in [Path -> Nat]
    BY <1>0, <1>2, TickFrames
  <2>3. /\ ridden' \subseteq Path \cup {None}
        /\ UNCHANGED <<pc, k, running, interrupted, outcome>>
    BY <1>0, <1>2 DEF Tick, TypeOK
  <2>4. timer \in Nat /\ ((pc \in {"start", "stop", "read"} /\ timer < MaxCall)
                          \/ (pc = "window" /\ timer < Window))
    BY <1>0, <1>2 DEF Tick, TypeOK
  <2>5. timer' \in 0..(Window + MaxCall)
    BY <1>0, <2>1, <2>4
  <2>6. TimerInv'
    BY <1>0, <2>1, <2>3, <2>4 DEF TimerInv
  <2> QED BY <1>0, <1>00, <2>1, <2>2, <2>3, <2>5, <2>6 DEF IndexInv, TypeOK
<1>3. CASE UNCHANGED vars
  BY <1>0, <1>00, <1>3 DEF vars, sight, IndexInv, TypeOK, TimerInv
<1> QED BY <1>1, <1>2, <1>3 DEF Next, Finished

LEMMA IndexCorrect == Spec => []IndexInv
BY IndexInvInit, IndexInvStep, PTL DEF Spec

\* Every reachable state is well typed.
THEOREM TypeCorrect == Spec => []TypeOK
<1>1. IndexInv => TypeOK
  BY DEF IndexInv
<1> QED BY <1>1, IndexCorrect, PTL
-----------------------------------------------------------------------------
(***************************************************************************)
(* Which captures run at each place: those started so far, all of them     *)
(* through the window, those not stopped yet, and none from then on.       *)
(***************************************************************************)
RunningInv ==
    /\ pc = "start" => running = 1..(k - 1)
    /\ pc = "window" => k = 1 /\ running = Path
    /\ pc = "stop" => running = k..N
    /\ pc = "read" => running = {}
    /\ pc = "judge" => k = 1 /\ running = {}
    /\ CapturesReleased

LEMMA RunningInvInit == Init => RunningInv
BY DEF Init, RunningInv, CapturesReleased

LEMMA RunningInvStep == IndexInv /\ RunningInv /\ [Next]_vars => RunningInv'
<1> SUFFICES ASSUME IndexInv, RunningInv, [Next]_vars PROVE RunningInv'
  OBVIOUS
<1>0. k \in 1..N /\ k \in Nat /\ N \in Nat \ {0} /\ Path = 1..N
  BY PathsAssumption DEF IndexInv, TypeOK, Path
<1>1. CASE Start
  <2>1. pc = "start" /\ running' = 1..k /\ Loop("window")
    BY <1>0, <1>1 DEF Start, Capture, RunningInv
  <2>2. CASE k < N
    BY <1>0, <2>1, <2>2 DEF Loop, RunningInv, CapturesReleased
  <2>3. CASE ~(k < N)
    BY <1>0, <2>1, <2>3 DEF Loop, RunningInv, CapturesReleased
  <2> QED BY <2>2, <2>3
<1>2. CASE StartRaises
  <2>1. running' \subseteq 1..k /\ pc' = "done" /\ k' = k /\ outcome' = "start_raised"
    BY <1>0, <1>2 DEF StartRaises, Capture, Raise, RunningInv
  <2> QED BY <2>1 DEF RunningInv, CapturesReleased
<1>3. CASE Wake \/ Interrupt
  BY <1>0, <1>3 DEF Wake, Interrupt, RunningInv, CapturesReleased
<1>4. CASE Stop
  <2>1. pc = "stop" /\ running' = (k..N) \ {k} /\ (k..N) \ {k} = (k + 1)..N
    BY <1>0, <1>4 DEF Stop, RunningInv
  <2>2. CASE k < N
    BY <1>0, <1>4, <2>1, <2>2 DEF Stop, Loop, RunningInv, CapturesReleased
  <2>3. CASE ~(k < N)
    <3>1. running' = {}
      BY <1>0, <2>1, <2>3
    <3>2. pc' = "done" \/ (pc' = "read" /\ k' = 1)
      BY <1>4, <2>3 DEF Stop, Loop, Raise
    <3> QED BY <3>1, <3>2 DEF RunningInv, CapturesReleased
  <2> QED BY <2>2, <2>3
<1>5. CASE StopRaises
  <2>1. running' \subseteq k..N /\ pc' = "done" /\ k' = k /\ outcome' = "stop_raised"
    BY <1>0, <1>5 DEF StopRaises, Raise, RunningInv
  <2> QED BY <2>1 DEF RunningInv, CapturesReleased
<1>6. CASE Read \/ ReadRaises
  BY <1>0, <1>6 DEF Read, ReadRaises, Loop, Raise, RunningInv, CapturesReleased
<1>7. CASE Found \/ GiveUp
  BY <1>7 DEF Found, GiveUp, RunningInv, CapturesReleased
<1>8. CASE SampleAgain
  BY <1>0, <1>8 DEF SampleAgain, NextSample, RunningInv, CapturesReleased
<1>9. CASE Tick
  BY <1>9 DEF Tick, RunningInv, CapturesReleased
<1>10. CASE UNCHANGED vars
  BY <1>10 DEF vars, RunningInv, CapturesReleased
<1> QED BY <1>1, <1>2, <1>3, <1>4, <1>5, <1>6, <1>7, <1>8, <1>9, <1>10
        DEF Next, Step, Finished

LEMMA RunningCorrect == Spec => [](IndexInv /\ RunningInv)
<1>1. Init => IndexInv /\ RunningInv
  BY IndexInvInit, RunningInvInit
<1>2. IndexInv /\ RunningInv /\ [Next]_vars => (IndexInv /\ RunningInv)'
  BY IndexInvStep, RunningInvStep
<1> QED BY <1>1, <1>2, PTL DEF Spec

\* "The stops run in a `finally`": only a start or a stop that raised leaves
\* captures running, and only those on its own side of the loop.
THEOREM CapturesReleasedCorrect == Spec => []CapturesReleased
<1>1. RunningInv => CapturesReleased
  BY DEF RunningInv
<1> QED BY <1>1, RunningCorrect, PTL
-----------------------------------------------------------------------------
(***************************************************************************)
(* The clock: at each place, the time since the sample began is at most    *)
(* that of the calls made so far and of the window, and a sample begins    *)
(* within the budget.                                                      *)
(***************************************************************************)

\* The longest n driver calls take.
Took(n) == n * MaxCall

LEMMA TookSteps ==
  /\ \A n \in 1..N : /\ Took(n - 1) \in Nat /\ Took(n) \in Nat
                     /\ Took(n - 1) + MaxCall = Took(n)
                     /\ Took(n) <= Took(N)
  /\ Took(0) = 0
  /\ Cycle = Window + Took(N) + Took(N) + Took(N)
<1>1. MaxCall \in Nat /\ N \in Nat \ {0} /\ Window \in Nat
  BY PathsAssumption, TimeAssumption
<1>2. ASSUME NEW n \in 1..N
      PROVE  /\ Took(n - 1) \in Nat /\ Took(n) \in Nat
             /\ Took(n - 1) + MaxCall = Took(n)
             /\ Took(n) <= Took(N)
  <2>1. n \in Nat /\ n - 1 \in Nat /\ N - n \in Nat
    BY <1>1
  <2>2. Took(n - 1) \in Nat /\ Took(n) \in Nat /\ Took(n - 1) + MaxCall = Took(n)
    BY <1>1, <2>1 DEF Took
  <2>3. Took(N) = Took(n) + Took(N - n) /\ Took(N - n) \in Nat
    BY <1>1, <2>1 DEF Took
  <2> QED BY <2>2, <2>3
<1>3. Took(0) = 0
  BY <1>1 DEF Took
<1>4. Cycle = Window + Took(N) + Took(N) + Took(N)
  BY <1>1 DEF Cycle, Took
<1> QED BY <1>2, <1>3, <1>4

ClockInv ==
    /\ from = 0 \/ age + from <= Budget
    /\ pc = "start" => now <= from + Took(k - 1) + timer
    /\ pc = "window" => now <= from + Took(N) + timer
    /\ pc = "stop" => now <= from + Took(N) + Window + Took(k - 1) + timer
    /\ pc = "read" => now <= from + Took(N) + Window + Took(N) + Took(k - 1) + timer
    /\ pc \in {"judge", "done"} => now <= from + Cycle

LEMMA ClockInvInit == Init => ClockInv
<1> SUFFICES ASSUME Init PROVE ClockInv
  OBVIOUS
<1>1. 1 \in 1..N /\ Budget \in Nat /\ Took(0) = 0
  BY PathsAssumption, TimeAssumption, TookSteps
<1>2. pc = "start" /\ k = 1 /\ timer = 0 /\ now = 0 /\ from = 0
  BY DEF Init
<1> QED BY <1>1, <1>2 DEF ClockInv

\* At every place the sample is no longer than a whole one.
LEMMA WithinCycle ==
  ASSUME IndexInv, ClockInv
  PROVE  now <= from + Cycle /\ (now <= Cycle \/ Elapsed <= Budget + Cycle)
<1>1. /\ k \in 1..N /\ Window \in Nat /\ MaxCall \in Nat /\ Budget \in Nat
      /\ age \in Nat /\ now \in Nat /\ from \in Nat /\ timer \in Nat
      /\ from = 0 \/ age + from <= Budget
      /\ pc \in {"start", "window", "stop", "read", "judge", "done"}
      /\ pc \in {"start", "stop", "read"} => timer <= MaxCall
      /\ pc = "window" => timer <= Window
  BY PathsAssumption, TimeAssumption DEF IndexInv, TypeOK, TimerInv, ClockInv, Path
<1>2. /\ Took(k - 1) \in Nat /\ Took(k) \in Nat /\ Took(k - 1) + MaxCall = Took(k)
      /\ Took(k) <= Took(N) /\ Took(N) \in Nat
      /\ Cycle = Window + Took(N) + Took(N) + Took(N)
  BY <1>1, TookSteps, PathsAssumption
<1>3. now <= from + Cycle
  BY <1>1, <1>2 DEF ClockInv
<1>4. CASE from = 0
  BY <1>1, <1>2, <1>3, <1>4
<1>5. CASE age + from <= Budget
  BY <1>1, <1>2, <1>3, <1>5 DEF Elapsed
<1> QED BY <1>1, <1>3, <1>4, <1>5

LEMMA ClockInvStep == IndexInv /\ RunningInv /\ ClockInv /\ [Next]_vars => ClockInv'
<1> SUFFICES ASSUME IndexInv, RunningInv, ClockInv, [Next]_vars PROVE ClockInv'
  OBVIOUS
<1>1. /\ k \in 1..N /\ Window \in Nat /\ MaxCall \in Nat /\ Budget \in Nat
      /\ N \in Nat \ {0}
      /\ age \in Nat /\ now \in Nat /\ from \in Nat /\ timer \in Nat
      /\ from = 0 \/ age + from <= Budget
      /\ pc \in {"start", "window", "stop", "read", "judge", "done"}
      /\ pc \in {"start", "stop", "read"} => timer <= MaxCall
      /\ pc = "window" => timer <= Window
      /\ pc = "judge" => timer = 0
  BY PathsAssumption, TimeAssumption DEF IndexInv, TypeOK, TimerInv, ClockInv, Path
<1>2. /\ Took(k - 1) \in Nat /\ Took(k) \in Nat /\ Took(k - 1) + MaxCall = Took(k)
      /\ Took(k) <= Took(N) /\ Took(N) \in Nat /\ Took(0) = 0
      /\ Cycle = Window + Took(N) + Took(N) + Took(N)
  BY <1>1, TookSteps
<1>3. now <= from + Cycle
  BY WithinCycle
<1>0. age' = age
  BY DEF Next, Finished, vars
<1>4. ASSUME pc' = "done", UNCHANGED <<now, from>> PROVE ClockInv'
  BY <1>0, <1>1, <1>3, <1>4 DEF ClockInv
<1>5. CASE Start
  <2>1. now <= from + Took(k) /\ timer' = 0 /\ UNCHANGED <<now, from>> /\ pc = "start"
    BY <1>1, <1>2, <1>5 DEF Start, ClockInv
  <2>2. CASE k < N
    <3>1. pc' = "start" /\ k' - 1 = k
      BY <1>1, <1>5, <2>1, <2>2 DEF Start, Loop
    <3> QED BY <1>0, <1>1, <1>2, <2>1, <3>1 DEF ClockInv
  <2>3. CASE ~(k < N)
    <3>1. pc' = "window" /\ k = N
      BY <1>1, <1>5, <2>3 DEF Start, Loop
    <3> QED BY <1>0, <1>1, <1>2, <2>1, <3>1 DEF ClockInv
  <2> QED BY <2>2, <2>3
<1>6. CASE Wake \/ Interrupt
  <2>1. /\ pc = "window" /\ pc' = "stop" /\ k = 1 /\ k' - 1 = 0 /\ timer' = 0
        /\ UNCHANGED <<now, from>>
    BY <1>6 DEF Wake, Interrupt, RunningInv
  <2> QED BY <1>0, <1>1, <1>2, <2>1 DEF ClockInv
<1>7. CASE Stop
  <2>1. /\ now <= from + Took(N) + Window + Took(k) /\ timer' = 0
        /\ UNCHANGED <<now, from>>
    BY <1>1, <1>2, <1>7 DEF Stop, ClockInv
  <2>2. CASE k < N
    <3>1. pc' = "stop" /\ k' - 1 = k
      BY <1>1, <1>7, <2>2 DEF Stop, Loop
    <3> QED BY <1>0, <1>1, <1>2, <2>1, <3>1 DEF ClockInv
  <2>3. CASE ~(k < N)
    <3>1. pc' = "done" \/ (pc' = "read" /\ k' - 1 = 0 /\ k = N)
      BY <1>1, <1>7, <2>3 DEF Stop, Loop, Raise
    <3> QED BY <1>0, <1>1, <1>2, <1>4, <2>1, <3>1 DEF ClockInv
  <2> QED BY <2>2, <2>3
<1>8. CASE Read
  <2>1. /\ now <= from + Took(N) + Window + Took(N) + Took(k) /\ timer' = 0
        /\ UNCHANGED <<now, from>>
    BY <1>1, <1>2, <1>8 DEF Read, ClockInv
  <2>2. CASE k < N
    <3>1. pc' = "read" /\ k' - 1 = k
      BY <1>1, <1>8, <2>2 DEF Read, Loop
    <3> QED BY <1>0, <1>1, <1>2, <2>1, <3>1 DEF ClockInv
  <2>3. CASE ~(k < N)
    <3>1. pc' = "judge"
      BY <1>8, <2>3 DEF Read, Loop
    <3> QED BY <1>0, <1>1, <1>3, <2>1, <3>1 DEF ClockInv
  <2> QED BY <2>2, <2>3
<1>9. CASE StartRaises \/ StopRaises \/ ReadRaises \/ Found \/ GiveUp
  BY <1>4, <1>9 DEF StartRaises, StopRaises, ReadRaises, Found, GiveUp, Raise
<1>10. CASE SampleAgain
  <2>1. /\ pc' = "start" /\ from' = now /\ now' = now /\ Elapsed <= Budget
        /\ k' - 1 = 0 /\ timer' = 0
    BY <1>1, <1>10 DEF SampleAgain, NextSample, RunningInv
  <2> QED BY <1>0, <1>1, <1>2, <2>1 DEF ClockInv, Elapsed
<1>11. CASE Tick
  <2>1. now' = now + 1 /\ timer' = timer + 1 /\ UNCHANGED <<pc, k, from>>
        /\ pc \in {"start", "window", "stop", "read"}
    BY <1>11 DEF Tick
  <2> QED BY <1>0, <1>1, <1>2, <2>1 DEF ClockInv
<1>12. CASE UNCHANGED vars
  BY <1>12 DEF vars, ClockInv
<1> QED BY <1>5, <1>6, <1>7, <1>8, <1>9, <1>10, <1>11, <1>12 DEF Next, Step, Finished

LEMMA ClockCorrect == Spec => [](IndexInv /\ RunningInv /\ ClockInv)
<1>1. Init => IndexInv /\ RunningInv /\ ClockInv
  BY IndexInvInit, RunningInvInit, ClockInvInit
<1>2. IndexInv /\ RunningInv /\ ClockInv /\ [Next]_vars => (IndexInv /\ RunningInv /\ ClockInv)'
  BY IndexInvStep, RunningInvStep, ClockInvStep
<1> QED BY <1>1, <1>2, PTL DEF Spec

\* However the calls drag, the operation passes its budget by one sample at most.
THEOREM BoundedSamplingCorrect == Spec => []BoundedSampling
<1>1. IndexInv /\ ClockInv => BoundedSampling
  BY WithinCycle DEF BoundedSampling
<1> QED BY <1>1, ClockCorrect, PTL
-----------------------------------------------------------------------------
(***************************************************************************)
(* What a sample sees.  `Better` orders the paths by their frames, ties by *)
(* their place; a smallest set of better paths is empty, so a path without *)
(* a better one exists, and it is the one Located chooses.                 *)
(***************************************************************************)
Better(p) == {q \in Path : frames[q] > frames[p] \/ (frames[q] = frames[p] /\ q < p)}

LEMMA BestExists ==
  ASSUME frames \in [Path -> Nat]
  PROVE  \E p \in Path : Better(p) = {}
<1>1. IsFiniteSet(Path)
  BY FS_Interval, PathsAssumption DEF Path
<1>2. IsWellFoundedOn(StrictSubsetOrdering(Path), SUBSET Path)
  BY <1>1, FS_StrictSubsetOrderingWellFounded, FS_FiniteSubsetsOfFinite
<1> DEFINE B == {Better(p) : p \in Path}
<1>3. B \subseteq SUBSET Path /\ B # {}
  <2>1. \A p \in Path : Better(p) \subseteq Path
    BY DEF Better
  <2>2. Better(1) \in B
    BY PathType
  <2> QED BY <2>1, <2>2
<1>4. PICK m \in B : \A s \in B : <<s, m>> \notin StrictSubsetOrdering(Path)
  <2> HIDE DEF B
  <2> QED BY <1>2, <1>3, WFMin
<1>5. PICK p \in Path : m = Better(p)
  OBVIOUS
<1>6. ASSUME NEW q \in Better(p) PROVE FALSE
  <2>1. q \in Path
    BY <1>6 DEF Better
  <2>2. \A r \in Path : frames[r] \in Nat /\ r \in Nat
    BY PathType
  <2>3. Better(q) \subseteq Better(p)
    BY <1>6, <2>1, <2>2 DEF Better
  <2>4. q \notin Better(q)
    BY <2>1, <2>2 DEF Better
  <2>5. <<Better(q), Better(p)>> \in StrictSubsetOrdering(Path)
    <3>1. Better(q) \in SUBSET Path /\ Better(p) \in SUBSET Path
      BY DEF Better
    <3>2. Better(q) # Better(p)
      BY <1>6, <2>4
    <3> QED BY <2>3, <3>1, <3>2 DEF StrictSubsetOrdering
  <2>6. Better(q) \in B
    BY <2>1
  <2> QED BY <1>4, <1>5, <2>5, <2>6
<1> QED BY <1>6

\* Located is no path if none carries the stream, and else one that carries most.
LEMMA LocatedMost ==
  ASSUME frames \in [Path -> Nat]
  PROVE  /\ (\A p \in Path : frames[p] = 0) => Located = None
         /\ (\E p \in Path : frames[p] # 0) =>
               Located \in Path /\ \A q \in Path : frames[q] <= frames[Located]
<1>1. (\A p \in Path : frames[p] = 0) => Located = None
  BY DEF Located
<1>2. ASSUME \E p \in Path : frames[p] # 0
      PROVE  Located \in Path /\ \A q \in Path : frames[q] <= frames[Located]
  <2> DEFINE Best(p) == /\ \A q \in Path : frames[q] <= frames[p]
                        /\ \A q \in 1..(p - 1) : frames[q] < frames[p]
  <2>1. PICK p \in Path : Better(p) = {}
    BY BestExists
  <2>2. \A r \in Path : frames[r] \in Nat /\ r \in Nat
    BY PathType
  <2>3. \A q \in Path : frames[q] <= frames[p]
    BY <2>1, <2>2 DEF Better
  <2>4. \A q \in 1..(p - 1) : q \in Path /\ q < p
    BY PathsAssumption DEF Path
  <2>5. \A q \in 1..(p - 1) : frames[q] < frames[p]
    BY <2>1, <2>2, <2>3, <2>4 DEF Better
  <2>6. \E r \in Path : Best(r)
    BY <2>3, <2>5
  <2>7. Located = CHOOSE r \in Path : Best(r)
    BY <1>2 DEF Located
  <2>8. Located \in Path /\ Best(Located)
    <3> HIDE DEF Best
    <3> QED BY <2>6, <2>7
  <2> QED BY <2>8
<1> QED BY <1>1, <1>2

\* A file of this sample has frames only of a path the stream rode, a stream that
\* has not moved since the sample began rode nothing else, and the captures see it
\* all through a window that is not interrupted.
SightInv ==
    /\ pc # "done" =>
          \A p \in Path : (pc = "start" => p < k) /\ frames[p] > 0 => p \in ridden
    /\ since <= from => ridden \subseteq {stream}
    /\ pc \in {"start", "window", "read", "judge"} => ~interrupted
    /\ since <= from /\ stream \in Path =>
          /\ pc = "window" => frames[stream] >= timer
          /\ pc \in {"stop", "read", "judge"} /\ ~interrupted => frames[stream] >= Window

LEMMA SightInvInit == Init => SightInv
<1> SUFFICES ASSUME Init PROVE SightInv
  OBVIOUS
<1>1. pc = "start" /\ k = 1 /\ ridden = {} /\ interrupted = FALSE
  BY DEF Init
<1>2. \A p \in Path : ~(p < k)
  BY <1>1, PathsAssumption DEF Path
<1> QED BY <1>1, <1>2 DEF SightInv

LEMMA SightInvStep == IndexInv /\ RunningInv /\ SightInv /\ [Next]_vars => SightInv'
<1> SUFFICES ASSUME IndexInv, RunningInv, SightInv, [Next]_vars PROVE SightInv'
  OBVIOUS
<1>1. /\ k \in Nat /\ frames \in [Path -> Nat] /\ Path \subseteq Nat
      /\ now \in Nat /\ from \in 0..now /\ since \in 0..now /\ timer \in Nat
      /\ stream \in Path \cup {None} /\ Window \in Nat /\ k \in Path
  BY PathType, TimeAssumption DEF IndexInv, TypeOK
<1>2. CASE Start
  <2>1. /\ pc = "start" /\ timer' = 0 /\ frames' = [frames EXCEPT ![k] = 0]
        /\ UNCHANGED <<interrupted, from, stream, since, ridden>>
        /\ (pc' = "start" /\ k' = k + 1) \/ (pc' = "window" /\ k >= N)
    BY <1>1, <1>2, PathsAssumption DEF Start, Capture, Loop, sight
  <2>2. \A p \in Path : (pc' = "start" => p < k') /\ frames'[p] > 0 => p \in ridden
    <3> SUFFICES ASSUME NEW p \in Path, pc' = "start" => p < k', frames'[p] > 0
                 PROVE  p \in ridden
      OBVIOUS
    <3>1. p # k /\ frames[p] > 0
      BY <1>1, <2>1
    <3>2. p < k
      BY <1>1, <2>1, <3>1, PathsAssumption DEF Path
    <3> QED BY <2>1, <3>1, <3>2 DEF SightInv
  <2>3. \A p \in Path : frames'[p] \in Nat
    BY <1>1, <2>1
  <2> QED BY <1>1, <2>1, <2>2, <2>3 DEF SightInv
<1>3. CASE Wake
  <2>1. /\ pc = "window" /\ pc' = "stop" /\ timer = Window
        /\ UNCHANGED <<k, frames, interrupted, from, stream, since, ridden>>
    BY <1>3 DEF Wake, sight
  <2> QED BY <1>1, <2>1 DEF SightInv
<1>4. CASE Interrupt
  <2>1. /\ pc = "window" /\ pc' = "stop" /\ interrupted' = TRUE
        /\ UNCHANGED <<k, frames, from, stream, since, ridden>>
    BY <1>4 DEF Interrupt, sight
  <2> QED BY <1>1, <2>1 DEF SightInv
<1>5. CASE Stop
  <2>1. /\ pc = "stop" /\ pc' \in {"stop", "read", "done"}
        /\ UNCHANGED <<frames, interrupted, from, stream, since, ridden>>
        /\ pc' = "read" => ~interrupted
    <3>1. /\ pc = "stop" /\ pc' \in {"stop", "read", "done"}
          /\ UNCHANGED <<frames, interrupted, from, stream, since, ridden>>
      BY <1>5 DEF Stop, Loop, Raise, sight
    <3>2. CASE k = N /\ interrupted
      BY <1>5, <3>1, <3>2 DEF Stop, Raise
    <3>3. CASE k < N
      BY <1>5, <3>1, <3>3, PathsAssumption DEF Stop, Loop
    <3>4. CASE ~interrupted
      BY <3>1, <3>4
    <3>5. k < N \/ k = N
      BY <1>1, PathsAssumption DEF Path
    <3> QED BY <3>1, <3>2, <3>3, <3>4, <3>5
  <2> QED BY <1>1, <2>1 DEF SightInv
<1>6. CASE Read
  <2>1. /\ pc = "read" /\ pc' \in {"read", "judge"}
        /\ UNCHANGED <<frames, interrupted, from, stream, since, ridden>>
    BY <1>6 DEF Read, Loop, sight
  <2> QED BY <1>1, <2>1 DEF SightInv
<1>7. CASE StartRaises \/ StopRaises \/ ReadRaises \/ Found \/ GiveUp
  <2>1. pc' = "done" /\ UNCHANGED <<from, stream, since, ridden>>
    BY <1>7 DEF StartRaises, StopRaises, ReadRaises, Found, GiveUp, Raise, sight
  <2> QED BY <2>1 DEF SightInv
<1>8. CASE SampleAgain
  <2>1. /\ pc = "judge" /\ pc' = "start" /\ k' = 1 /\ ridden' = {}
        /\ UNCHANGED <<interrupted>>
    BY <1>8 DEF SampleAgain, NextSample, RunningInv
  <2>2. \A p \in Path : ~(p < k')
    BY <2>1, PathsAssumption DEF Path
  <2> QED BY <2>1, <2>2 DEF SightInv
<1>9. CASE Tick
  <2>1. /\ pc \in {"start", "window", "stop", "read"} /\ timer' = timer + 1
        /\ now' = now + 1 /\ ridden' = ridden \cup {stream}
        /\ UNCHANGED <<pc, k, running, interrupted, from>>
    BY <1>9 DEF Tick
  <2>2. /\ frames' \in [Path -> Nat]
        /\ \A p \in Path : frames'[p] = IF p \in running /\ p = stream
                                        THEN frames[p] + 1 ELSE frames[p]
    BY <1>9, TickFrames DEF IndexInv
  <2>3. since' <= from' => stream' = stream /\ since' = since
    <3>1. UNCHANGED <<stream, since>> \/ since' = now'
      BY <1>9 DEF Tick, Stream
    <3> QED BY <1>1, <2>1, <3>1
  <2>4. pc' # "done" =>
          \A p \in Path : (pc' = "start" => p < k') /\ frames'[p] > 0 => p \in ridden'
    BY <1>1, <2>1, <2>2 DEF SightInv
  <2>5. since' <= from' => ridden' \subseteq {stream'}
    BY <2>1, <2>3 DEF SightInv
  <2>6. ASSUME since' <= from', stream' \in Path
        PROVE  /\ pc' = "window" => frames'[stream'] >= timer'
               /\ pc' \in {"stop", "read", "judge"} /\ ~interrupted' =>
                     frames'[stream'] >= Window
    <3>1. since <= from /\ stream' = stream /\ stream \in Path
      BY <2>1, <2>3, <2>6
    <3>2. frames'[stream] >= frames[stream] /\ frames[stream] \in Nat /\ frames'[stream] \in Nat
      BY <1>1, <2>2, <3>1
    <3>3. pc = "window" => frames'[stream] = frames[stream] + 1
      BY <2>2, <3>1 DEF RunningInv
    <3> QED BY <1>1, <2>1, <3>1, <3>2, <3>3 DEF SightInv
  <2>7. pc' \in {"start", "window", "read", "judge"} => ~interrupted'
    BY <2>1 DEF SightInv
  <2> QED BY <2>4, <2>5, <2>6, <2>7 DEF SightInv
<1>10. CASE UNCHANGED vars
  BY <1>10 DEF vars, sight, SightInv
<1> QED BY <1>2, <1>3, <1>4, <1>5, <1>6, <1>7, <1>8, <1>9, <1>10
        DEF Next, Step, Finished

LEMMA SightFacts == IndexInv /\ SightInv => SamplesAreFacts
<1> SUFFICES ASSUME IndexInv, SightInv, pc = "judge"
             PROVE  /\ Located = None \/ Located \in ridden
                    /\ since <= from => Located = stream
  BY DEF SamplesAreFacts
<1>1. /\ frames \in [Path -> Nat] /\ stream \in Path \cup {None}
      /\ Window \in Nat /\ Window >= 1
  BY TimeAssumption DEF IndexInv, TypeOK
<1>2. \A p \in Path : frames[p] > 0 => p \in ridden
  BY DEF SightInv
<1>3. CASE \A p \in Path : frames[p] = 0
  <2>1. Located = None
    BY <1>1, <1>3, LocatedMost
  <2>2. since <= from => stream = None
    BY <1>1, <1>3 DEF SightInv
  <2> QED BY <2>1, <2>2
<1>4. CASE \E p \in Path : frames[p] # 0
  <2>1. Located \in Path /\ \A q \in Path : frames[q] <= frames[Located]
    BY <1>1, <1>4, LocatedMost
  <2>2. frames[Located] > 0
    BY <1>1, <1>4, <2>1
  <2>3. Located \in ridden
    BY <1>2, <2>1, <2>2
  <2> QED BY <2>3 DEF SightInv
<1> QED BY <1>3, <1>4

\* The operation's verdict, at the moment it gives up and from then on.
VerdictInv ==
    /\ pc # "done" => outcome = "pending"
    /\ SettledStreamConverges

LEMMA VerdictInvStep ==
  IndexInv /\ ClockInv /\ SightInv /\ VerdictInv /\ [Next]_vars => VerdictInv'
<1> SUFFICES ASSUME IndexInv, ClockInv, SightInv, VerdictInv, [Next]_vars PROVE VerdictInv'
  OBVIOUS
<1>0. age' = age
  BY DEF Next, Finished, vars
<1>1. CASE GiveUp
  <2>1. /\ pc = "judge" /\ Located # Expected /\ Elapsed > Budget
        /\ pc' = "done" /\ UNCHANGED <<stream, since>>
    BY <1>1 DEF GiveUp, sight
  <2>2. /\ now \in Nat /\ from \in Nat /\ since \in Nat /\ Budget \in Nat
        /\ Cycle \in Nat /\ age \in Nat
    <3>1. Cycle = Window + Took(N) + Took(N) + Took(N) /\ Took(N) \in Nat
      BY TookSteps, PathsAssumption
    <3> QED BY <3>1, TimeAssumption DEF IndexInv, TypeOK
  <2>3. now <= from + Cycle
    BY WithinCycle
  <2>4. since <= from => stream # Expected
    BY <2>1, SightFacts DEF SamplesAreFacts
  <2>5. since > from => since > 0 /\ age + since + Cycle > Budget + 1
    BY <2>1, <2>2, <2>3 DEF Elapsed
  <2>6. stream # Expected \/ (since > 0 /\ age + since + Cycle > Budget + 1)
    BY <2>2, <2>4, <2>5
  <2> QED BY <1>0, <2>1, <2>6 DEF VerdictInv, SettledStreamConverges
<1>2. CASE Start \/ Wake \/ Interrupt \/ Read \/ SampleAgain \/ Tick
  <2>1. outcome' = outcome /\ pc # "done"
    BY <1>2 DEF Start, Wake, Interrupt, Read, SampleAgain, NextSample, Tick
  <2> QED BY <1>0, <2>1 DEF VerdictInv, SettledStreamConverges
<1>3. CASE Stop
  <2>1. (outcome' = "interrupted" /\ pc' = "done") \/ (outcome' = outcome /\ pc # "done")
    BY <1>3 DEF Stop, Raise
  <2> QED BY <1>0, <2>1 DEF VerdictInv, SettledStreamConverges
<1>4. CASE StartRaises \/ StopRaises \/ ReadRaises \/ Found
  <2>1. pc' = "done" /\ outcome' # "expired"
    BY <1>4 DEF StartRaises, StopRaises, ReadRaises, Found, Raise
  <2> QED BY <1>0, <2>1 DEF VerdictInv, SettledStreamConverges
<1>5. CASE UNCHANGED vars
  BY <1>5 DEF vars, sight, VerdictInv, SettledStreamConverges
<1> QED BY <1>1, <1>2, <1>3, <1>4, <1>5 DEF Next, Step, Finished

PlaceInv == IndexInv /\ RunningInv /\ ClockInv /\ SightInv /\ VerdictInv

LEMMA PlaceCorrect == Spec => []PlaceInv
<1>1. Init => PlaceInv
  BY IndexInvInit, RunningInvInit, ClockInvInit, SightInvInit
     DEF Init, PlaceInv, VerdictInv, SettledStreamConverges
<1>2. PlaceInv /\ [Next]_vars => PlaceInv'
  BY IndexInvStep, RunningInvStep, ClockInvStep, SightInvStep, VerdictInvStep DEF PlaceInv
<1> QED BY <1>1, <1>2, PTL DEF Spec

\* A sample locates the stream where it was, and exactly where it stood still.
THEOREM SamplesAreFactsCorrect == Spec => []SamplesAreFacts
<1>1. PlaceInv => SamplesAreFacts
  BY SightFacts DEF PlaceInv
<1> QED BY <1>1, PlaceCorrect, PTL

\* A stream that settled on the expected path a sample before the budget ran out
\* is never reported as one that did not arrive.
THEOREM SettledStreamConvergesCorrect == Spec => []SettledStreamConverges
<1>1. PlaceInv => SettledStreamConverges
  BY DEF PlaceInv, VerdictInv
<1> QED BY <1>1, PlaceCorrect, PTL
=============================================================================
