--------------------------- MODULE WaitingProofs ---------------------------
(***************************************************************************)
(* Proofs about the polling operations: how long a wait may last, that a   *)
(* steady signal is seen, and that what is reported happened, for every    *)
(* budget, interval and duration of a driver call, and for any number of   *)
(* changes of the signal.                                                  *)
(*                                                                         *)
(* The clock never runs while an operation decides, so the place where it  *)
(* is bounds what the clock shows (ClockInv) and how old the last reading  *)
(* is (AgeInv); a reading is a fact of the signal's history, which later   *)
(* changes do not rewrite (PastStands).                                    *)
(***************************************************************************)
EXTENDS Waiting, FiniteSetTheorems, TLAPS

\* An operation has an outcome exactly when it is over, and only the endpoint's
\* loop survives a read that raised.
PendingInv ==
    /\ pc # "done" => outcome = "pending"
    /\ op # "endpoint" => ~raised
    /\ op \in {"await", "failover"} => pc # "check"
    /\ outcome \in {"true", "false"} => op = "await"
    /\ outcome = "rebooted" => op = "reboot"

\* What the clock shows at each place: wait_until looks at it before the sleep,
\* the other two before the call.
ClockInv ==
    /\ op = "await" =>
         /\ pc = "poll" => now = 0 \/ now <= deadline - 1 + Interval
         /\ pc \in {"reading", "sampled"} =>
               now <= timer \/ now <= deadline - 1 + Interval + timer
         /\ pc = "sleeping" => now <= deadline - 1 + timer
    /\ op \in {"endpoint", "reboot"} =>
         /\ pc = "check" => now = 0 \/ now <= deadline - 1 + MaxRead + Interval
         /\ pc = "poll" => now <= deadline - 1
         /\ pc \in {"reading", "sampled"} => now <= deadline - 1 + timer
         /\ pc = "sleeping" => now <= deadline - 1 + MaxRead + timer

\* How old the last reading is.
AgeInv ==
    /\ sampledAt <= now
    /\ pc = "sampled" => sampledAt >= 0 /\ now <= sampledAt + timer
    /\ ~raised /\ pc = "sleeping" => sampledAt >= 0 /\ now <= sampledAt + MaxRead + timer
    /\ ~raised /\ pc \in {"check", "poll"} =>
          \/ sampledAt = -1 /\ now = 0
          \/ sampledAt >= 0 /\ now <= sampledAt + MaxRead + Interval
    /\ ~raised /\ pc = "reading" =>
          \/ sampledAt = -1 /\ now <= timer
          \/ sampledAt >= 0 /\ now <= sampledAt + MaxRead + Interval + timer

\* A loop that goes on has read what it does not wait for.
LastInv ==
    pc \in {"check", "poll", "reading", "sleeping"} /\ sampledAt >= 0 =>
        IF op = "reboot" /\ ~down THEN sample ELSE ~sample

TimeInv == TypeOK /\ PendingInv /\ ClockInv /\ AgeInv /\ LastInv /\ BoundedWait

LEMMA TimeInit == Init => TimeInv
<1> SUFFICES ASSUME Init  PROVE TimeInv
  OBVIOUS
<1> USE TimeAssumption, OpsAssumption DEF Init
<1>1. deadline \in Int
  OBVIOUS
<1>2. flips \in Seq(Nat)
  OBVIOUS
<1>3. timer \in 0..IF pc \in {"reading", "sampled"} THEN MaxRead ELSE Interval + MaxRead
  OBVIOUS
<1>4. TypeOK
  BY <1>1, <1>2, <1>3, Zenon DEF TypeOK
<1>5. PendingInv /\ LastInv
  BY DEF PendingInv, LastInv
<1>6. AgeInv
  BY DEF AgeInv
<1>7. ClockInv
  BY <1>1 DEF ClockInv
<1>8. BoundedWait
  BY <1>1 DEF BoundedWait
<1> QED  BY <1>4, <1>5, <1>6, <1>7, <1>8 DEF TimeInv

\* The steps of the caller: the clock stands.
LEMMA TimeStep ==
    ASSUME TimeInv, Step
    PROVE  TimeInv'
<1> USE TimeAssumption, OpsAssumption
    DEF TimeInv, TypeOK, PendingInv, ClockInv, AgeInv, LastInv, BoundedWait
<1>1. CASE Proceed     BY <1>1 DEF Proceed, Late, signal
<1>2. CASE TimeOut     BY <1>2 DEF TimeOut, Late, End, signal
<1>3. CASE Poll        BY <1>3 DEF Poll, signal
<1>4. CASE Sample      BY <1>4 DEF Sample, signal
<1>5. CASE ReadRaises
  <2>1. CASE op = "endpoint"  BY <1>5, <2>1 DEF ReadRaises, signal
  <2>2. CASE op # "endpoint"  BY <1>5, <2>2 DEF ReadRaises, End, signal
  <2> QED  BY <2>1, <2>2
<1>6. CASE AwaitMissed BY <1>6 DEF AwaitMissed, Late, End, Sleep, signal
<1>7. CASE Missed      BY <1>7 DEF Missed, Sleep, signal
<1>8. CASE WentDown    BY <1>8 DEF WentDown, signal
<1>9. CASE StillUp     BY <1>9 DEF StillUp, Sleep, signal
<1>10. CASE Seen       BY <1>10 DEF Seen, End, signal
<1>11. CASE Wake       BY <1>11 DEF Wake, signal
<1> QED  BY <1>1, <1>2, <1>3, <1>4, <1>5, <1>6, <1>7, <1>8, <1>9, <1>10, <1>11 DEF Step
\* Time passes, inside a driver call or a sleep.
LEMMA TickMoves ==
    ASSUME TypeOK, Tick
    PROVE  /\ now' \in {now, now + 1} /\ timer' = timer + 1 /\ now \in Nat /\ timer \in Nat
           /\ \/ UNCHANGED signal
              \/ now' = now + 1 /\ up' = ~up /\ flips' = Append(flips, now') /\ up0' = up0
<1>1. now \in Nat /\ timer \in Nat
  BY DEF TypeOK
<1>2. timer' = timer + 1
  BY DEF Tick
<1>3. \/ now' = (IF Impaired THEN now ELSE now + 1) /\ UNCHANGED signal
      \/ now' = now + 1 /\ up' = ~up /\ flips' = Append(flips, now') /\ up0' = up0
  BY Zenon DEF Tick
<1> QED  BY <1>1, <1>2, <1>3, Zenon

LEMMA TimeTick ==
    ASSUME TimeInv, Tick
    PROVE  TimeInv'
<1> USE TimeAssumption, OpsAssumption DEF TimeInv
<1>1. now' \in {now, now + 1} /\ timer' = timer + 1 /\ now \in Nat /\ timer \in Nat
  BY TickMoves
<1>2. TypeOK'
  <2>1. UNCHANGED signal \/ (up' = ~up /\ flips' = Append(flips, now') /\ up0' = up0)
    BY TickMoves
  <2>2. up' \in BOOLEAN /\ up0' \in BOOLEAN
    BY <2>1, Zenon DEF TypeOK, signal
  <2>3. flips' \in Seq(Nat)
    BY <1>1, <2>1 DEF TypeOK, signal
  <2>4. up' \in BOOLEAN /\ up0' \in BOOLEAN /\ flips' \in Seq(Nat)
    BY <2>2, <2>3
  <2> QED  BY <1>1, <2>4 DEF Tick, TypeOK
<1>3. (PendingInv /\ LastInv)'
  BY DEF Tick, PendingInv, LastInv
<1>4. ClockInv'
  BY <1>1 DEF Tick, TypeOK, ClockInv
<1>5. AgeInv'
  BY <1>1 DEF Tick, TypeOK, AgeInv
<1>6. BoundedWait'
  BY <1>1, <1>2, <1>4 DEF Tick, TypeOK, PendingInv, ClockInv, BoundedWait
<1> QED  BY <1>2, <1>3, <1>4, <1>5, <1>6

LEMMA TimeNext == TimeInv /\ [Next]_vars => TimeInv'
<1> SUFFICES ASSUME TimeInv, [Next]_vars  PROVE TimeInv'
  OBVIOUS
<1>1. CASE UNCHANGED vars
  BY <1>1 DEF vars, TimeInv, TypeOK, PendingInv, ClockInv, AgeInv, LastInv, BoundedWait
<1> QED  BY <1>1, TimeStep, TimeTick DEF Next, Finished

\* Every wait with a budget is over in time (waiting.py, network_endpoint.py,
\* device_management.py), and the state has its types.
THEOREM TimeCorrect == Spec => []TimeInv
BY TimeInit, TimeNext, PTL DEF Spec

\* The variables of the four loops have their types at every place.
THEOREM TypeCorrect == Spec => []TypeOK
BY TimeCorrect, PTL DEF TimeInv

\* A wait outlives its budget by less than a pause and a driver call, wherever
\* its loop looks at the clock.
THEOREM BoundedWaitCorrect == Spec => []BoundedWait
BY TimeCorrect, PTL DEF TimeInv

----------------------------------------------------------------------------
\* The signal's history lies in the past, and its last value is the present one.
SignalInv ==
    /\ \A k \in 1..Len(flips) : flips[k] <= now
    /\ up <=> (up0 <=> Len(flips) % 2 = 0)

LEMMA SignalInit == Init => SignalInv
BY DEF Init, SignalInv

LEMMA SignalNext ==
    ASSUME TypeOK, SignalInv, [Next]_vars
    PROVE  SignalInv' /\ now' \in Nat /\ now <= now'
<1>1. CASE UNCHANGED <<signal, now>>
  BY <1>1 DEF SignalInv, TypeOK, signal
<1>2. CASE Tick
  <2>1. now' \in {now, now + 1} /\ now \in Nat
    BY <1>2, TickMoves
  <2>2. CASE UNCHANGED signal
    BY <2>1, <2>2 DEF SignalInv, TypeOK, signal
  <2>3. CASE up' = ~up /\ flips' = Append(flips, now') /\ up0' = up0
    <3>1. Len(flips') = Len(flips) + 1 /\ Len(flips) \in Nat
      BY <2>1, <2>3 DEF TypeOK
    <3>2. \A k \in 1..Len(flips') : flips'[k] = IF k = Len(flips) + 1 THEN now' ELSE flips[k]
      BY <2>1, <2>3, <3>1 DEF TypeOK
    <3>3. \A k \in 1..Len(flips) : flips[k] \in Nat
      BY DEF TypeOK
    <3>4. \A k \in 1..Len(flips') : flips'[k] <= now'
      BY <2>1, <3>1, <3>2, <3>3 DEF SignalInv
    <3>5. Len(flips') % 2 = 0 <=> ~(Len(flips) % 2 = 0)
      BY <3>1
    <3>6. (up <=> (up0 <=> Len(flips) % 2 = 0))'
      BY <2>3, <3>5, Zenon DEF SignalInv
    <3> QED  BY <2>1, <3>4, <3>6 DEF SignalInv
  <2> QED  BY <1>2, <2>2, <2>3, TickMoves
<1>3. CASE Step
  <2>1. UNCHANGED <<signal, now>>
    BY <1>3 DEF Step, Proceed, TimeOut, Poll, Sample, ReadRaises, AwaitMissed, Missed, WentDown,
                StillUp, Seen, Wake
  <2> QED  BY <1>1, <2>1
<1>4. CASE UNCHANGED vars
  BY <1>1, <1>4 DEF vars, signal
<1> QED  BY <1>2, <1>3, <1>4 DEF Next, Finished

\* What the signal was it stays: a later change does not rewrite the past.
LEMMA PastStands ==
    ASSUME TypeOK, SignalInv, [Next]_vars, NEW t \in Int, t <= now
    PROVE  UpAt(t)' <=> UpAt(t)
<1>1. CASE UNCHANGED signal
  BY <1>1 DEF signal, UpAt
<1>2. CASE now' = now + 1 /\ flips' = Append(flips, now') /\ up0' = up0
  <2>1. now' = now + 1 /\ now \in Nat
    BY <1>2 DEF TypeOK
  <2>2. Len(flips') = Len(flips) + 1 /\ Len(flips) \in Nat
    BY <1>2, <2>1 DEF TypeOK
  <2>3. \A k \in 1..Len(flips) : flips'[k] = flips[k]
    BY <1>2, <2>1 DEF TypeOK
  <2>4. ~(flips'[Len(flips) + 1] <= t)
    BY <1>2, <2>1 DEF TypeOK
  <2>5. {k \in 1..Len(flips') : flips'[k] <= t} = {k \in 1..Len(flips) : flips[k] <= t}
    BY <2>2, <2>3, <2>4
  <2> QED  BY <1>2, <2>5, Zenon DEF UpAt
<1>3. CASE Step
  <2>1. UNCHANGED signal
    BY <1>3 DEF Step, Proceed, TimeOut, Poll, Sample, ReadRaises, AwaitMissed, Missed, WentDown,
                StillUp, Seen, Wake
  <2> QED  BY <1>1, <2>1
<1>4. CASE UNCHANGED vars
  BY <1>1, <1>4 DEF vars, signal
<1>5. Tick => UNCHANGED signal \/ (now' = now + 1 /\ flips' = Append(flips, now') /\ up0' = up0)
  BY TickMoves
<1> QED  BY <1>1, <1>2, <1>3, <1>4, <1>5 DEF Next, Finished

\* A reading that is taken now is what the history says of now.
LEMMA PresentIsUp ==
    ASSUME TypeOK, SignalInv
    PROVE  UpAt(now) <=> up
<1>1. {k \in 1..Len(flips) : flips[k] <= now} = 1..Len(flips)
  BY DEF SignalInv
<1>2. Len(flips) \in Nat
  BY DEF TypeOK
<1>3. Cardinality(1..Len(flips)) = Len(flips)
  <2>1. 1 \in Int /\ Len(flips) \in Int
    BY <1>2
  <2>2. Cardinality(1..Len(flips)) = IF 1 > Len(flips) THEN 0 ELSE Len(flips) - 1 + 1
    BY <2>1, FS_Interval, Zenon
  <2> QED  BY <1>2, <2>2
<1>4. UpAt(now) = (up0 = (Len(flips) % 2 = 0))
  BY <1>1, <1>3, Zenon DEF UpAt
<1>5. up0 \in BOOLEAN
  BY DEF TypeOK
<1> QED  BY <1>4, <1>5, Zenon DEF SignalInv

----------------------------------------------------------------------------
\* What a step may change of what was read, and how it leaves the judgement.
LEMMA Moves ==
    ASSUME TimeInv, [Next]_vars
    PROVE  /\ op' = op
           /\ Sample \/ (sampledAt' = sampledAt /\ sample' = sample)
           /\ WentDown \/ (down' <=> down)
           /\ AwaitMissed \/ wrongAt' = wrongAt
           /\ pc' = "sampled" => Sample \/ (pc = "sampled" /\ (Tick \/ UNCHANGED vars))
           /\ pc = "sampled" /\ pc' # "sampled" /\ op = "reboot" => WentDown \/ sample \/ down
<1>1. CASE Step
  BY <1>1 DEF Step, Proceed, TimeOut, Poll, Sample, ReadRaises, AwaitMissed, Missed, WentDown,
              StillUp, Seen, Wake, End, Sleep
<1>2. CASE Tick
  BY <1>2 DEF Tick
<1>3. CASE UNCHANGED vars
  BY <1>3 DEF vars
<1> QED  BY <1>1, <1>2, <1>3 DEF Next, Finished

\* An operation that is over stays as it ended.
LEMMA DoneStays ==
    ASSUME [Next]_vars, pc = "done"
    PROVE  UNCHANGED vars
BY DEF Next, Finished, Tick, Step, Proceed, TimeOut, Poll, Sample, ReadRaises, AwaitMissed, Missed,
       WentDown, StillUp, Seen, Wake

\* What was read is what the signal was.
ReadInv == sampledAt >= 0 => (sample <=> UpAt(sampledAt))

\* A device that counts as down was down once; what still counted as wrong was
\* wrong a call before the stamp; the failover loop's last poll but one found
\* the router on the impaired uplink.
DownInv == down => \E p \in 0..sampledAt : ~UpAt(p)
WrongInv == wrongAt >= 0 => \E p \in 0..sampledAt : ~UpAt(p) /\ wrongAt <= p + MaxRead
PrevInv ==
    op = "failover" /\ pc = "sampled" =>
        \/ now <= timer
        \/ \E p \in 0..sampledAt : ~UpAt(p) /\ now <= p + MaxRead + Interval + timer

\* As long as the reboot loop has not seen the device away, the device was there
\* once in every window that begins before the last reading.
AwayInv ==
    op = "reboot" /\ ~down /\ (pc = "sampled" => sample) =>
        \A a \in 0..sampledAt : \E t \in a..sampledAt : t < a + Window /\ UpAt(t)

FactInv == ReadInv /\ DownInv /\ WrongInv /\ PrevInv /\ AwayInv

LEMMA FactInit == Init => FactInv
BY DEF Init, FactInv, ReadInv, DownInv, WrongInv, PrevInv, AwayInv

LEMMA FactNext ==
    ASSUME TimeInv, SignalInv, FactInv, [Next]_vars
    PROVE  FactInv'
<1> USE TimeAssumption
<1>0. /\ TypeOK /\ now \in Nat /\ now' \in Nat /\ now <= now'
      /\ sampledAt \in Nat \cup {-1} /\ sampledAt <= now
      /\ Interval \in Nat \ {0} /\ MaxRead \in Nat /\ timer \in Nat
      /\ pc \in {"reading", "sampled"} => timer <= MaxRead
  BY SignalNext DEF TimeInv, TypeOK, AgeInv
<1>1. \A t \in 0..now : UpAt(t)' <=> UpAt(t)
  BY <1>0, PastStands
<1>2. Sample => /\ sampledAt' = now /\ now' = now /\ (sample' <=> up) /\ (UpAt(now) <=> up)
                /\ UpAt(sampledAt)' <=> up
  <2>1. UpAt(now) <=> up
    BY <1>0, PresentIsUp
  <2>2. Sample => sampledAt' = now /\ now' = now /\ sample' = up
    BY DEF Sample
  <2>3. Sample => (UpAt(sampledAt)' <=> UpAt(now))
    BY <1>0, <1>1, <2>2
  <2> QED  BY <2>1, <2>2, <2>3
<1>3. sampledAt' \in Nat \cup {-1} /\ sampledAt <= sampledAt'
  BY <1>0, Moves DEF Sample
<1>4. ReadInv'
  <2>1. CASE Sample
    BY <1>2, <2>1 DEF ReadInv
  <2>2. CASE sampledAt' = sampledAt /\ sample' = sample
    BY <1>0, <1>1, <2>2 DEF ReadInv, FactInv
  <2> QED  BY <2>1, <2>2, Moves
<1>5. DownInv'
  <2>1. CASE WentDown
    BY <1>0, <1>1, <2>1 DEF WentDown, FactInv, ReadInv, DownInv, TimeInv, AgeInv
  <2>2. CASE down' <=> down
    BY <1>0, <1>1, <1>3, <2>2 DEF FactInv, DownInv
  <2> QED  BY <2>1, <2>2, Moves
<1>6. WrongInv'
  <2>1. CASE AwaitMissed
    BY <1>0, <1>1, <2>1 DEF AwaitMissed, FactInv, ReadInv, WrongInv, TimeInv, AgeInv
  <2>2. CASE wrongAt' = wrongAt
    BY <1>0, <1>1, <1>3, <2>2 DEF FactInv, WrongInv
  <2> QED  BY <2>1, <2>2, Moves
<1>7. PrevInv'
  <2> SUFFICES ASSUME op' = "failover", pc' = "sampled"
               PROVE  \/ now' <= timer'
                      \/ \E p \in 0..sampledAt' :
                            ~UpAt(p)' /\ now' <= p + MaxRead + Interval + timer'
    BY DEF PrevInv
  <2>1. op = "failover"
    BY Moves
  <2>2. CASE Sample
    <3>1. now' = now /\ timer' = timer /\ pc = "reading" /\ ~raised /\ sampledAt' = now
      BY <2>1, <2>2 DEF Sample, TimeInv, PendingInv
    <3>2. CASE sampledAt = -1 /\ now <= timer
      BY <3>1, <3>2
    <3>3. CASE sampledAt >= 0 /\ now <= sampledAt + MaxRead + Interval + timer
      <4>1. \E p \in 0..now : p = sampledAt /\ ~UpAt(p)'
        <5>1. ~UpAt(sampledAt)
          BY <2>1, <3>1, <3>3 DEF TimeInv, LastInv, FactInv, ReadInv
        <5>2. ~UpAt(sampledAt)  /\ sampledAt \in 0..now
          BY <1>0, <3>3, <5>1
        <5> QED  BY <1>1, <5>2
      <4> QED  BY <1>0, <3>1, <3>3, <4>1
    <3> QED  BY <3>1, <3>2, <3>3 DEF TimeInv, AgeInv
  <2>3. CASE pc = "sampled" /\ Tick
    <3>1. now' \in {now, now + 1} /\ timer' = timer + 1 /\ sampledAt' = sampledAt
      BY <2>3, TickMoves DEF Tick, TimeInv
    <3>2. CASE now <= timer
      BY <1>0, <3>1, <3>2
    <3>3. ASSUME NEW p \in 0..sampledAt, ~UpAt(p), now <= p + MaxRead + Interval + timer
          PROVE  ~UpAt(p)' /\ now' <= p + MaxRead + Interval + timer'
      BY <1>0, <1>1, <3>1, <3>3
    <3> QED  BY <2>1, <2>3, <3>1, <3>2, <3>3 DEF FactInv, PrevInv
  <2>4. CASE pc = "sampled" /\ UNCHANGED vars
    <3>1. now' = now /\ timer' = timer /\ sampledAt' = sampledAt
      BY <2>4 DEF vars
    <3> QED  BY <1>0, <1>1, <2>1, <2>4, <3>1 DEF FactInv, PrevInv
  <2> QED  BY <2>2, <2>3, <2>4, Moves
<1>8. AwayInv'
  <2> SUFFICES ASSUME op' = "reboot", ~down', pc' = "sampled" => sample', NEW a \in 0..sampledAt'
               PROVE  \E t \in a..sampledAt' : t < a + Window /\ UpAt(t)'
    BY DEF AwayInv, Window
  <2>1. op = "reboot" /\ ~down
    <3>1. op' = op /\ (WentDown \/ (down' <=> down))
      BY Moves
    <3>2. WentDown => down'
      BY DEF WentDown
    <3> QED  BY <3>1, <3>2, Zenon
  <2>2. ASSUME a \in 0..sampledAt, pc = "sampled" => sample
        PROVE  \E t \in a..sampledAt' : t < a + Window /\ UpAt(t)'
    <3>1. PICK t \in a..sampledAt : t < a + Window /\ UpAt(t)
      BY <2>1, <2>2 DEF FactInv, AwayInv
    <3>2. t \in a..sampledAt' /\ UpAt(t)'
      BY <1>0, <1>1, <1>3, <2>2, <3>1
    <3> QED  BY <3>1, <3>2
  <2>3. CASE Sample
    <3>1. pc = "reading" /\ ~raised /\ pc' = "sampled" /\ sampledAt' = now
      BY <2>1, <2>3 DEF Sample, TimeInv, PendingInv
    <3>2. CASE a \in 0..sampledAt
      BY <2>2, <3>1, <3>2
    <3>3. CASE ~(a \in 0..sampledAt)
      <4>1. now < a + Window
        BY <1>0, <3>1, <3>3 DEF Window, TimeInv, AgeInv
      <4>2. UpAt(sampledAt)'
        BY <1>2, <2>3, <3>1
      <4>3. \A t \in 0..now : t = sampledAt' => UpAt(t)'
        BY <4>2
      <4> QED  BY <1>0, <3>1, <4>1, <4>3
    <3> QED  BY <3>2, <3>3
  <2>4. CASE sampledAt' = sampledAt /\ sample' = sample
    <3>1. pc = "sampled" => sample
      BY <2>1, <2>4, Moves DEF WentDown
    <3> QED  BY <2>2, <2>4, <3>1
  <2> QED  BY <2>3, <2>4, Moves
<1> QED  BY <1>4, <1>5, <1>6, <1>7, <1>8 DEF FactInv

----------------------------------------------------------------------------
LEMMA FlipsAreTimes == TypeOK => \A k \in 1..Len(flips) : flips[k] \in Nat
BY DEF TypeOK

\* A signal that changed once, between two readings that differ, changed after
\* the first of them.
LEMMA OneChange ==
    ASSUME TypeOK, Len(flips) = 1, NEW p \in Int, NEW q \in Int, p <= q, ~UpAt(p), UpAt(q)
    PROVE  flips[1] \in Nat /\ p < flips[1]
<1>1. flips[1] \in Nat
  <2>1. \A k \in 1..Len(flips) : flips[k] \in Nat
    BY FlipsAreTimes
  <2> QED  BY <2>1
<1>2. ASSUME flips[1] <= p  PROVE FALSE
  <2>1. {k \in 1..Len(flips) : flips[k] <= p} = {k \in 1..Len(flips) : flips[k] <= q}
    BY <1>1, <1>2
  <2> QED  BY <2>1, Zenon DEF UpAt
<1> QED  BY <1>1, <1>2

\* The end of a wait, as its properties judge it.
WaitInv == TimeInv /\ SignalInv /\ FactInv

LEMMA WaitInit == Init => WaitInv
BY TimeInit, SignalInit, FactInit DEF WaitInv

LEMMA WaitNext == WaitInv /\ [Next]_vars => WaitInv'
<1> SUFFICES ASSUME WaitInv, [Next]_vars  PROVE WaitInv'
  OBVIOUS
<1>1. TypeOK
  BY DEF WaitInv, TimeInv
<1> QED  BY <1>1, TimeNext, SignalNext, FactNext DEF WaitInv

LEMMA WaitCorrect == Spec => []WaitInv
BY WaitInit, WaitNext, PTL DEF Spec

\* How an outcome comes about.
LEMMA Outcomes ==
    ASSUME WaitInv, [Next]_vars, outcome' # outcome
    PROVE  /\ outcome = "pending"
           /\ outcome' = "false" => AwaitMissed /\ Late
           /\ outcome' = "timeout" => TimeOut
           /\ outcome' \in {"true", "rebooted", "measured"} => Seen
           /\ outcome' = "true" => op = "await"
           /\ outcome' = "rebooted" => op = "reboot"
           /\ outcome' = "measured" => op = "failover"
<1>1. Step
  BY DEF Next, Finished, vars, Tick
<1>2. op \in {"await", "endpoint", "reboot", "failover"} /\ pc # "done" /\ outcome = "pending"
  BY <1>1, OpsAssumption DEF WaitInv, TimeInv, TypeOK, PendingInv, Step, Proceed, TimeOut, Poll,
      Sample, ReadRaises, AwaitMissed, Missed, WentDown, StillUp, Seen, Wake
<1> QED
  BY <1>1, <1>2 DEF Step, Proceed, TimeOut, Poll, Sample, ReadRaises, AwaitMissed, Missed, WentDown,
      StillUp, Seen, Wake, End, Sleep

\* The facts at a step that ends a wait: the clock and the signal stand.
LEMMA AtTheEnd ==
    ASSUME WaitInv, AwaitMissed \/ TimeOut \/ Seen
    PROVE  /\ UNCHANGED <<op, sampledAt, now, deadline, signal, raised>>
           /\ TypeOK /\ now \in Nat /\ deadline \in Int /\ timer \in Nat
           /\ Interval \in Nat \ {0} /\ MaxRead \in Nat
           /\ sampledAt \in Nat \cup {-1} /\ sampledAt <= now
           /\ pc = "sampled" => /\ sampledAt \in Nat /\ timer <= MaxRead
                                /\ now <= sampledAt + timer /\ (sample <=> UpAt(sampledAt))
BY TimeAssumption DEF AwaitMissed, TimeOut, Seen, WaitInv, TimeInv, TypeOK, AgeInv, FactInv, ReadInv

----------------------------------------------------------------------------
\* A completed reboot is one: the device was up when it was last asked, and was
\* down once before (wait_for_reboot_completion).
THEOREM RebootIsRealCorrect == Spec => []RebootIsReal
<1>1. Init => RebootIsReal
  BY DEF Init, RebootIsReal
<1>2. WaitInv /\ RebootIsReal /\ [Next]_vars => RebootIsReal'
  <2> SUFFICES ASSUME WaitInv, RebootIsReal, [Next]_vars, outcome' = "rebooted"
               PROVE  RebootIsReal'
    BY DEF RebootIsReal
  <2>1. CASE outcome' = outcome
    <3>1. pc = "done"
      BY <2>1 DEF WaitInv, TimeInv, PendingInv
    <3> QED  BY <3>1, DoneStays DEF vars, RebootIsReal, UpAt
  <2>2. CASE outcome' # outcome
    <3>1. Seen /\ op = "reboot"
      BY <2>2, Outcomes
    <3>2. sample /\ down /\ pc = "sampled"
      BY <3>1 DEF Seen
    <3>3. UpAt(sampledAt) /\ \E t \in 0..sampledAt : ~UpAt(t)
      BY <3>1, <3>2, AtTheEnd DEF WaitInv, FactInv, DownInv
    <3>4. UNCHANGED <<sampledAt, up0, flips>>
      BY <3>1, AtTheEnd DEF signal
    <3> QED  BY <3>3, <3>4 DEF RebootIsReal, UpAt
  <2> QED  BY <2>1, <2>2
<1> QED  BY <1>1, <1>2, WaitCorrect, PTL DEF Spec

\* What is measured of a single change is off by no more than a poll and two
\* reads, and the lower bound of a convergence by no more than a read
\* (measure_failover_convergence, _await_reading).
THEOREM MeasuredWithinAPollCorrect == Spec => []MeasuredWithinAPoll
<1>1. Init => MeasuredWithinAPoll
  BY DEF Init, MeasuredWithinAPoll
<1>2. WaitInv /\ MeasuredWithinAPoll /\ [Next]_vars => MeasuredWithinAPoll'
  <2> SUFFICES ASSUME WaitInv, MeasuredWithinAPoll, [Next]_vars,
                      outcome' \in {"measured", "true"}
               PROVE  MeasuredWithinAPoll'
    BY DEF MeasuredWithinAPoll
  <2>1. CASE outcome' = outcome
    <3>1. pc = "done"
      BY <2>1 DEF WaitInv, TimeInv, PendingInv
    <3> QED  BY <3>1, DoneStays DEF vars, MeasuredWithinAPoll, UpAt
  <2>2. CASE outcome' # outcome
    <3>1. Seen /\ pc = "sampled" /\ sample
      BY <2>2, Outcomes DEF Seen
    <3>2. /\ UpAt(sampledAt) /\ sampledAt \in Nat /\ sampledAt <= now
          /\ now <= sampledAt + timer /\ timer <= MaxRead /\ timer \in Nat /\ now \in Nat
          /\ Interval \in Nat /\ MaxRead \in Nat /\ TypeOK
      BY <3>1, AtTheEnd
    <3>3. outcome' = "measured" /\ Len(flips) = 1 => now <= flips[1] + Interval + 2 * MaxRead
      <4> SUFFICES ASSUME op = "failover", Len(flips) = 1
                   PROVE  now <= flips[1] + Interval + 2 * MaxRead
        BY <2>2, Outcomes
      <4>1. flips[1] \in Nat
        <5>1. \A k \in 1..Len(flips) : flips[k] \in Nat
          BY <3>2 DEF TypeOK
        <5> QED  BY <5>1
      <4>2. CASE now <= timer
        BY <3>2, <4>1, <4>2
      <4>3. ASSUME NEW p \in 0..sampledAt, ~UpAt(p), now <= p + MaxRead + Interval + timer
            PROVE  now <= flips[1] + Interval + 2 * MaxRead
        <5>1. p < flips[1]
          BY <3>2, <4>3, OneChange
        <5> QED  BY <3>2, <4>1, <4>3, <5>1
      <4> QED  BY <3>1, <4>2, <4>3 DEF WaitInv, FactInv, PrevInv
    <3>4. wrongAt >= 0 /\ Len(flips) = 1 => wrongAt <= flips[1] + MaxRead
      <4> SUFFICES ASSUME wrongAt >= 0, Len(flips) = 1
                   PROVE  wrongAt <= flips[1] + MaxRead
        OBVIOUS
      <4>1. PICK p \in 0..sampledAt : ~UpAt(p) /\ wrongAt <= p + MaxRead
        BY DEF WaitInv, FactInv, WrongInv
      <4>2. flips[1] \in Nat /\ p < flips[1]
        BY <3>2, <4>1, OneChange
      <4>3. wrongAt \in Int
        BY <3>2 DEF TypeOK
      <4> QED  BY <3>2, <4>1, <4>2, <4>3
    <3>5. UNCHANGED <<sampledAt, now, wrongAt, up0, flips>>
      BY <3>1, AtTheEnd DEF signal, Seen
    <3> QED  BY <3>2, <3>3, <3>4, <3>5 DEF MeasuredWithinAPoll, UpAt
  <2> QED  BY <2>1, <2>2
<1> QED  BY <1>1, <1>2, WaitCorrect, PTL DEF Spec

\* Giving up is right: what held for long enough has been seen (waiting.py,
\* network_endpoint.py, device_management.py).
THEOREM SteadySignalIsSeenCorrect == Spec => []SteadySignalIsSeen
<1>1. Init => SteadySignalIsSeen
  BY DEF Init, SteadySignalIsSeen
<1>2. WaitInv /\ SteadySignalIsSeen /\ [Next]_vars => SteadySignalIsSeen'
  <2> SUFFICES ASSUME WaitInv, SteadySignalIsSeen, [Next]_vars,
                      outcome' \in {"false", "timeout"}
               PROVE  SteadySignalIsSeen'
    BY DEF SteadySignalIsSeen
  <2>1. CASE outcome' = outcome
    <3>1. pc = "done"
      BY <2>1 DEF WaitInv, TimeInv, PendingInv
    <3> QED  BY <3>1, DoneStays DEF vars, SteadySignalIsSeen, UpThroughout, DownThroughout, UpAt
  <2>2. CASE outcome' # outcome
    <3>1. /\ AwaitMissed \/ TimeOut \/ Seen
          /\ outcome' = "false" => AwaitMissed /\ Late
          /\ outcome' = "timeout" => TimeOut
      BY <2>2, Outcomes
    <3>2. UNCHANGED <<op, sampledAt, now, deadline, raised, up0, flips>>
      BY <3>1, AtTheEnd DEF signal
    <3>3. /\ now \in Nat /\ deadline \in Int /\ timer \in Nat
          /\ Interval \in Nat \ {0} /\ MaxRead \in Nat
          /\ sampledAt \in Nat \cup {-1} /\ sampledAt <= now
      BY <3>1, AtTheEnd
    <3>4. outcome' = "false" => ~UpThroughout(deadline - MaxRead, now)
      <4> SUFFICES ASSUME AwaitMissed, Late  PROVE ~UpThroughout(deadline - MaxRead, now)
        BY <3>1
      <4>1. pc = "sampled" /\ ~sample
        BY DEF AwaitMissed
      <4>2. ~UpAt(sampledAt) /\ sampledAt >= 0 /\ now <= sampledAt + MaxRead
        BY <3>3, <4>1, AtTheEnd
      <4>3. sampledAt \in (deadline - MaxRead)..now
        BY <3>3, <4>2 DEF Late
      <4> QED  BY <4>2, <4>3 DEF UpThroughout
    \* What the clock says of the last reading where a loop gives up.
    <3>5. ASSUME TimeOut, ~raised
          PROVE  /\ now >= deadline
                 /\ \/ sampledAt = -1 /\ now = 0
                    \/ sampledAt >= 0 /\ now <= sampledAt + MaxRead + Interval
                 /\ sampledAt >= 0 => IF op = "reboot" /\ ~down THEN UpAt(sampledAt)
                                      ELSE ~UpAt(sampledAt)
      BY <3>5 DEF TimeOut, Late, WaitInv, TimeInv, AgeInv, LastInv, FactInv, ReadInv
    <3>6. outcome' = "timeout" /\ op = "endpoint" /\ deadline > 0 =>
             raised \/ ~UpThroughout(deadline - Window, now)
      <4> SUFFICES ASSUME TimeOut, op = "endpoint", deadline > 0, ~raised
                   PROVE  ~UpThroughout(deadline - Window, now)
        BY <3>1
      <4>1. sampledAt >= 0 /\ ~UpAt(sampledAt)
        BY <3>3, <3>5
      <4>2. sampledAt \in (deadline - Window)..now
        BY <3>3, <3>5, <4>1 DEF Window
      <4> QED  BY <4>1, <4>2 DEF UpThroughout
    <3>7. ASSUME TimeOut, op = "reboot", NEW a \in 0..now, NEW b \in 0..now,
                 a + Window <= b, b + Window + MaxRead <= deadline,
                 DownThroughout(a, b - 1), UpThroughout(b, now)
          PROVE  FALSE
      <4>1. ~raised /\ pc = "check"
        BY <3>7 DEF TimeOut, WaitInv, TimeInv, PendingInv
      <4>2. Window = Interval + 2 * MaxRead
        BY DEF Window
      <4>3. sampledAt >= 0 /\ b <= sampledAt
        BY <3>3, <3>5, <3>7, <4>1, <4>2
      <4>4. CASE down
        <5>1. ~UpAt(sampledAt)
          BY <3>5, <3>7, <4>1, <4>3, <4>4
        <5> QED  BY <3>3, <3>7, <4>3, <5>1 DEF UpThroughout
      <4>5. CASE ~down
        <5>1. a \in 0..sampledAt
          BY <3>3, <3>7, <4>2, <4>3
        <5>2. op = "reboot" /\ ~down /\ pc # "sampled"
          BY <3>7, <4>1, <4>5
        <5>3. AwayInv
          BY DEF WaitInv, FactInv
        <5>4. PICK t \in a..sampledAt : t < a + Window /\ UpAt(t)
          BY <5>1, <5>2, <5>3 DEF AwayInv
        <5>5. t \in a..(b - 1) /\ t >= 0
          BY <3>3, <3>7, <4>2, <5>4
        <5> QED  BY <3>7, <5>4, <5>5 DEF DownThroughout
      <4> QED  BY <4>4, <4>5
    <3> QED
      BY <3>1, <3>2, <3>4, <3>6, <3>7
         DEF SteadySignalIsSeen, UpThroughout, DownThroughout, UpAt
  <2> QED  BY <2>1, <2>2
<1> QED  BY <1>1, <1>2, WaitCorrect, PTL DEF Spec
=============================================================================
