------------------------------- MODULE Waiting -------------------------------
(***************************************************************************)
(* The polling operations of packages/testoperations/src/testoperations:   *)
(*                                                                         *)
(*   "await"     wait_until under _await_reading        (waiting.py)       *)
(*   "endpoint"  wait_for_endpoint_ready                (network_endpoint) *)
(*   "reboot"    wait_for_reboot_completion             (device_management)*)
(*   "failover"  measure_failover_convergence           (sdwan.py)         *)
(*                                                                         *)
(* Each samples one Boolean signal of the testbed through a driver call    *)
(* that takes time, while the signal changes when it likes.  The signal is *)
(* up when the probe reads `want`, the endpoint has an address, the device *)
(* is online, the router has left the impaired WAN.                        *)
(***************************************************************************)
EXTENDS Integers, Sequences, FiniteSets

CONSTANTS
    Ops,        \* the operations to run
    Budgets,    \* budget_s, timeout_s, timeout: any integer
    Interval,   \* interval_s, poll_s, 0.5 s, 0.05 s
    MaxRead,    \* the longest a driver call takes
    MaxFlips,   \* bound: how often the signal changes
    Horizon     \* bound: the clock of a failover that does not come stops here

ASSUME OpsAssumption == Ops \subseteq {"await", "endpoint", "reboot", "failover"}
ASSUME TimeAssumption == /\ Budgets \subseteq Int
                         /\ Interval \in Nat \ {0}
                         /\ MaxRead \in Nat
ASSUME BoundAssumption == MaxFlips \in Nat /\ Horizon \in Nat

VARIABLES
    op,         \* the operation
    pc,         \* where it is
    down,       \* reboot: the device has been seen offline
    timer,      \* ticks since the driver call or the sleep began
    sample,     \* what the last driver call saw
    sampledAt,  \* and when it saw it
    wrongAt,    \* still_wrong_at, or -1
    raised,     \* endpoint: some read raised (last_error)
    outcome,    \* how the operation ended
    now, deadline,
    up,         \* the signal
    up0, flips  \* its history: the first value, and when it changed

vars == <<op, pc, down, timer, sample, sampledAt, wrongAt, raised, outcome,
          now, deadline, up, up0, flips>>

signal == <<up, up0, flips>>

\* The signal's value at time t, from its history.
UpAt(t) == up0 = (Cardinality({k \in 1..Len(flips) : flips[k] <= t}) % 2 = 0)
-----------------------------------------------------------------------------
Init ==
    /\ op \in Ops
    /\ pc = IF op \in {"await", "failover"} THEN "poll" ELSE "check"
    /\ down = FALSE /\ raised = FALSE
    /\ timer = 0
    /\ sample = FALSE /\ sampledAt = -1 /\ wrongAt = -1
    /\ outcome = "pending"
    /\ now = 0 /\ deadline \in Budgets
    /\ up0 \in BOOLEAN /\ up = up0 /\ flips = <<>>

\* Mutant: one more poll when the clock stands exactly at the deadline.
Late_Strict == now > deadline

Late == now >= deadline

End(result) == outcome' = result /\ pc' = "done"

\* The deadline check at the head of the endpoint and reboot loops.
Proceed ==
    /\ pc = "check" /\ ~Late
    /\ pc' = "poll"
    /\ UNCHANGED <<op, down, timer, sample, sampledAt, wrongAt, raised, outcome,
                   now, deadline, signal>>

TimeOut ==
    /\ pc = "check" /\ Late
    /\ End("timeout")
    /\ UNCHANGED <<op, down, timer, sample, sampledAt, wrongAt, raised, now,
                   deadline, signal>>

\* The driver call begins ...
Poll ==
    /\ pc = "poll"
    /\ pc' = "reading" /\ timer' = 0
    /\ UNCHANGED <<op, down, sample, sampledAt, wrongAt, raised, outcome, now,
                   deadline, signal>>

\* Mutant: the loop tests the reading of the round before.
Sample_TestsOld ==
    /\ pc = "reading"
    /\ sample' = (sampledAt >= 0 /\ UpAt(sampledAt)) /\ sampledAt' = now
    /\ pc' = "sampled"
    /\ UNCHANGED <<op, down, timer, wrongAt, raised, outcome, now, deadline,
                   signal>>

\* ... sees the signal at some moment ...
Sample ==
    /\ pc = "reading"
    /\ sample' = up /\ sampledAt' = now
    /\ pc' = "sampled"
    /\ UNCHANGED <<op, down, timer, wrongAt, raised, outcome, now, deadline,
                   signal>>

\* ... or raises: terminal, except that the endpoint loop reads it as empty.
ReadRaises ==
    /\ pc = "reading"
    /\ IF op = "endpoint"
       THEN /\ raised' = TRUE
            /\ pc' = "sleeping" /\ timer' = 0
            /\ UNCHANGED outcome
       ELSE End("error") /\ UNCHANGED <<raised, timer>>
    /\ UNCHANGED <<op, down, sample, sampledAt, wrongAt, now, deadline, signal>>

Sleep == pc' = "sleeping" /\ timer' = 0

\* Mutant: no sleep past the deadline, so the last poll is skipped.
AwaitMissed_EarlyOut ==
    /\ pc = "sampled" /\ op = "await" /\ ~sample
    /\ wrongAt' = now
    /\ IF now + Interval >= deadline THEN End("false") /\ UNCHANGED timer
                                     ELSE Sleep /\ UNCHANGED outcome
    /\ UNCHANGED <<op, down, sample, sampledAt, raised, now, deadline, signal>>

\* _matches: stamp the old state after the read; then wait_until's deadline.
AwaitMissed ==
    /\ pc = "sampled" /\ op = "await" /\ ~sample
    /\ wrongAt' = now
    /\ IF Late THEN End("false") /\ UNCHANGED timer
               ELSE Sleep /\ UNCHANGED outcome
    /\ UNCHANGED <<op, down, sample, sampledAt, raised, now, deadline, signal>>

\* Mutant: the pause between two polls is dropped.
Missed_NoSleep ==
    /\ pc = "sampled" /\ op # "await" /\ ~sample
    /\ op = "reboot" => down
    /\ pc' = IF op = "failover" THEN "poll" ELSE "check"
    /\ UNCHANGED <<op, down, timer, sample, sampledAt, wrongAt, raised, outcome,
                   now, deadline, signal>>

\* No address, still on the impaired WAN; offline again in the second loop.
Missed ==
    /\ pc = "sampled" /\ op # "await" /\ ~sample
    /\ op = "reboot" => down
    /\ Sleep
    /\ UNCHANGED <<op, down, sample, sampledAt, wrongAt, raised, outcome, now,
                   deadline, signal>>

\* Offline for the first time: the second loop begins at once, unslept.
WentDown ==
    /\ pc = "sampled" /\ op = "reboot" /\ ~sample /\ ~down
    /\ down' = TRUE
    /\ pc' = "check"
    /\ UNCHANGED <<op, timer, sample, sampledAt, wrongAt, raised, outcome, now,
                   deadline, signal>>

\* Mutant: one loop, which takes the first online reading for the reboot's end.
StillUp_Returns ==
    /\ pc = "sampled" /\ op = "reboot" /\ sample /\ ~down
    /\ End("rebooted")
    /\ UNCHANGED <<op, down, timer, sample, sampledAt, wrongAt, raised, now,
                   deadline, signal>>

\* Still online: the reboot has not begun.
StillUp ==
    /\ pc = "sampled" /\ op = "reboot" /\ sample /\ ~down
    /\ Sleep
    /\ UNCHANGED <<op, down, sample, sampledAt, wrongAt, raised, outcome, now,
                   deadline, signal>>

Seen ==
    /\ pc = "sampled" /\ sample
    /\ op = "reboot" => down
    /\ End(CASE op = "await" -> "true"
             [] op = "endpoint" -> "ready"
             [] op = "reboot" -> "rebooted"
             [] op = "failover" -> "measured")
    /\ UNCHANGED <<op, down, timer, sample, sampledAt, wrongAt, raised, now,
                   deadline, signal>>

Wake ==
    /\ pc = "sleeping" /\ timer = Interval
    /\ pc' = IF op \in {"await", "failover"} THEN "poll" ELSE "check"
    /\ UNCHANGED <<op, down, timer, sample, sampledAt, wrongAt, raised, outcome,
                   now, deadline, signal>>

\* The router is still on the impaired WAN. It may be so for good: the calls and
\* the sleeps then go on, and the clock, which the loop does not look at, is no
\* longer counted until the router switches.
Impaired == op = "failover" /\ ~up /\ now >= Horizon

\* Time passes inside a driver call or a sleep, and the testbed moves.
Tick ==
    /\ \/ pc \in {"reading", "sampled"} /\ timer < MaxRead
       \/ pc = "sleeping" /\ timer < Interval
    /\ timer' = timer + 1
    /\ \/ now' = (IF Impaired THEN now ELSE now + 1) /\ UNCHANGED signal
       \/ /\ Len(flips) < MaxFlips \/ Impaired
          /\ now' = now + 1
          /\ up' = ~up /\ flips' = Append(flips, now') /\ up0' = up0
    /\ UNCHANGED <<op, pc, down, sample, sampledAt, wrongAt, raised, outcome,
                   deadline>>

Step == \/ Proceed \/ TimeOut \/ Poll \/ Sample \/ ReadRaises
        \/ AwaitMissed \/ Missed \/ WentDown \/ StillUp \/ Seen \/ Wake

Finished == pc = "done" /\ UNCHANGED vars

Next == Step \/ Tick \/ Finished

Spec == Init /\ [][Next]_vars

\* The caller runs, driver calls come back and sleeps end.
FairSpec == Spec /\ WF_vars(Step) /\ WF_vars(Tick)
-----------------------------------------------------------------------------
TypeOK ==
    /\ op \in Ops
    /\ pc \in {"check", "poll", "reading", "sampled", "sleeping", "done"}
    /\ down \in BOOLEAN /\ raised \in BOOLEAN /\ sample \in BOOLEAN
    /\ timer \in 0..IF pc \in {"reading", "sampled"} THEN MaxRead
                    ELSE Interval + MaxRead
    /\ sampledAt \in Nat \cup {-1} /\ wrongAt \in Nat \cup {-1}
    /\ outcome \in {"pending", "true", "false", "ready", "timeout", "rebooted",
                    "measured", "error"}
    /\ now \in Nat /\ deadline \in Int
    /\ up \in BOOLEAN /\ up0 \in BOOLEAN
    /\ flips \in Seq(Nat)

\* A signal that holds this long is sampled at least once: two samples are at
\* most the rest of one read, a sleep and the next read apart.
Window == Interval + 2 * MaxRead

UpThroughout(a, b) == \A t \in a..b : t >= 0 => UpAt(t)
DownThroughout(a, b) == \A t \in a..b : t >= 0 => ~UpAt(t)

\* The clock is looked at before the sleep (wait_until) or after it (the other
\* loops): either way a wait outlives its budget by less than a sleep and a call,
\* and a verdict returned in time was sampled at most so much after it.
BoundedWait ==
    op # "failover" =>
        \/ now <= deadline + (Interval - 1) + MaxRead
        \/ deadline <= 0 /\ now <= MaxRead

\* Giving up is not a matter of luck: a condition that held through a whole poll
\* and read before the deadline has been observed, in any phase of the polling.
\* (A non-positive timeout never polls the endpoint at all.)
\* Nor is a reboot timed out during which the device was away for a whole poll
\* and read, and back that long before the deadline.
SteadySignalIsSeen ==
    /\ outcome = "false" => ~UpThroughout(deadline - MaxRead, now)
    /\ outcome = "timeout" /\ op = "endpoint" /\ deadline > 0 =>
          raised \/ ~UpThroughout(deadline - Window, now)
    /\ outcome = "timeout" /\ op = "reboot" =>
          ~ \E a \in 0..now, b \in 0..now :
                /\ a + Window <= b /\ b + Window + MaxRead <= deadline
                /\ DownThroughout(a, b - 1) /\ UpThroughout(b, now)

\* "transitions from True -> False -> True (or starts from False)": a completed
\* reboot is one, not a device that never went away.
RebootIsReal ==
    outcome = "rebooted" =>
        UpAt(sampledAt) /\ \E t \in 0..sampledAt : ~UpAt(t)

\* elapsed_ms is no earlier than the switch it observed, and if the router
\* switched once, no later than one poll and two reads after it. The lower bound
\* on a convergence is stamped after the read it belongs to, so it can be late,
\* but by no more than that read.
MeasuredWithinAPoll ==
    /\ outcome = "measured" =>
        /\ UpAt(sampledAt) /\ sampledAt <= now
        /\ Len(flips) = 1 => now <= flips[1] + Interval + 2 * MaxRead
    /\ outcome = "true" /\ wrongAt >= 0 /\ Len(flips) = 1 => wrongAt <= flips[1] + MaxRead

\* Every wait ends, but for the one without a budget: measure_failover_convergence
\* polls for as long as the router stays where it is, and for no other reason.
WaitEnds == <>(pc = "done") \/ <>[]Impaired
=============================================================================
