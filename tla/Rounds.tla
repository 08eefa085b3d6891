------------------------------- MODULE Rounds -------------------------------
(***************************************************************************)
(* The two engines over a rated measurement in                             *)
(* packages/testoperations/src/testoperations/throughput.py:               *)
(*                                                                         *)
(*  - "path": _measure_rounds, which measure_path_until and                *)
(*    measure_external_path_until call: rounds of one unloaded probe and   *)
(*    then each direction in turn, until stop_when or the budget;          *)
(*  - "set": measure_concurrent_throughput_with_retry: one flow set,       *)
(*    re-run whole.                                                        *)
(*                                                                         *)
(* Both take every measurement through _retry_on_noncompletion, which      *)
(* draws fresh ports per attempt and re-draws an attempt that did not      *)
(* complete when the caller's predicate and the ONE deadline allow it.     *)
(* What an attempt does is Throughput's; here it takes 1..MaxFlow ticks    *)
(* and completes, does not complete, or raises something else.  The        *)
(* caller's callbacks answer anything, or raise.                           *)
(***************************************************************************)
EXTENDS Integers, Sequences, FiniteSets, Functions

CONSTANTS
    Names,          \* what a direction may be called
    Directions,     \* the directions of a round: their names, in order
    SetSize,        \* how many flows the concurrent set has
    Budget,         \* budget_s, retry_budget_s
    Backoff,        \* busy_backoff_s
    MaxFlow,        \* the longest one attempt takes
    PoolSize        \* how many ports the caller's allocator hands out

ASSUME DirectionsAssumption == Directions \in Seq(Names)
ASSUME SetAssumption == SetSize \in Nat
ASSUME BudgetAssumption == /\ Budget \in Nat
                           /\ Backoff \in Nat \ {0}
                           /\ MaxFlow \in Nat \ {0}
ASSUME PoolAssumption == PoolSize \in Nat

\* The probe is flow 0 of a round, direction k is flow k.
D == Len(Directions)
Flow == 0..D

VARIABLES
    mode,       \* which engine the call runs
    pc,         \* where it is
    flow,       \* the flow being measured
    port,       \* the next port the allocator hands out
    attempts,   \* every attempt: its ports, its round and its flow
    facts,      \* this round's facts: the attempt each name was measured by
    findings,   \* the findings list
    abandoned,  \* the attempts on_retry was called with
    outcome,    \* how the call ends
    now,        \* the monotonic clock
    deadline    \* drawn once

vars == <<mode, pc, flow, port, attempts, facts, findings, abandoned,
          outcome, now, deadline>>

\* by_direction is keyed by name, and the probe is held beside it.
NoFacts == [probe |-> 0, by |-> <<>>]
-----------------------------------------------------------------------------
Init ==
    /\ mode \in {"path", "set"}
    /\ pc = "draw"
    /\ flow = 0 /\ port = 1
    /\ attempts = <<>> /\ facts = NoFacts
    /\ findings = <<>> /\ abandoned = <<>>
    /\ outcome = "pending"
    /\ now = 0 /\ deadline = Budget

Round == Len(findings) + 1
Current == Len(attempts)

\* How many ports an attempt draws.
Width == IF mode = "set" THEN SetSize ELSE 1

\* Mutant: the first attempt's ports serve every re-draw of it.
Allocate_Once ==
    /\ pc = "draw"
    /\ port + Width - 1 <= PoolSize
    /\ LET first == IF Current \in {abandoned[k] : k \in 1..Len(abandoned)}
                    THEN port - Width ELSE port
       IN /\ port' = first + Width
          /\ attempts' = Append(attempts,
                [ports |-> [k \in 1..Width |-> first + k - 1],
                 round |-> Round, flow |-> flow])
    /\ pc' = "attempt"
    /\ UNCHANGED <<mode, flow, facts, findings, abandoned, outcome,
                   now, deadline>>

\* allocate(): a port per flow of the attempt, drawn anew for every attempt.
Allocate ==
    /\ pc = "draw"
    /\ port + Width - 1 <= PoolSize
    /\ port' = port + Width
    /\ attempts' = Append(attempts, [ports |-> [k \in 1..Width |-> port + k - 1],
                                     round |-> Round, flow |-> flow])
    /\ pc' = "attempt"
    /\ UNCHANGED <<mode, flow, facts, findings, abandoned, outcome,
                   now, deadline>>

\* The exception leaves the engine: findings are lost with the call's frame.
Raise(kind) ==
    /\ outcome' = kind
    /\ pc' = "done"
    /\ UNCHANGED <<mode, flow, port, attempts, facts, findings, deadline>>

\* allocate_port has nothing left to hand out.
AllocateRaises ==
    /\ pc = "draw"
    /\ port + Width - 1 > PoolSize
    /\ Raise("error")
    /\ UNCHANGED <<abandoned, now>>
-----------------------------------------------------------------------------
(* One attempt.                                                            *)

Elapse == \E d \in 1..MaxFlow : now' = now + d

\* A flow's measurement enters the round under its name.
Record ==
    IF flow = 0 THEN [facts EXCEPT !.probe = Current]
    ELSE [facts EXCEPT !.by =
             [n \in DOMAIN @ \cup {Directions[flow]} |->
                 IF n = Directions[flow] THEN Current ELSE @[n]]]

Completes ==
    /\ pc = "attempt" /\ mode = "path"
    /\ Elapse
    /\ facts' = Record
    /\ IF flow < D THEN flow' = flow + 1 /\ pc' = "draw"
                   ELSE flow' = flow /\ pc' = "round"
    /\ UNCHANGED <<mode, port, attempts, findings, abandoned, outcome,
                   deadline>>

\* The whole set completed: its rows are the result.
SetCompletes ==
    /\ pc = "attempt" /\ mode = "set"
    /\ Elapse
    /\ facts' = Record
    /\ outcome' = "returned" /\ pc' = "done"
    /\ UNCHANGED <<mode, flow, port, attempts, findings, abandoned,
                   deadline>>

\* Anything but a NonCompletion is not caught.
AttemptRaises ==
    /\ pc = "attempt"
    /\ Elapse
    /\ Raise("error")
    /\ UNCHANGED abandoned

NonCompletes ==
    /\ pc = "attempt"
    /\ Elapse
    /\ pc' = "except"
    /\ UNCHANGED <<mode, flow, port, attempts, facts, findings,
                   abandoned, outcome, deadline>>
-----------------------------------------------------------------------------
(* The except branch of _retry_on_noncompletion.                           *)

\* Mutant: one more re-draw when the clock stands exactly at the deadline.
Late_Strict == now > deadline

Late == now >= deadline

\* Mutant: the refused re-draw is reported like an absorbed one.
GiveUp_Reported ==
    /\ pc = "except"
    /\ Raise("noncompletion")
    /\ abandoned' = Append(abandoned, Current)
    /\ UNCHANGED now

\* The budget or the predicate refuses: the last non-completion, untouched.
GiveUp ==
    /\ pc = "except"
    /\ Raise("noncompletion")
    /\ UNCHANGED <<abandoned, now>>

\* retry_when or on_retry raises; on_retry has been called in the second case.
RetryCallbackRaises ==
    /\ pc = "except" /\ ~Late
    /\ \/ UNCHANGED abandoned
       \/ abandoned' = Append(abandoned, Current)
    /\ Raise("error")
    /\ UNCHANGED now

\* Report the abandoned attempt, back off, draw again.
Redraw ==
    /\ pc = "except" /\ ~Late
    /\ now' = now + Backoff
    /\ abandoned' = Append(abandoned, Current)
    /\ pc' = "draw"
    /\ UNCHANGED <<mode, flow, port, attempts, facts, findings, outcome,
                   deadline>>
-----------------------------------------------------------------------------
(* The end of a round.                                                     *)

EndRound ==
    /\ pc = "round"
    /\ findings' = Append(findings, facts)
    /\ UNCHANGED <<mode, port, attempts, abandoned, now, deadline>>

\* stop_when answers True, or the budget has lapsed.
Return ==
    /\ EndRound
    /\ outcome' = "returned" /\ pc' = "done"
    /\ UNCHANGED <<flow, facts>>

\* Mutant: the probe is measured once, before the loop.
AnotherRound_ProbeOnce ==
    /\ EndRound
    /\ ~Late
    /\ flow' = 1 /\ facts' = [NoFacts EXCEPT !.probe = facts.probe]
    /\ pc' = "draw"
    /\ UNCHANGED outcome

AnotherRound ==
    /\ EndRound
    /\ ~Late
    /\ flow' = 0 /\ facts' = NoFacts
    /\ pc' = "draw"
    /\ UNCHANGED outcome

\* on_round or stop_when raises, after the round entered the findings.
RoundCallbackRaises ==
    /\ EndRound
    /\ outcome' = "error" /\ pc' = "done"
    /\ UNCHANGED <<flow, facts>>

Step ==
    \/ Allocate \/ AllocateRaises
    \/ Completes \/ SetCompletes \/ NonCompletes \/ AttemptRaises
    \/ GiveUp \/ Redraw \/ RetryCallbackRaises
    \/ Return \/ AnotherRound \/ RoundCallbackRaises

\* The call is over.
Finished == pc = "done" /\ UNCHANGED vars

Next == Step \/ Finished

Spec == Init /\ [][Next]_vars

-----------------------------------------------------------------------------
Attempt == [ports : Seq(Nat), round : Nat, flow : Flow]
Facts == [probe : Nat, by : [Range(Directions) -> Nat]]

TypeOK ==
    /\ mode \in {"path", "set"}
    /\ pc \in {"draw", "attempt", "except", "round", "done"}
    /\ flow \in Flow
    /\ port \in 1..(PoolSize + 1)
    /\ attempts \in Seq(Attempt)
    /\ facts.probe \in Nat /\ DOMAIN facts.by \subseteq Range(Directions)
    /\ findings \in Seq(Facts)
    /\ abandoned \in Seq(Nat)
    /\ outcome \in {"pending", "returned", "noncompletion", "error"}
    /\ now \in Nat /\ deadline \in Nat

\* "The resource is drawn PER attempt, so a re-draw never reuses the abandoned
\* one": no port serves two attempts of the call, nor two flows of a set.
FreshPorts ==
    \A j, k \in 1..Current :
        /\ j # k => Range(attempts[j].ports) \cap Range(attempts[k].ports) = {}
        /\ Cardinality(Range(attempts[k].ports)) = Len(attempts[k].ports)

SameFlow(j, k) == /\ attempts[j].round = attempts[k].round
                  /\ attempts[j].flow = attempts[k].flow

\* "A silent retry loop can absorb a non-completion many times over": every
\* attempt that was re-drawn reached on_retry, once and in order, and no other
\* did -- not a completed one, nor the one whose non-completion ends the call.
AbsorbedIsReported ==
    /\ \A k \in 1..(Current - 1) : SameFlow(k, k + 1) <=> k \in Range(abandoned)
    /\ \A j, k \in 1..Len(abandoned) : j < k => abandoned[j] < abandoned[k]
    /\ outcome \in {"returned", "noncompletion"} => Current \notin Range(abandoned)

\* A finding is one whole round: its own probe, then for every name the last
\* direction that carries it, all measured in that round by attempts that
\* completed; a returned set is the last attempt's.
RoundsAreWhole ==
    /\ \A r \in 1..Len(findings) :
          LET probe == findings[r].probe
              by == findings[r].by
          IN /\ attempts[probe].round = r /\ attempts[probe].flow = 0
             /\ probe \notin Range(abandoned)
             /\ DOMAIN by = Range(Directions)
             /\ \A n \in DOMAIN by :
                   /\ by[n] > probe
                   /\ attempts[by[n]].round = r
                   /\ Directions[attempts[by[n]].flow] = n
                   /\ \A k \in (attempts[by[n]].flow + 1)..D : Directions[k] # n
                   /\ by[n] \notin Range(abandoned)
    /\ mode = "set" /\ outcome = "returned" => facts.probe = Current

\* One deadline bounds the call: rounds and re-draws start before it, so the
\* call passes it by less than a backoff and one round of single attempts.
BudgetBound == now <= deadline + ((Backoff - 1) + (D + 1) * MaxFlow)
=============================================================================
