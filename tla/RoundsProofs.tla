---------------------------- MODULE RoundsProofs ----------------------------
(***************************************************************************)
(* What the retry and round engines guarantee for every list of            *)
(* directions, every set size, every budget, backoff and flow time.  The   *)
(* inductive invariant has five parts: IndexInv (types, and which attempt  *)
(* is the current one), PortsInv (ports handed out so far lie below the    *)
(* allocator's), AbsorbInv (which attempts have been reported), FactsInv   *)
(* (what a half-measured round holds) and ClockInv (the budget each flow   *)
(* of a round may still have used).                                        *)
(***************************************************************************)
EXTENDS Rounds, FiniteSetTheorems, SequenceTheorems, TLAPS

\* A round's facts while its directions are being measured.
PartialFacts ==
    [probe : Nat, by : UNION {[S -> Nat] : S \in SUBSET Range(Directions)}]

\* The names measured in this round so far.
Measured == {Directions[k] : k \in 1..(IF pc = "round" THEN D ELSE flow - 1)}

Running == pc \in {"attempt", "except", "round"}

IndexInv ==
    /\ TypeOK
    /\ facts \in PartialFacts
    /\ pc # "done" => DOMAIN facts.by = Measured
    /\ pc = "round" => flow = D /\ mode = "path"
    /\ mode = "set" => flow = 0
    /\ Running => /\ Current > 0
                  /\ attempts[Current].round = Round
                  /\ attempts[Current].flow = flow
-----------------------------------------------------------------------------
(* Types.                                                                  *)

\* Nothing measured: the empty sequence is the function with no arguments.
LEMMA NoFactsType == NoFacts \in PartialFacts /\ DOMAIN NoFacts.by = {}
<1>1. PICK n \in Nat : <<>> \in [1..n -> Nat]
  BY EmptySeq, SeqDef
<1>2. DOMAIN <<>> = 1..0
  BY EmptySeq, LenProperties
<1>3. 1..0 = {}
  OBVIOUS
<1>4. <<>> \in [{} -> Nat]
  BY <1>1, <1>2, <1>3
<1>5. {} \in SUBSET Range(Directions)
  OBVIOUS
<1> QED BY <1>2, <1>3, <1>4, <1>5 DEF NoFacts, PartialFacts

LEMMA DirectionsType ==
    /\ D \in Nat
    /\ \A k \in 1..D : Directions[k] \in Range(Directions)
    /\ {Directions[k] : k \in 1..D} = Range(Directions)
  BY DirectionsAssumption, LenProperties, RangeEquality DEF D, Range

LEMMA IndexInvInit == Init => IndexInv
<1> SUFFICES ASSUME Init PROVE IndexInv
  OBVIOUS
<1>1. /\ attempts \in Seq(Attempt) /\ findings \in Seq(Facts)
      /\ abandoned \in Seq(Nat)
  BY EmptySeq DEF Init
<1>2. 0 \in Flow /\ 1 \in 1..(PoolSize + 1)
  BY PoolAssumption, DirectionsType DEF Flow
<1>3. Measured = {}
  BY DEF Measured, Init
<1>4. facts.probe \in Nat /\ DOMAIN facts.by \subseteq Range(Directions)
  BY NoFactsType DEF Init, NoFacts
<1>5. TypeOK
  BY <1>1, <1>2, <1>4, BudgetAssumption DEF Init, TypeOK
<1> QED BY <1>3, <1>5, NoFactsType DEF Init, IndexInv, Running

\* A flow's measurement extends the round's facts by its name.
LEMMA RecordType ==
    ASSUME IndexInv, pc = "attempt"
    PROVE  /\ Record \in PartialFacts
           /\ DOMAIN Record.by = {Directions[k] : k \in 1..flow}
           /\ Record.probe \in Nat /\ DOMAIN Record.by \subseteq Range(Directions)
<1>1. facts.by \in [DOMAIN facts.by -> Nat] /\ facts.probe \in Nat
  BY DEF IndexInv, PartialFacts
<1>2. DOMAIN facts.by = {Directions[k] : k \in 1..(flow - 1)} /\ flow \in 0..D
  BY DEF IndexInv, Measured, TypeOK, Flow
<1>3. Current \in Nat
  BY LenProperties DEF IndexInv, TypeOK, Current
<1>4. CASE flow = 0
  <2>1. Record = [facts EXCEPT !.probe = Current]
    BY <1>4 DEF Record
  <2>2. 1..flow = {} /\ 1..(flow - 1) = {}
    BY <1>4
  <2>3. Record.by = facts.by /\ Record.probe = Current /\ Record \in PartialFacts
    BY <2>1, <1>3 DEF IndexInv, PartialFacts
  <2> QED BY <1>2, <1>3, <2>2, <2>3
<1>5. CASE flow # 0
  <2> DEFINE S == DOMAIN facts.by \cup {Directions[flow]}
             by == [n \in S |-> IF n = Directions[flow] THEN Current ELSE facts.by[n]]
  <2>1. Record = [facts EXCEPT !.by = by]
    BY <1>5 DEF Record
  <2>2. by \in [S -> Nat]
    BY <1>1, <1>3
  <2>3. S = {Directions[k] : k \in 1..flow}
    BY <1>2, <1>5, DirectionsType
  <2>4. S \in SUBSET Range(Directions)
    BY <1>2, <2>3, DirectionsType
  <2>5. Record.by = by /\ Record.probe = facts.probe /\ Record \in PartialFacts
    BY <2>1, <2>2, <2>4 DEF IndexInv, PartialFacts
  <2>6. DOMAIN by = S
    OBVIOUS
  <2> HIDE DEF S, by
  <2> QED BY <1>1, <2>3, <2>4, <2>5, <2>6
<1> QED BY <1>4, <1>5

Drawn == [ports |-> [k \in 1..Width |-> port + k - 1], round |-> Round, flow |-> flow]

\* An attempt's ports are an interval that begins at the allocator's next port.
LEMMA DrawnType ==
    ASSUME TypeOK
    PROVE  /\ Width \in Nat /\ Round \in Nat /\ Current \in Nat
           /\ Drawn \in Attempt
           /\ Len(Drawn.ports) = Width
           /\ Range(Drawn.ports) = port..(port + Width - 1)
<1> USE DEF TypeOK
<1>1. Width \in Nat /\ Round \in Nat /\ Current \in Nat
  BY SetAssumption, LenProperties DEF Width, Round, Current
<1>2. port \in Nat
  BY PoolAssumption
<1> DEFINE p == [k \in 1..Width |-> port + k - 1]
<1>3. p \in [1..Width -> Nat]
  BY <1>1, <1>2, PoolAssumption
<1>4. p \in Seq(Nat)
  BY <1>1, <1>3, SeqDef
<1>5. Len(p) = Width
  BY <1>1, <1>3, <1>4, LenProperties
<1>6. Range(p) = port..(port + Width - 1)
  <2>1. Range(p) = {p[k] : k \in 1..Width}
    BY <1>4, <1>5, RangeEquality
  <2>2. ASSUME NEW x \in port..(port + Width - 1)
        PROVE  x \in Range(p)
    <3>1. x - port + 1 \in 1..Width /\ p[x - port + 1] = x
      BY <1>1, <1>2
    <3> QED BY <2>1, <3>1
  <2>3. ASSUME NEW k \in 1..Width PROVE p[k] \in port..(port + Width - 1)
    BY <1>1, <1>2
  <2> QED BY <2>1, <2>2, <2>3
<1> QED BY <1>1, <1>4, <1>5, <1>6 DEF Drawn, Attempt

LEMMA AllocateType ==
    ASSUME TypeOK, Allocate
    PROVE  /\ attempts' = Append(attempts, Drawn) /\ attempts' \in Seq(Attempt)
           /\ Current' = Current + 1 /\ attempts'[Current'] = Drawn
           /\ \A k \in 1..Current : attempts'[k] = attempts[k]
<1>1. attempts' = Append(attempts, Drawn)
  BY DEF Allocate, Drawn
<1> QED BY <1>1, DrawnType, AppendProperties DEF TypeOK, Current

\* The current attempt does not change but by a draw.
LEMMA IndexInvStep == IndexInv /\ [Next]_vars => IndexInv'
<1> SUFFICES ASSUME IndexInv, [Next]_vars PROVE IndexInv'
  OBVIOUS
<1>0. TypeOK /\ D \in Nat
  BY DirectionsType DEF IndexInv
<1>1. CASE Allocate
  <2>1. attempts' \in Seq(Attempt) /\ Current' = Current + 1 /\ Current \in Nat
        /\ attempts'[Current'].round = Round /\ attempts'[Current'].flow = flow
    BY <1>0, <1>1, AllocateType, DrawnType DEF Drawn
  <2>2. /\ pc = "draw" /\ pc' = "attempt"
        /\ UNCHANGED <<mode, flow, facts, findings, abandoned, outcome, now, deadline>>
    BY <1>1 DEF Allocate
  <2>3. port' \in 1..(PoolSize + 1)
    <3>1. Width \in Nat /\ port \in 1..(PoolSize + 1)
      BY <1>0, DrawnType DEF TypeOK
    <3>2. port + Width - 1 <= PoolSize /\ port' = port + Width
      BY <1>1 DEF Allocate
    <3> QED BY <3>1, <3>2, PoolAssumption
  <2>4. Round' = Round /\ Measured' = Measured
    BY <2>2 DEF Round, Measured
  <2> QED BY <2>1, <2>2, <2>3, <2>4 DEF IndexInv, TypeOK, Running
<1>2. ASSUME NEW kind \in {"noncompletion", "error"}, Raise(kind),
             now' \in Nat, abandoned' \in Seq(Nat)
      PROVE  IndexInv'
  BY <1>2 DEF Raise, IndexInv, TypeOK, Running
<1>3. CASE AllocateRaises
  BY <1>2, <1>3 DEF AllocateRaises, IndexInv, TypeOK
<1>4. ASSUME Elapse PROVE now' \in Nat
  BY <1>0, <1>4, BudgetAssumption DEF Elapse, TypeOK
<1>5. CASE Completes
  <2>1. /\ facts' = Record /\ now' \in Nat
        /\ UNCHANGED <<mode, port, attempts, findings, abandoned, outcome, deadline>>
        /\ pc = "attempt" /\ mode = "path"
    BY <1>4, <1>5 DEF Completes
  <2>2. /\ flow' \in Flow
        /\ \/ pc' = "draw" /\ flow' = flow + 1
           \/ pc' = "round" /\ flow' = flow /\ flow = D
    BY <1>0, <1>5 DEF Completes, TypeOK, Flow
  <2>3. facts' \in PartialFacts /\ DOMAIN facts'.by = Measured'
        /\ facts'.probe \in Nat /\ DOMAIN facts'.by \subseteq Range(Directions)
    <3>1. /\ facts' \in PartialFacts /\ facts'.probe \in Nat
          /\ DOMAIN facts'.by = {Directions[k] : k \in 1..flow}
          /\ DOMAIN facts'.by \subseteq Range(Directions)
      BY <2>1, RecordType
    <3>2. flow \in 0..D
      BY <1>0 DEF TypeOK, Flow
    <3>3. Measured' = {Directions[k] : k \in 1..flow}
      <4>1. CASE pc' = "draw" /\ flow' = flow + 1
        <5>1. flow' - 1 = flow
          BY <3>2, <4>1
        <5> QED BY <4>1, <5>1 DEF Measured
      <4>2. CASE pc' = "round" /\ flow' = flow /\ flow = D
        BY <4>2 DEF Measured
      <4> QED BY <2>2, <4>1, <4>2
    <3> QED BY <3>1, <3>3
  <2>4. Running' => pc' = "round" /\ Current' = Current /\ Round' = Round
    BY <2>1, <2>2 DEF Running, Current, Round
  <2>5. TypeOK'
    BY <2>1, <2>2, <2>3, <1>0 DEF TypeOK
  <2> QED BY <2>1, <2>2, <2>3, <2>4, <2>5 DEF IndexInv, Running
<1>6. CASE SetCompletes
  <2>1. facts' = Record /\ now' \in Nat /\ pc = "attempt"
    BY <1>4, <1>6 DEF SetCompletes
  <2> QED BY <2>1, <1>6, RecordType DEF SetCompletes, IndexInv, TypeOK, Running
<1>7. CASE AttemptRaises
  BY <1>2, <1>4, <1>7 DEF AttemptRaises, IndexInv, TypeOK
<1>8. CASE NonCompletes
  <2>1. now' \in Nat /\ Round' = Round /\ Current' = Current /\ Measured' = Measured
    BY <1>4, <1>8 DEF NonCompletes, Round, Current, Measured
  <2> QED BY <1>8, <2>1 DEF NonCompletes, IndexInv, TypeOK, Running
<1>9. Append(abandoned, Current) \in Seq(Nat)
  BY <1>0, DrawnType, AppendProperties DEF TypeOK
<1>10. CASE GiveUp
  BY <1>2, <1>10 DEF GiveUp, IndexInv, TypeOK
<1>11. CASE RetryCallbackRaises
  BY <1>2, <1>9, <1>11 DEF RetryCallbackRaises, IndexInv, TypeOK
<1>12. CASE Redraw
  <2>1. now' \in Nat /\ abandoned' \in Seq(Nat) /\ Measured' = Measured
    BY <1>0, <1>9, <1>12, BudgetAssumption DEF Redraw, TypeOK, Measured
  <2> QED BY <1>12, <2>1 DEF Redraw, IndexInv, TypeOK, Running
<1>13. ASSUME EndRound PROVE findings' \in Seq(Facts)
  <2>1. DOMAIN facts.by = Range(Directions)
    BY <1>13, DirectionsType DEF EndRound, IndexInv, Measured
  <2>2. facts \in Facts
    BY <2>1 DEF IndexInv, PartialFacts, Facts
  <2> QED BY <1>0, <1>13, <2>2, AppendProperties DEF EndRound, TypeOK
<1>14. CASE Return
  BY <1>13, <1>14 DEF Return, EndRound, IndexInv, TypeOK, Running
<1>15. CASE AnotherRound
  <2>1. /\ findings' \in Seq(Facts) /\ pc' = "draw" /\ flow' = 0 /\ facts' = NoFacts
        /\ UNCHANGED <<mode, port, attempts, abandoned, now, deadline, outcome>>
    BY <1>13, <1>15 DEF AnotherRound, EndRound
  <2>2. Measured' = {}
    BY <2>1 DEF Measured
  <2>3. facts' \in PartialFacts /\ DOMAIN facts'.by = {} /\ facts'.probe \in Nat
    BY <2>1, NoFactsType DEF NoFacts
  <2> QED BY <1>0, <2>1, <2>2, <2>3 DEF IndexInv, TypeOK, Running, Flow
<1>16. CASE RoundCallbackRaises
  BY <1>13, <1>16 DEF RoundCallbackRaises, EndRound, IndexInv, TypeOK, Running
<1>17. CASE UNCHANGED vars
  BY <1>17 DEF vars, IndexInv, TypeOK, Running, Measured, Current, Round
<1> QED
  BY <1>1, <1>3, <1>5, <1>6, <1>7, <1>8, <1>10, <1>11, <1>12, <1>14, <1>15, <1>16,
     <1>17 DEF Next, Step, Finished

\* Every reachable state of either engine is well typed.
THEOREM TypeCorrect == Spec => []TypeOK
<1>1. IndexInv => TypeOK
  BY DEF IndexInv
<1> QED BY <1>1, IndexInvInit, IndexInvStep, PTL DEF Spec
-----------------------------------------------------------------------------
(* The budget.                                                             *)

\* The longest n attempts in a row take.
Used(n) == n * MaxFlow

ClockInv ==
    /\ pc \in {"draw", "attempt"} => now <= deadline + ((Backoff - 1) + Used(flow))
    /\ pc = "except" => now <= deadline + ((Backoff - 1) + Used(flow + 1))
    /\ now <= deadline + ((Backoff - 1) + Used(D + 1))

\* Multiplication by MaxFlow is monotonic, and distributes over one more flow.
LEMMA UsedSteps ==
    /\ Used(0) = 0
    /\ \A n \in Nat : Used(n) \in Nat /\ Used(n + 1) = Used(n) + MaxFlow
    /\ \A n \in Flow : Used(n) <= Used(D) /\ Used(n + 1) <= Used(D + 1)
<1>1. MaxFlow \in Nat /\ D \in Nat
  BY BudgetAssumption, DirectionsType
<1>2. ASSUME NEW n \in Nat PROVE Used(n) \in Nat /\ Used(n + 1) = Used(n) + MaxFlow
  BY <1>1 DEF Used
<1>3. ASSUME NEW n \in Flow PROVE Used(n) <= Used(D) /\ Used(n + 1) <= Used(D + 1)
  <2>1. n \in Nat /\ n <= D /\ D - n \in Nat
    BY <1>1 DEF Flow
  <2>2. Used(D) = Used(n) + Used(D - n) /\ Used(D - n) \in Nat /\ Used(n) \in Nat
    BY <1>1, <2>1 DEF Used
  <2>3. Used(n + 1) = Used(n) + MaxFlow /\ Used(D + 1) = Used(D) + MaxFlow
    BY <1>1, <1>2, <2>1
  <2> QED BY <1>1, <2>2, <2>3
<1>4. Used(0) = 0
  BY <1>1 DEF Used
<1> QED BY <1>2, <1>3, <1>4

LEMMA ClockInvInit == Init => ClockInv
<1> SUFFICES ASSUME Init PROVE ClockInv
  OBVIOUS
<1>1. D \in Nat /\ D + 1 \in Nat /\ Budget \in Nat /\ Backoff \in Nat \ {0}
  BY DirectionsType, BudgetAssumption
<1>2. Used(0) = 0 /\ Used(D + 1) \in Nat
  BY <1>1, UsedSteps
<1>3. pc = "draw" /\ flow = 0 /\ now = 0 /\ deadline = Budget
  BY DEF Init
<1> QED BY <1>1, <1>2, <1>3 DEF ClockInv

LEMMA ClockInvStep == TypeOK /\ ClockInv /\ [Next]_vars => ClockInv'
<1> SUFFICES ASSUME TypeOK, ClockInv, [Next]_vars PROVE ClockInv'
  OBVIOUS
<1>0. /\ D \in Nat /\ MaxFlow \in Nat /\ Backoff \in Nat \ {0} /\ flow \in Flow
      /\ flow \in Nat /\ now \in Nat /\ deadline \in Nat
      /\ Used(flow) \in Nat /\ Used(flow + 1) = Used(flow) + MaxFlow /\ Used(0) = 0
      /\ Used(flow + 1) <= Used(D + 1) /\ Used(D + 1) \in Nat /\ Used(flow + 1) \in Nat
  <2>1. /\ D \in Nat /\ MaxFlow \in Nat /\ Backoff \in Nat \ {0} /\ flow \in Flow
        /\ flow \in Nat /\ now \in Nat /\ deadline \in Nat
        /\ D + 1 \in Nat /\ flow + 1 \in Nat
    BY BudgetAssumption, DirectionsType DEF TypeOK, Flow
  <2> QED BY <2>1, UsedSteps
<1>1. CASE Allocate
  BY <1>1 DEF Allocate, ClockInv
<1>2. ASSUME pc' = "done", UNCHANGED <<flow, now, deadline>> PROVE ClockInv'
  BY <1>2 DEF ClockInv
<1>3. CASE AllocateRaises \/ GiveUp \/ RetryCallbackRaises \/ Return \/ RoundCallbackRaises
  BY <1>2, <1>3 DEF AllocateRaises, GiveUp, RetryCallbackRaises, Return,
                    RoundCallbackRaises, EndRound, Raise
<1>4. ASSUME Elapse, pc = "attempt"
      PROVE  now' <= deadline + ((Backoff - 1) + Used(flow + 1))
  BY <1>0, <1>4 DEF Elapse, ClockInv
<1>5. CASE Completes
  <2>1. /\ now' <= deadline + ((Backoff - 1) + Used(flow + 1)) /\ deadline' = deadline
        /\ now' \in Nat
        /\ (pc' = "draw" /\ flow' = flow + 1) \/ (pc' = "round" /\ flow' = flow)
    BY <1>0, <1>4, <1>5 DEF Completes, Elapse
  <2> QED BY <1>0, <2>1 DEF ClockInv
<1>6. CASE SetCompletes \/ AttemptRaises \/ NonCompletes
  <2>1. /\ now' <= deadline + ((Backoff - 1) + Used(flow + 1)) /\ now' \in Nat
        /\ pc' \in {"done", "except"} /\ UNCHANGED <<flow, deadline>>
    BY <1>0, <1>4, <1>6 DEF SetCompletes, AttemptRaises, NonCompletes, Raise, Elapse
  <2> QED BY <1>0, <2>1 DEF ClockInv
<1>7. CASE Redraw
  <2>1. /\ now' = now + Backoff /\ now < deadline /\ pc' = "draw"
        /\ UNCHANGED <<flow, deadline>>
    BY <1>0, <1>7 DEF Redraw, Late
  <2> QED BY <1>0, <2>1 DEF ClockInv
<1>8. CASE AnotherRound
  <2>1. /\ now < deadline /\ pc' = "draw" /\ flow' = 0 /\ UNCHANGED <<now, deadline>>
    BY <1>0, <1>8 DEF AnotherRound, EndRound, Late
  <2> QED BY <1>0, <2>1 DEF ClockInv
<1>9. CASE UNCHANGED vars
  BY <1>9 DEF vars, ClockInv
<1> QED BY <1>1, <1>3, <1>5, <1>6, <1>7, <1>8, <1>9 DEF Next, Step, Finished

\* Whatever the callbacks answer and however often an attempt is re-drawn, the
\* call passes its one deadline by less than a backoff and a round of attempts.
THEOREM BudgetBoundCorrect == Spec => []BudgetBound
<1>1. ClockInv => BudgetBound
  BY DEF ClockInv, BudgetBound, Used
<1>2. IndexInv => TypeOK
  BY DEF IndexInv
<1>3. Init => IndexInv /\ ClockInv
  BY IndexInvInit, ClockInvInit
<1>4. IndexInv /\ ClockInv /\ [Next]_vars => (IndexInv /\ ClockInv)'
  BY <1>2, IndexInvStep, ClockInvStep
<1> QED BY <1>1, <1>3, <1>4, PTL DEF Spec
-----------------------------------------------------------------------------
(* The ports.                                                              *)

\* Everything handed out so far lies below the allocator's next port.
PortsInv ==
    /\ FreshPorts
    /\ \A k \in 1..Current : Range(attempts[k].ports) \subseteq 1..(port - 1)

LEMMA PortsInvInit == Init => PortsInv
<1> SUFFICES ASSUME Init PROVE PortsInv
  OBVIOUS
<1>1. 1..Current = {}
  BY EmptySeq DEF Init, Current
<1> QED BY <1>1 DEF PortsInv, FreshPorts

LEMMA PortsInvStep == TypeOK /\ PortsInv /\ [Next]_vars => PortsInv'
<1> SUFFICES ASSUME TypeOK, PortsInv, [Next]_vars PROVE PortsInv'
  OBVIOUS
<1>1. CASE Allocate
  <2>1. /\ Width \in Nat /\ Current \in Nat /\ Current' = Current + 1
        /\ attempts'[Current + 1] = Drawn
        /\ \A k \in 1..Current : attempts'[k] = attempts[k]
    BY <1>1, AllocateType, DrawnType
  <2>2. port \in Nat \ {0} /\ port' = port + Width
    BY <1>1, PoolAssumption DEF Allocate, TypeOK
  <2>3. Range(Drawn.ports) = port..(port + Width - 1) /\ Len(Drawn.ports) = Width
    BY DrawnType
  <2>4. Cardinality(Range(Drawn.ports)) = Len(Drawn.ports)
    <3>1. CASE Width = 0
      <4>1. port..(port + Width - 1) = {}
        BY <2>2, <3>1
      <4> QED BY <2>3, <3>1, <4>1, FS_EmptySet
    <3>2. CASE Width > 0
      <4>1. port \in Int /\ port + Width - 1 \in Int /\ port <= port + Width - 1
        BY <2>1, <2>2, <3>2
      <4>2. Cardinality(port..(port + Width - 1)) = (port + Width - 1) - port + 1
        BY <4>1, FS_Interval
      <4> QED BY <2>1, <2>2, <2>3, <4>2
    <3> QED BY <2>1, <3>1, <3>2
  <2>5. ASSUME NEW k \in 1..Current
        PROVE  /\ Range(attempts'[k].ports) \subseteq 1..(port - 1)
               /\ Range(attempts'[k].ports) \subseteq 1..(port' - 1)
               /\ Range(attempts'[k].ports) \cap Range(Drawn.ports) = {}
               /\ Cardinality(Range(attempts'[k].ports)) = Len(attempts'[k].ports)
    <3>1. Range(attempts'[k].ports) \subseteq 1..(port - 1)
      BY <2>1 DEF PortsInv
    <3>2. Cardinality(Range(attempts'[k].ports)) = Len(attempts'[k].ports)
      BY <2>1 DEF PortsInv, FreshPorts
    <3>3. 1..(port - 1) \subseteq 1..(port' - 1)
      BY <2>1, <2>2
    <3>4. (1..(port - 1)) \cap (port..(port + Width - 1)) = {}
      BY <2>1, <2>2
    <3> QED BY <2>3, <3>1, <3>2, <3>3, <3>4
  <2>6. Range(Drawn.ports) \subseteq 1..(port' - 1)
    <3>1. port..(port + Width - 1) \subseteq 1..(port + Width - 1)
      BY <2>1, <2>2
    <3> QED BY <2>2, <2>3, <3>1
  <2>7. ASSUME NEW k \in 1..Current'
        PROVE  /\ Range(attempts'[k].ports) \subseteq 1..(port' - 1)
               /\ Cardinality(Range(attempts'[k].ports)) = Len(attempts'[k].ports)
    <3>1. k \in 1..Current \/ k = Current + 1
      BY <2>1
    <3> QED BY <2>1, <2>4, <2>5, <2>6, <3>1
  <2>8. ASSUME NEW j \in 1..Current', NEW k \in 1..Current', j # k
        PROVE  Range(attempts'[j].ports) \cap Range(attempts'[k].ports) = {}
    <3>1. CASE j \in 1..Current /\ k \in 1..Current
      BY <2>1, <2>8, <3>1 DEF PortsInv, FreshPorts
    <3>2. CASE j = Current + 1 /\ k \in 1..Current
      BY <2>1, <2>5, <3>2
    <3>3. CASE j \in 1..Current /\ k = Current + 1
      BY <2>1, <2>5, <3>3
    <3> QED BY <2>1, <2>8, <3>1, <3>2, <3>3
  <2> QED BY <2>7, <2>8 DEF PortsInv, FreshPorts
<1>2. CASE UNCHANGED <<attempts, port>>
  BY <1>2 DEF PortsInv, FreshPorts, Current
<1>3. Allocate \/ UNCHANGED <<attempts, port>>
  BY DEF Next, Step, Finished, vars, AllocateRaises, Completes, SetCompletes,
         NonCompletes, AttemptRaises, GiveUp, Redraw, RetryCallbackRaises, Return,
         AnotherRound, RoundCallbackRaises, EndRound, Raise
<1> QED BY <1>1, <1>2, <1>3

\* No port serves two attempts of a call or two flows of a set, however many
\* times an attempt is drawn again.
THEOREM FreshPortsCorrect == Spec => []FreshPorts
<1>1. PortsInv => FreshPorts
  BY DEF PortsInv
<1>2. IndexInv => TypeOK
  BY DEF IndexInv
<1>3. Init => IndexInv /\ PortsInv
  BY IndexInvInit, PortsInvInit
<1>4. IndexInv /\ PortsInv /\ [Next]_vars => (IndexInv /\ PortsInv)'
  BY <1>2, IndexInvStep, PortsInvStep
<1> QED BY <1>1, <1>3, <1>4, PTL DEF Spec
-----------------------------------------------------------------------------
(* What on_retry has been told.                                            *)

Reported == Range(abandoned)

\* The current attempt is reported only between its re-draw and the next draw,
\* and then the draw is for the same flow of the same round.
AbsorbInv ==
    /\ \A k \in 1..(Current - 1) : SameFlow(k, k + 1) <=> k \in Reported
    /\ \A k \in 1..Len(abandoned) : abandoned[k] \in 1..Current
    /\ \A j, k \in 1..Len(abandoned) : j < k => abandoned[j] < abandoned[k]
    /\ Running => Current \notin Reported
    /\ pc = "draw" /\ Current > 0 =>
          (attempts[Current].round = Round /\ attempts[Current].flow = flow
              <=> Current \in Reported)
    /\ outcome \in {"returned", "noncompletion"} => Current \notin Reported
    /\ pc # "done" => outcome = "pending"

LEMMA AbsorbInvInit == Init => AbsorbInv
<1> SUFFICES ASSUME Init PROVE AbsorbInv
  OBVIOUS
<1>1. Current = 0 /\ Len(abandoned) = 0
  BY EmptySeq DEF Init, Current
<1>2. pc = "draw" /\ outcome = "pending"
  BY DEF Init
<1> QED BY <1>1, <1>2 DEF AbsorbInv, Running

\* Reporting the current attempt adds it to the reported ones, at the end.
LEMMA AbandonCurrent ==
    ASSUME IndexInv, AbsorbInv, Running, abandoned' = Append(abandoned, Current)
    PROVE  /\ Reported' = Reported \cup {Current}
           /\ \A k \in 1..Len(abandoned') : abandoned'[k] \in 1..Current
           /\ \A j, k \in 1..Len(abandoned') : j < k => abandoned'[j] < abandoned'[k]
<1>1. /\ Current \in Nat \ {0} /\ abandoned \in Seq(Nat) /\ Len(abandoned) \in Nat
      /\ Current \notin Reported
  BY DrawnType, LenProperties DEF IndexInv, TypeOK, AbsorbInv
<1> DEFINE m == Len(abandoned)
<1>2. /\ abandoned' \in Seq(Nat) /\ Len(abandoned') = m + 1
      /\ \A k \in 1..m : abandoned'[k] = abandoned[k]
      /\ abandoned'[m + 1] = Current
  BY <1>1, AppendProperties
<1>3. /\ Reported = {abandoned[k] : k \in 1..m}
      /\ Reported' = {abandoned'[k] : k \in 1..(m + 1)}
  <2>1. Reported = {abandoned[k] : k \in 1..m}
    BY <1>1, RangeEquality DEF Reported
  <2>2. Range(abandoned') = {abandoned'[k] : k \in 1..(m + 1)}
    <3>1. \A s \in Seq(Nat) : Range(s) = {s[k] : k \in 1..Len(s)}
      BY RangeEquality
    <3>2. PICK s : s = abandoned'
      OBVIOUS
    <3>3. s \in Seq(Nat) /\ Len(s) = m + 1
      BY <1>2, <3>2
    <3>4. Range(s) = {s[k] : k \in 1..(m + 1)}
      BY <3>1, <3>3
    <3> QED BY <3>2, <3>4
  <2> QED BY <2>1, <2>2 DEF Reported
<1>4. ASSUME NEW k \in 1..m PROVE abandoned[k] \in 1..Current /\ abandoned[k] < Current
  <2>1. abandoned[k] \in 1..Current
    BY DEF AbsorbInv
  <2>2. abandoned[k] # Current
    BY <1>1, <1>3
  <2> QED BY <1>1, <2>1, <2>2
<1>5. \A k \in 1..(m + 1) : k \in 1..m \/ k = m + 1
  BY <1>1
<1>6. 1..m \subseteq 1..(m + 1) /\ m + 1 \in 1..(m + 1)
  BY <1>1
<1>7. Reported' = Reported \cup {Current}
  <2>1. ASSUME NEW x \in Reported' PROVE x \in Reported \cup {Current}
    <3>1. PICK k \in 1..(m + 1) : x = abandoned'[k]
      BY <1>3
    <3> QED BY <1>2, <1>3, <1>5, <3>1
  <2>2. ASSUME NEW x \in Reported PROVE x \in Reported'
    <3>1. PICK k \in 1..m : x = abandoned[k]
      BY <1>3
    <3> QED BY <1>2, <1>3, <1>6, <3>1
  <2>3. Current \in Reported'
    BY <1>2, <1>3, <1>6
  <2> QED BY <2>1, <2>2, <2>3
<1>8. ASSUME NEW k \in 1..(m + 1) PROVE abandoned'[k] \in 1..Current
  BY <1>1, <1>2, <1>4, <1>5
<1>9. ASSUME NEW j \in 1..(m + 1), NEW k \in 1..(m + 1), j < k
      PROVE  abandoned'[j] < abandoned'[k]
  <2>1. j \in 1..m
    BY <1>1, <1>9
  <2>2. CASE k \in 1..m
    BY <1>2, <1>9, <2>1, <2>2 DEF AbsorbInv
  <2>3. CASE k = m + 1
    BY <1>2, <1>4, <2>1, <2>3
  <2> QED BY <1>5, <2>2, <2>3
<1> QED BY <1>2, <1>7, <1>8, <1>9

LEMMA AbsorbInvStep == IndexInv /\ AbsorbInv /\ [Next]_vars => AbsorbInv'
<1> SUFFICES ASSUME IndexInv, AbsorbInv, [Next]_vars PROVE AbsorbInv'
  OBVIOUS
<1>0. /\ TypeOK /\ Current \in Nat /\ Round \in Nat /\ abandoned \in Seq(Nat)
      /\ Len(abandoned) \in Nat /\ flow \in Nat
  <2>1. TypeOK
    BY DEF IndexInv
  <2> QED BY <2>1, DrawnType, LenProperties, DirectionsType DEF TypeOK, Flow
<1>00. \A x \in Reported : x \in 1..Current
  <2>1. Reported = {abandoned[k] : k \in 1..Len(abandoned)}
    BY <1>0, RangeEquality DEF Reported
  <2> QED BY <2>1 DEF AbsorbInv
<1>1. CASE Allocate
  <2>1. /\ Current' = Current + 1 /\ attempts'[Current + 1] = Drawn
        /\ \A k \in 1..Current : attempts'[k] = attempts[k]
    BY <1>0, <1>1, AllocateType
  <2>2. /\ pc = "draw" /\ pc' = "attempt"
        /\ UNCHANGED <<flow, findings, abandoned, outcome>>
    BY <1>1 DEF Allocate
  <2>3. Reported' = Reported /\ Current + 1 \notin Reported /\ Running'
    BY <1>0, <1>00, <2>2 DEF Reported, Running
  <2>4. ASSUME NEW k \in 1..Current PROVE SameFlow(k, k + 1)' <=> k \in Reported
    <3>1. CASE k = Current
      BY <1>0, <2>1, <2>2, <3>1 DEF SameFlow, AbsorbInv, Drawn
    <3>2. CASE k \in 1..(Current - 1)
      <4>1. k + 1 \in 1..Current
        BY <1>0, <3>2
      <4> QED BY <2>1, <3>2, <4>1 DEF SameFlow, AbsorbInv
    <3> QED BY <1>0, <3>1, <3>2
  <2>5. ASSUME NEW k \in 1..Len(abandoned) PROVE abandoned[k] \in 1..(Current + 1)
    BY <1>0 DEF AbsorbInv
  <2>6. Current' - 1 = Current
    BY <1>0, <2>1
  <2> QED BY <2>1, <2>2, <2>3, <2>4, <2>5, <2>6 DEF AbsorbInv
<1>2. ASSUME UNCHANGED attempts
      PROVE  Current' = Current /\ \A j, k : SameFlow(j, k)' <=> SameFlow(j, k)
  BY <1>2 DEF Current, SameFlow
<1>3. ASSUME UNCHANGED <<attempts, abandoned>>, pc' # "draw", Running' => Running,
             outcome' \in {"returned", "noncompletion"} => Running,
             pc' # "done" => outcome' = "pending"
      PROVE  AbsorbInv'
  <2>1. UNCHANGED <<attempts, abandoned>> /\ Reported' = Reported
    BY <1>3 DEF Reported
  <2> QED BY <1>2, <1>3, <2>1 DEF AbsorbInv
<1>4. CASE SetCompletes \/ NonCompletes \/ GiveUp \/ Return \/ RoundCallbackRaises
  <2>1. UNCHANGED <<attempts, abandoned>> /\ pc' # "draw" /\ Running
    BY <1>4 DEF SetCompletes, NonCompletes, GiveUp, Return, RoundCallbackRaises,
                EndRound, Raise, Running
  <2>2. pc' # "done" => outcome' = "pending"
    BY <1>4 DEF SetCompletes, NonCompletes, GiveUp, Return, RoundCallbackRaises,
                Raise, AbsorbInv
  <2> QED BY <1>3, <2>1, <2>2
<1>5. CASE AllocateRaises \/ AttemptRaises
  <2>1. UNCHANGED <<attempts, abandoned>> /\ pc' = "done" /\ outcome' = "error"
    BY <1>5 DEF AllocateRaises, AttemptRaises, Raise
  <2> QED BY <1>3, <2>1 DEF Running
<1>6. CASE Completes
  <2>1. /\ UNCHANGED <<attempts, abandoned, findings, outcome>> /\ pc = "attempt"
        /\ (pc' = "draw" /\ flow' = flow + 1) \/ pc' = "round"
    BY <1>6 DEF Completes
  <2>2. Running /\ attempts[Current].flow = flow /\ Current > 0
        /\ Current \notin Reported /\ outcome = "pending"
    BY <2>1 DEF Running, IndexInv, AbsorbInv
  <2>3. CASE pc' = "round"
    BY <1>3, <2>1, <2>2, <2>3
  <2>4. CASE pc' = "draw" /\ flow' = flow + 1
    <3>1. Reported' = Reported /\ Current' = Current /\ ~Running'
          /\ attempts'[Current'].flow # flow'
      BY <1>0, <1>2, <2>1, <2>2, <2>4 DEF Reported, Running
    <3> QED BY <1>2, <2>1, <2>2, <3>1 DEF AbsorbInv
  <2> QED BY <2>1, <2>3, <2>4
<1>7. CASE AnotherRound
  <2>1. /\ UNCHANGED <<attempts, abandoned, outcome>> /\ pc = "round" /\ pc' = "draw"
        /\ findings' = Append(findings, facts)
    BY <1>7 DEF AnotherRound, EndRound
  <2>2. Running /\ attempts[Current].round = Round /\ Current > 0
        /\ Current \notin Reported /\ outcome = "pending"
    BY <2>1 DEF Running, IndexInv, AbsorbInv
  <2>3. Round' = Round + 1
    BY <1>0, <2>1 DEF Round, TypeOK
  <2>4. Reported' = Reported /\ Current' = Current /\ ~Running'
        /\ attempts'[Current'].round # Round'
    BY <1>0, <1>2, <2>1, <2>2, <2>3 DEF Reported, Running
  <2> QED BY <1>2, <2>1, <2>2, <2>4 DEF AbsorbInv
<1>8. ASSUME Running, abandoned' = Append(abandoned, Current), UNCHANGED attempts
      PROVE  /\ Reported' = Reported \cup {Current} /\ Current' = Current
             /\ \A k \in 1..(Current' - 1) : SameFlow(k, k + 1)' <=> k \in Reported'
             /\ \A k \in 1..Len(abandoned') : abandoned'[k] \in 1..Current'
             /\ \A j, k \in 1..Len(abandoned') : j < k => abandoned'[j] < abandoned'[k]
  <2>1. /\ Reported' = Reported \cup {Current}
        /\ \A k \in 1..Len(abandoned') : abandoned'[k] \in 1..Current
        /\ \A j, k \in 1..Len(abandoned') : j < k => abandoned'[j] < abandoned'[k]
    BY <1>8, AbandonCurrent
  <2>2. ASSUME NEW k \in 1..(Current - 1) PROVE SameFlow(k, k + 1)' <=> k \in Reported'
    <3>1. k # Current
      BY <1>0
    <3> QED BY <1>2, <1>8, <2>1, <3>1 DEF AbsorbInv
  <2> QED BY <1>2, <1>8, <2>1, <2>2
<1>9. CASE Redraw
  <2>1. /\ Running /\ abandoned' = Append(abandoned, Current) /\ pc' = "draw"
        /\ UNCHANGED <<attempts, flow, findings, outcome>> /\ outcome = "pending"
    BY <1>9 DEF Redraw, Running, AbsorbInv
  <2>2. Current > 0 /\ attempts[Current].round = Round /\ attempts[Current].flow = flow
    BY <2>1 DEF IndexInv
  <2>3. Round' = Round /\ ~Running'
    BY <2>1 DEF Round, Running
  <2> QED BY <1>8, <2>1, <2>2, <2>3 DEF AbsorbInv
<1>10. CASE RetryCallbackRaises
  <2>1. /\ Running /\ pc' = "done" /\ outcome' = "error" /\ UNCHANGED attempts
        /\ UNCHANGED abandoned \/ abandoned' = Append(abandoned, Current)
    BY <1>10 DEF RetryCallbackRaises, Raise, Running
  <2>2. CASE UNCHANGED abandoned
    BY <1>3, <2>1, <2>2
  <2>3. CASE abandoned' = Append(abandoned, Current)
    BY <1>8, <2>1, <2>3 DEF AbsorbInv, Running
  <2> QED BY <2>1, <2>2, <2>3
<1>11. CASE UNCHANGED vars
  BY <1>11 DEF vars, AbsorbInv, Running, Reported, Current, Round, SameFlow
<1> QED
  BY <1>1, <1>4, <1>5, <1>6, <1>7, <1>9, <1>10, <1>11 DEF Next, Step, Finished

\* Every re-drawn attempt reached on_retry, once and in order, and no other did.
THEOREM AbsorbedIsReportedCorrect == Spec => []AbsorbedIsReported
<1>1. AbsorbInv => AbsorbedIsReported
  BY DEF AbsorbInv, AbsorbedIsReported, Reported
<1>2. Init => IndexInv /\ AbsorbInv
  BY IndexInvInit, AbsorbInvInit
<1>3. IndexInv /\ AbsorbInv /\ [Next]_vars => (IndexInv /\ AbsorbInv)'
  BY IndexInvStep, AbsorbInvStep
<1> QED BY <1>1, <1>2, <1>3, PTL DEF Spec
-----------------------------------------------------------------------------
(* What a round holds.                                                     *)

\* An attempt that has completed: it will never be reported.
Settled(k) ==
    /\ k \in 1..Current /\ k \notin Reported
    /\ pc \in {"attempt", "except"} => k < Current

\* Direction d of round r was measured by the settled attempt k.
MeasuredBy(k, r, d) ==
    Settled(k) /\ attempts[k].round = r /\ attempts[k].flow = d

\* f holds round r's probe and its first m directions.
HoldsFirst(f, r, m) ==
    /\ MeasuredBy(f.probe, r, 0)
    /\ \A n \in DOMAIN f.by :
          \E d \in 1..m :
              /\ MeasuredBy(f.by[n], r, d) /\ f.by[n] > f.probe
              /\ Directions[d] = n /\ \A k \in (d + 1)..m : Directions[k] # n

FactsInv ==
    /\ \A r \in 1..Len(findings) : HoldsFirst(findings[r], r, D)
    /\ mode = "path" /\ flow > 0 /\ pc \in {"draw", "attempt", "except"} =>
          HoldsFirst(facts, Round, flow - 1)
    /\ pc = "round" => HoldsFirst(facts, Round, D)
    /\ mode = "set" /\ outcome = "returned" => facts.probe = Current

LEMMA FactsInvInit == Init => FactsInv
<1> SUFFICES ASSUME Init PROVE FactsInv
  OBVIOUS
<1>1. Len(findings) = 0 /\ flow = 0 /\ pc = "draw" /\ outcome = "pending"
  BY EmptySeq DEF Init
<1> QED BY <1>1 DEF FactsInv

\* A settled attempt stays settled, and what it measured does not change.
LEMMA SettledStays ==
    ASSUME IndexInv, AbsorbInv, [Next]_vars, NEW k \in Nat, Settled(k)
    PROVE  Settled(k)' /\ attempts'[k] = attempts[k]
<1>0. TypeOK /\ Current \in Nat /\ k \in 1..Current /\ k \notin Reported
  BY DrawnType DEF IndexInv, Settled
<1>1. CASE Allocate
  <2>1. Current' = Current + 1 /\ attempts'[k] = attempts[k] /\ UNCHANGED abandoned
    BY <1>0, <1>1, AllocateType DEF Allocate
  <2> QED BY <1>0, <2>1 DEF Settled, Reported
<1>2. ASSUME UNCHANGED <<attempts, abandoned>>,
             pc' \in {"attempt", "except"} => pc \in {"attempt", "except"}
      PROVE  Settled(k)' /\ attempts'[k] = attempts[k]
  BY <1>2 DEF Settled, Reported, Current
<1>3. CASE \/ AllocateRaises \/ Completes \/ SetCompletes \/ NonCompletes
           \/ AttemptRaises \/ GiveUp \/ Return \/ AnotherRound
           \/ RoundCallbackRaises \/ UNCHANGED vars
  BY <1>2, <1>3 DEF AllocateRaises, Completes, SetCompletes, NonCompletes, vars,
                    AttemptRaises, GiveUp, Return, AnotherRound,
                    RoundCallbackRaises, EndRound, Raise
<1>4. CASE Redraw \/ RetryCallbackRaises
  <2>1. /\ pc = "except" /\ pc' \notin {"attempt", "except"} /\ UNCHANGED attempts
        /\ UNCHANGED abandoned \/ abandoned' = Append(abandoned, Current)
    BY <1>4 DEF Redraw, RetryCallbackRaises, Raise
  <2>2. Running /\ k # Current
    BY <1>0, <2>1 DEF Settled, Running
  <2>3. Reported' \subseteq Reported \cup {Current}
    BY <2>1, <2>2, AbandonCurrent DEF Reported
  <2>4. Current' = Current
    BY <2>1 DEF Current
  <2> QED BY <1>0, <2>1, <2>2, <2>3, <2>4 DEF Settled
<1> QED BY <1>1, <1>3, <1>4 DEF Next, Step, Finished

LEMMA HoldsStays ==
    ASSUME IndexInv, AbsorbInv, [Next]_vars, NEW f, NEW r, NEW m, f.probe \in Nat,
           \A n \in DOMAIN f.by : f.by[n] \in Nat, HoldsFirst(f, r, m)
    PROVE  HoldsFirst(f, r, m)'
<1>1. ASSUME NEW k \in Nat, NEW d, MeasuredBy(k, r, d)
      PROVE  MeasuredBy(k, r, d)'
  <2>1. Settled(k)' /\ attempts'[k] = attempts[k]
    BY <1>1, SettledStays DEF MeasuredBy
  <2> QED BY <1>1, <2>1 DEF MeasuredBy
<1>2. MeasuredBy(f.probe, r, 0)'
  BY <1>1 DEF HoldsFirst
<1>3. ASSUME NEW n \in DOMAIN f.by
      PROVE  \E d \in 1..m :
                 /\ MeasuredBy(f.by[n], r, d)' /\ f.by[n] > f.probe
                 /\ Directions[d] = n /\ \A k \in (d + 1)..m : Directions[k] # n
  BY <1>1 DEF HoldsFirst
<1> QED BY <1>2, <1>3 DEF HoldsFirst

\* A completed attempt adds its flow to what the round holds.
LEMMA HoldsOneMore ==
    ASSUME IndexInv, AbsorbInv, FactsInv, Completes,
           NEW new, NEW r, NEW d, new = Record, r = Round, d = flow
    PROVE  HoldsFirst(new, r, d)'
<1>0. /\ pc = "attempt" /\ mode = "path"
      /\ UNCHANGED <<attempts, abandoned, findings>> /\ pc' \in {"draw", "round"}
  BY DEF Completes
<1>1. /\ Current \in Nat /\ Current > 0 /\ attempts[Current].round = r
      /\ attempts[Current].flow = d /\ Current \notin Reported
  BY <1>0, DrawnType DEF IndexInv, AbsorbInv, Running
<1>2. /\ facts.by \in [DOMAIN facts.by -> Nat] /\ facts.probe \in Nat /\ d \in 0..D
      /\ DOMAIN facts.by = {Directions[k] : k \in 1..(d - 1)} /\ facts \in PartialFacts
  BY <1>0 DEF IndexInv, PartialFacts, Measured, TypeOK, Flow
<1>3. ASSUME NEW k, NEW e, MeasuredBy(k, r, e) PROVE MeasuredBy(k, r, e)'
  BY <1>0, <1>3 DEF MeasuredBy, Settled, Reported, Current
<1>4. ASSUME NEW k, k = Current PROVE MeasuredBy(k, r, d)'
  BY <1>0, <1>1, <1>4 DEF MeasuredBy, Settled, Reported, Current
<1>5. CASE d = 0
  <2>1. new = [facts EXCEPT !.probe = Current]
    BY <1>5 DEF Record
  <2>2. new.probe = Current /\ new.by = facts.by
    BY <1>2, <2>1 DEF PartialFacts
  <2>3. DOMAIN new.by = {}
    BY <1>2, <1>5, <2>2
  <2>4. MeasuredBy(new.probe, r, d)'
    BY <1>4, <2>2
  <2> QED BY <1>5, <2>3, <2>4 DEF HoldsFirst
<1>6. CASE d # 0
  <2>0. PICK S, by :
          /\ S = DOMAIN facts.by \cup {Directions[d]}
          /\ by = [n \in S |-> IF n = Directions[d] THEN Current ELSE facts.by[n]]
    OBVIOUS
  <2>1. new = [facts EXCEPT !.by = by]
    BY <1>6, <2>0 DEF Record
  <2>2. new.probe = facts.probe /\ new.by = by
    BY <1>2, <2>1 DEF PartialFacts
  <2>3. HoldsFirst(facts, r, d - 1)
    BY <1>0, <1>2, <1>6 DEF FactsInv
  <2>4. /\ MeasuredBy(facts.probe, r, 0) /\ facts.probe < Current
    BY <1>0, <2>3 DEF HoldsFirst, MeasuredBy, Settled
  <2>5. MeasuredBy(new.probe, r, 0)'
    <3>1. PICK k : k = facts.probe
      OBVIOUS
    <3>2. MeasuredBy(k, r, 0)' /\ new.probe = k
      BY <1>3, <2>2, <2>4, <3>1
    <3> QED BY <3>2
  <2>6. ASSUME NEW n \in S
        PROVE  \E e \in 1..d :
                 /\ MeasuredBy(by[n], r, e)' /\ by[n] > new.probe
                 /\ Directions[e] = n /\ \A k \in (e + 1)..d : Directions[k] # n
    <3>1. CASE n = Directions[d]
      <4>1. by[n] = Current /\ d \in 1..d /\ (d + 1)..d = {}
        BY <1>2, <1>6, <2>0, <3>1
      <4>2. MeasuredBy(by[n], r, d)'
        BY <1>4, <4>1
      <4>3. by[n] > new.probe
        BY <1>1, <1>2, <2>2, <2>4, <4>1
      <4> QED BY <3>1, <4>1, <4>2, <4>3
    <3>2. CASE n # Directions[d]
      <4>1. n \in DOMAIN facts.by /\ by[n] = facts.by[n]
        BY <2>0, <3>2
      <4>2. PICK e \in 1..(d - 1) :
              /\ MeasuredBy(facts.by[n], r, e) /\ facts.by[n] > facts.probe
              /\ Directions[e] = n /\ \A k \in (e + 1)..(d - 1) : Directions[k] # n
        BY <2>3, <4>1 DEF HoldsFirst
      <4>3. MeasuredBy(by[n], r, e)'
        <5>1. MeasuredBy(by[n], r, e)
          BY <4>1, <4>2
        <5> QED BY <1>3, <5>1
      <4>4. e \in 1..d /\ \A k \in (e + 1)..d : k \in (e + 1)..(d - 1) \/ k = d
        BY <1>2
      <4>5. by[n] > new.probe
        BY <2>2, <4>1, <4>2
      <4> QED BY <3>2, <4>2, <4>3, <4>4, <4>5
    <3> QED BY <3>1, <3>2
  <2>7. DOMAIN new.by = S
    BY <2>0, <2>2
  <2> QED BY <2>2, <2>5, <2>6, <2>7 DEF HoldsFirst
<1> QED BY <1>5, <1>6

\* The parts of the invariant, from what holds of the values the step leaves.
LEMMA FactsInvNext ==
    ASSUME NEW f, NEW r, NEW m, f = facts', r = Round', m = flow' - 1, D \in Nat,
           mode' = "path" /\ flow' > 0 /\ pc' \in {"draw", "attempt", "except"} =>
               HoldsFirst(f, r, m)',
           pc' = "round" => HoldsFirst(f, r, D)',
           mode' = "set" /\ outcome' = "returned" => facts'.probe = Current',
           \A k \in 1..Len(findings') : HoldsFirst(findings[k], k, D)'
    PROVE  FactsInv'
<1>1. HoldsFirst(f, r, m)' => HoldsFirst(facts, Round, flow - 1)'
  BY DEF HoldsFirst
<1>2. HoldsFirst(f, r, D)' => HoldsFirst(facts, Round, D)'
  BY DEF HoldsFirst
<1> QED BY <1>1, <1>2 DEF FactsInv

LEMMA FactsInvStep ==
    IndexInv /\ AbsorbInv /\ FactsInv /\ [Next]_vars => FactsInv'
<1> SUFFICES ASSUME IndexInv, AbsorbInv, FactsInv, [Next]_vars PROVE FactsInv'
  OBVIOUS
<1>0. /\ TypeOK /\ findings \in Seq(Facts) /\ Len(findings) \in Nat /\ D \in Nat
      /\ Current \in Nat /\ flow \in 0..D /\ facts \in PartialFacts
  BY DrawnType, DirectionsType, LenProperties DEF IndexInv, TypeOK, Flow
<1>1. ASSUME NEW f, NEW r, NEW m, HoldsFirst(f, r, m), f \in PartialFacts
      PROVE  HoldsFirst(f, r, m)'
  <2>1. f.probe \in Nat /\ \A n \in DOMAIN f.by : f.by[n] \in Nat
    BY <1>1 DEF PartialFacts
  <2> QED BY <1>1, <2>1, HoldsStays
<1>2. ASSUME NEW k \in 1..Len(findings), NEW f, f = findings[k]
      PROVE  HoldsFirst(f, k, D)'
  <2>1. f \in Facts
    BY <1>0, <1>2
  <2>2. f \in PartialFacts
    BY <2>1 DEF Facts, PartialFacts
  <2> QED BY <1>1, <1>2, <2>2 DEF FactsInv
<1>3. ASSUME UNCHANGED findings
      PROVE  \A k \in 1..Len(findings)' : HoldsFirst(findings[k], k, D)'
  <2> SUFFICES ASSUME NEW k \in 1..Len(findings) PROVE HoldsFirst(findings[k], k, D)'
    BY <1>3
  <2>1. PICK f : f = findings[k]
    OBVIOUS
  <2>2. HoldsFirst(f, k, D)'
    BY <1>2, <2>1
  <2> QED BY <1>3, <2>1, <2>2 DEF HoldsFirst
<1>4. PICK f, r, m, f2, r2, m2 :
        /\ f = facts /\ r = Round /\ m = flow - 1
        /\ f2 = facts' /\ r2 = Round' /\ m2 = flow' - 1
  OBVIOUS
<1>5. CASE UNCHANGED <<findings, facts, flow, mode>> /\ pc \notin {"round", "done"}
              /\ pc' \in {"draw", "attempt", "except"} /\ outcome' = "pending"
  <2>1. f2 = f /\ r2 = r /\ m2 = m
    BY <1>4, <1>5 DEF Round
  <2>2. HoldsFirst(f, r, m) => HoldsFirst(f, r, m)'
    BY <1>0, <1>1, <1>4
  <2>3. ASSUME mode = "path", flow > 0 PROVE HoldsFirst(f, r, m)
    BY <1>4, <1>5, <2>3 DEF FactsInv, HoldsFirst, IndexInv, TypeOK
  <2> QED BY <1>0, <1>3, <1>4, <1>5, <2>1, <2>2, <2>3, FactsInvNext
<1>6. CASE Allocate \/ NonCompletes \/ Redraw
  <2>1. outcome = "pending" /\ pc \notin {"round", "done"}
    BY <1>6 DEF Allocate, NonCompletes, Redraw, AbsorbInv
  <2> QED BY <1>5, <1>6, <2>1 DEF Allocate, NonCompletes, Redraw
<1>7. ASSUME UNCHANGED findings, pc' = "done", outcome' \in {"error", "noncompletion"}
      PROVE  FactsInv'
  BY <1>0, <1>3, <1>4, <1>7, FactsInvNext
<1>8. CASE AllocateRaises \/ AttemptRaises \/ GiveUp \/ RetryCallbackRaises
  BY <1>7, <1>8 DEF AllocateRaises, AttemptRaises, GiveUp, RetryCallbackRaises, Raise
<1>9. CASE Completes
  <2>1. /\ facts' = Record /\ UNCHANGED <<findings, mode>> /\ mode = "path"
        /\ (pc' = "draw" /\ flow' = flow + 1) \/ (pc' = "round" /\ flow' = flow /\ flow = D)
    BY <1>0, <1>9 DEF Completes
  <2>2. PICK d : d = flow
    OBVIOUS
  <2>3. r2 = Round
    BY <1>4, <2>1 DEF Round
  <2>4. HoldsFirst(f2, r2, d)'
    BY <1>4, <1>9, <2>1, <2>2, <2>3, HoldsOneMore
  <2>5. pc' = "draw" => m2 = d
    BY <1>0, <1>4, <2>1, <2>2
  <2>6. pc' = "round" => HoldsFirst(f2, r2, D)'
    <3>1. PICK n : n = D
      OBVIOUS
    <3>2. pc' = "round" => HoldsFirst(f2, r2, n)'
      BY <2>1, <2>2, <2>4, <3>1
    <3> QED BY <3>1, <3>2 DEF D
  <2> QED BY <1>0, <1>3, <1>4, <2>1, <2>4, <2>5, <2>6, FactsInvNext
<1>10. CASE SetCompletes
  <2>1. /\ facts' = Record /\ UNCHANGED <<findings, attempts>> /\ pc' = "done"
        /\ mode = "set"
    BY <1>10 DEF SetCompletes
  <2>2. facts'.probe = Current /\ Current' = Current
    BY <1>0, <2>1 DEF Record, IndexInv, PartialFacts, Current
  <2> QED BY <1>0, <1>3, <1>4, <2>1, <2>2, FactsInvNext
<1>11. ASSUME EndRound
       PROVE  \A k \in 1..Len(findings') : HoldsFirst(findings[k], k, D)'
  <2>1. pc = "round" /\ findings' = Append(findings, facts) /\ facts \in Facts
    <3>1. DOMAIN facts.by = Range(Directions)
      BY <1>11, DirectionsType DEF EndRound, IndexInv, Measured
    <3> QED BY <1>0, <1>11, <3>1 DEF EndRound, PartialFacts, Facts
  <2>2. /\ Len(findings') = Len(findings) + 1 /\ findings'[Len(findings) + 1] = facts
        /\ \A k \in 1..Len(findings) : findings'[k] = findings[k]
    BY <1>0, <2>1, AppendProperties
  <2>3. HoldsFirst(f, r, D)'
    <3>1. HoldsFirst(f, r, D)
      BY <1>4, <2>1 DEF FactsInv
    <3> QED BY <1>0, <1>1, <1>4, <3>1
  <2> SUFFICES ASSUME NEW k \in 1..Len(findings') PROVE HoldsFirst(findings[k], k, D)'
    OBVIOUS
  <2>4. CASE k \in 1..Len(findings)
    <3>1. PICK g : g = findings[k]
      OBVIOUS
    <3>2. HoldsFirst(g, k, D)'
      BY <1>2, <2>4, <3>1
    <3> QED BY <2>2, <2>4, <3>1, <3>2 DEF HoldsFirst
  <2>5. CASE k = Len(findings) + 1
    <3>1. findings'[k] = f /\ k = r
      BY <1>4, <2>2, <2>5 DEF Round
    <3> QED BY <2>3, <3>1 DEF HoldsFirst
  <2> QED BY <1>0, <2>2, <2>4, <2>5
<1>12. CASE Return \/ AnotherRound \/ RoundCallbackRaises
  <2>1. /\ EndRound /\ mode' = "path" /\ pc' \in {"draw", "done"}
        /\ pc' = "draw" => flow' = 0
    BY <1>12 DEF Return, AnotherRound, RoundCallbackRaises, EndRound, IndexInv
  <2> QED BY <1>0, <1>4, <1>11, <2>1, FactsInvNext
<1>13. CASE UNCHANGED vars
  <2>1. f2 = f /\ r2 = r /\ m2 = m /\ UNCHANGED <<mode, pc, flow, facts, findings, outcome>>
        /\ Current' = Current
    BY <1>4, <1>13 DEF Round, Current, vars
  <2>2. HoldsFirst(f, r, m) => HoldsFirst(f, r, m)'
    BY <1>0, <1>1, <1>4
  <2>3. HoldsFirst(f, r, D) => HoldsFirst(f, r, D)'
    BY <1>0, <1>1, <1>4
  <2>4. mode = "path" /\ flow > 0 /\ pc \in {"draw", "attempt", "except"} =>
            HoldsFirst(f, r, m)
    BY <1>4 DEF FactsInv, HoldsFirst
  <2>5. pc = "round" => HoldsFirst(f, r, D)
    BY <1>4 DEF FactsInv
  <2>6. mode = "set" /\ outcome = "returned" => facts.probe = Current
    BY DEF FactsInv
  <2> QED
    BY <1>0, <1>3, <1>4, <2>1, <2>2, <2>3, <2>4, <2>5, <2>6, FactsInvNext
<1> QED
  BY <1>6, <1>8, <1>9, <1>10, <1>12, <1>13 DEF Next, Step, Finished

\* A finding is one whole round, each name its last direction's, measured in
\* that round by attempts that completed; a returned set is the last attempt.
THEOREM RoundsAreWholeCorrect == Spec => []RoundsAreWhole
<1>1. IndexInv /\ FactsInv => RoundsAreWhole
  <2> SUFFICES ASSUME IndexInv, FactsInv PROVE RoundsAreWhole
    OBVIOUS
  <2>1. ASSUME NEW k \in 1..Len(findings)
        PROVE  HoldsFirst(findings[k], k, D) /\ findings[k] \in Facts
    BY DEF FactsInv, IndexInv, TypeOK
  <2>2. ASSUME NEW k \in 1..Len(findings), NEW n \in DOMAIN findings[k].by
        PROVE  /\ findings[k].by[n] > findings[k].probe
               /\ attempts[findings[k].by[n]].round = k
               /\ Directions[attempts[findings[k].by[n]].flow] = n
               /\ \A d \in (attempts[findings[k].by[n]].flow + 1)..D : Directions[d] # n
               /\ findings[k].by[n] \notin Range(abandoned)
    BY <2>1 DEF HoldsFirst, MeasuredBy, Settled, Reported
  <2>3. ASSUME NEW k \in 1..Len(findings)
        PROVE  /\ attempts[findings[k].probe].round = k
               /\ attempts[findings[k].probe].flow = 0
               /\ findings[k].probe \notin Range(abandoned)
               /\ DOMAIN findings[k].by = Range(Directions)
    BY <2>1 DEF HoldsFirst, MeasuredBy, Settled, Reported, Facts
  <2>4. mode = "set" /\ outcome = "returned" => facts.probe = Current
    BY DEF FactsInv
  <2> QED BY <2>2, <2>3, <2>4 DEF RoundsAreWhole
<1>2. Init => IndexInv /\ AbsorbInv /\ FactsInv
  BY IndexInvInit, AbsorbInvInit, FactsInvInit
<1>3. IndexInv /\ AbsorbInv /\ FactsInv /\ [Next]_vars
        => (IndexInv /\ AbsorbInv /\ FactsInv)'
  BY IndexInvStep, AbsorbInvStep, FactsInvStep
<1> QED BY <1>1, <1>2, <1>3, PTL DEF Spec
=============================================================================
