-------------------------- MODULE ThroughputProofs --------------------------
(***************************************************************************)
(* What one measurement call guarantees for every number of flows, every   *)
(* timing and every set of driver faults.  The argument is an inductive    *)
(* invariant in four parts: IndexInv (types, and where the loop index may  *)
(* stand), CleanupInv (which processes can be running at each pc), ClockInv*)
(* (how far past the shared deadline each log is read) and FreshInv (whose *)
(* documents the logs, the texts read from them and the rows hold).  That   *)
(* the call implements MeasureFn rests on these and on PromiseInv, which   *)
(* ties logs, texts, rows and outcome to what the promise speaks of.       *)
(***************************************************************************)
EXTENDS Throughput, FiniteSetTheorems, TLAPS

Driving == {"start_rx", "count", "start_tx", "read_rx", "judge_rx", "read_tx",
            "judge_tx"}

IndexInv ==
    /\ TypeOK
    /\ pc \in {"begin", "window"} => i = 1
    /\ pc \in Driving => i \in Flow
    /\ pc \in {"read_tx", "judge_tx"} => HasNewSession(rxText, prior[i])

-----------------------------------------------------------------------------
(* The log operators. *)

LEMMA IntervalSize ==
    ASSUME NEW n \in Nat
    PROVE  IsFiniteSet(1..n) /\ Cardinality(1..n) = n
<1>1. 1 \in Int /\ n \in Int
  OBVIOUS
<1>2. IsFiniteSet(1..n) /\ Cardinality(1..n) = IF 1 > n THEN 0 ELSE n - 1 + 1
  BY <1>1, FS_Interval, Zenon
<1> QED
  BY <1>2

\* The number of sessions of a log is bounded by its length, and the last
\* session is a document of the log.
LEMMA SessionsType ==
    ASSUME NEW l \in Seq(Doc)
    PROVE  /\ Sessions(l) \in 0..Len(l)
           /\ Sessions(l) > 0 => LastDoc(l) \in Doc
<1>1. IsFiniteSet(1..Len(l)) /\ Cardinality(1..Len(l)) = Len(l)
  BY IntervalSize
<1>2. Readable(l) \subseteq 1..Len(l)
  BY DEF Readable
<1>3. Cardinality(Readable(l)) \in Nat /\ Cardinality(Readable(l)) <= Len(l)
  BY <1>1, <1>2, FS_Subset, FS_CardinalityType
<1> QED
  BY <1>3 DEF Sessions, LastDoc

\* A log whose documents are all readable has as many sessions as documents.
LEMMA AllReadable ==
    ASSUME NEW l \in Seq(Doc), \A k \in 1..Len(l) : l[k].kind # "open"
    PROVE  Sessions(l) = Len(l)
<1>1. Readable(l) = 1..Len(l)
  BY DEF Readable
<1> QED
  BY <1>1, IntervalSize DEF Sessions

\* Appending a document adds at most the session it is: the sessions counted
\* before keep their number and the last of them, or the new document is last.
LEMMA SessionsAppend ==
    ASSUME NEW l \in Seq(Doc), NEW d \in Doc
    PROVE  LET l2 == Append(l, d)
           IN \/ Sessions(l2) = Sessions(l)
              \/ Sessions(l2) = Len(l) + 1 /\ LastDoc(l2) = d
<1> DEFINE l2 == Append(l, d)
<1>1. /\ l2 \in Seq(Doc) /\ Len(l2) = Len(l) + 1 /\ l2[Len(l) + 1] = d
      /\ \A k \in 1..Len(l) : l2[k] = l[k]
  OBVIOUS
<1>2. CASE \A k \in 1..Len(l2) : l2[k].kind # "open"
  BY <1>1, <1>2, AllReadable DEF LastDoc
<1>3. CASE \E k \in 1..Len(l2) : l2[k].kind = "open"
  <2>1. Readable(l2) = Readable(l)
    BY <1>1, <1>3 DEF Readable
  <2> QED BY <2>1 DEF Sessions
<1> QED BY <1>2, <1>3
-----------------------------------------------------------------------------
(* Types. *)

\* The steps of the call that only move it on, and those of the hosts.
LEMMA IndexInvInit == Init => IndexInv
<1> SUFFICES ASSUME Init PROVE IndexInv
  OBVIOUS
<1>1. log \in [Proc -> Seq(Doc)]
  <2>1. PICK kinds \in Priors :
          log = [p \in Proc |-> [k \in 1..Len(kinds[p]) |->
                    [proc |-> p, own |-> FALSE, kind |-> kinds[p][k]]]]
    BY DEF Init
  <2>2. ASSUME NEW p \in Proc PROVE log[p] \in Seq(Doc)
    <3>1. kinds[p] \in Seq(Kind)
      BY PriorAssumption
    <3>2. \A k \in 1..Len(kinds[p]) :
            [proc |-> p, own |-> FALSE, kind |-> kinds[p][k]] \in Doc
      BY <3>1 DEF Doc
    <3>3. Len(kinds[p]) \in Nat
      BY <3>1
    <3>4. log[p] = [k \in 1..Len(kinds[p]) |->
                    [proc |-> p, own |-> FALSE, kind |-> kinds[p][k]]]
      BY <2>1
    <3> QED BY <3>2, <3>3, <3>4
  <2> QED BY <2>1, <2>2
<1>2. TypeOK
  BY <1>1, FlowsAssumption
     DEF Init, TypeOK, Pending, Outcome, Never, Proc, Side, Flow
<1> QED
  BY <1>2 DEF Init, IndexInv, Driving

LEMMA UnwindType ==
    ASSUME NEW kind \in {"driver_error", "noncompletion", "returned"},
           NEW s \in Side \cup {"none"}, NEW f \in 0..N, Unwind(kind, <<s, f>>)
    PROVE  outcome' \in Outcome /\ pc' = "stop_tx" /\ i' = 1
           /\ text' \in Seq(Doc) /\ rxText' \in Seq(Doc)
<1>1. <<s, f>> \in (Side \cup {"none"}) \X (0..N)
  OBVIOUS
<1> QED BY <1>1 DEF Unwind, Outcome

LEMMA ReturnType ==
    ASSUME Unwind("returned", <<"none", 0>>)
    PROVE  outcome' \in Outcome /\ pc' = "stop_tx" /\ i' = 1
           /\ text' \in Seq(Doc) /\ rxText' \in Seq(Doc)
<1>1. "none" \in Side \cup {"none"} /\ 0 \in 0..N
  BY FlowsAssumption
<1> QED BY <1>1, UnwindType

LEMMA StopNextType ==
    ASSUME TypeOK, NEW s \in Side, i <= Registered(s), StopNext(s)
    PROVE  /\ i' \in 1..(N + 1)
           /\ pc' \in {"stop_tx", "stop_rx", "done", pc}
  BY FlowsAssumption DEF TypeOK, StopNext, Registered, Side

\* Whichever driver call raises, with its effect or before it, the call unwinds.
LEMMA FaultyUnwinds ==
    ASSUME IndexInv, Faulty
    PROVE  /\ i \in Flow /\ pc \in {"start_rx", "count", "start_tx", "read_rx", "read_tx"}
           /\ pc' = "stop_tx" /\ i' = 1 /\ text' = <<>> /\ rxText' = <<>>
           /\ \E s \in Side : /\ outcome' = [kind |-> "driver_error", at |-> <<s, i>>]
                              /\ pc \in {"start_rx", "count", "read_rx"} => s = "rx"
           /\ UNCHANGED <<flows, prior, started, senders, results, deadline, now,
                          flushedAt, unstopped>>
<1>1. ASSUME NEW fault, NEW s \in Side, DriverRaises(fault, <<s, i>>)
      PROVE  /\ pc' = "stop_tx" /\ i' = 1 /\ text' = <<>> /\ rxText' = <<>>
             /\ outcome' = [kind |-> "driver_error", at |-> <<s, i>>]
             /\ UNCHANGED <<flows, prior, started, senders, results, deadline, now,
                            flushedAt, unstopped>>
  BY <1>1 DEF DriverRaises, Unwind, hostVars
<1>2. ASSUME NEW s \in Side, StartRaisesLate(s)
      PROVE  /\ pc = StartPc(s)
             /\ pc' = "stop_tx" /\ i' = 1 /\ text' = <<>> /\ rxText' = <<>>
             /\ outcome' = [kind |-> "driver_error", at |-> <<s, i>>]
             /\ UNCHANGED <<flows, prior, started, senders, results, deadline, now,
                            flushedAt, unstopped>>
  BY <1>2 DEF StartRaisesLate, Unwind
<1>3. \E s \in Side :
         \/ /\ \/ s = "rx" /\ pc \in {"start_rx", "count"}
               \/ s = "tx" /\ pc = "start_tx"
               \/ pc = ReadPc(s)
            /\ \E fault : DriverRaises(fault, <<s, i>>)
         \/ StartRaisesLate(s)
  BY DEF Faulty, Side
<1> QED  BY <1>1, <1>2, <1>3 DEF IndexInv, Driving, StartPc, ReadPc, Side

LEMMA IndexInvStep == IndexInv /\ [Next]_vars => IndexInv'
<1> SUFFICES ASSUME IndexInv, [Next]_vars PROVE IndexInv'
  OBVIOUS
<1> USE FlowsAssumption, TimingAssumption
<1> USE DEF IndexInv, TypeOK, Driving
<1>0. \A s \in Side, f \in Flow : <<s, f>> \in Proc
  BY DEF Proc
<1>1. CASE RejectDuplicatePorts
  BY <1>1 DEF RejectDuplicatePorts, hostVars, Outcome
<1>2. CASE AcceptPorts
  BY <1>2 DEF AcceptPorts, hostVars, Flow
<1>3. CASE StartReceiver
  BY <1>3, <1>0 DEF StartReceiver, hostVars, Side, Flow
<1>4. CASE CountPrior
  <2>1. log[<<"rx", i>>] \in Seq(Doc)
    BY <1>4, <1>0 DEF CountPrior, Side
  <2>2. Sessions(log[<<"rx", i>>]) \in Nat
    BY <2>1, SessionsType
  <2>3. prior' \in [Flow -> Nat]
    BY <1>4, <2>2 DEF CountPrior
  <2>4. /\ i' \in Flow /\ i' \in 1..(N + 1) /\ pc' \in {"start_rx", "start_tx"}
        /\ started' \in 0..N
    BY <1>4 DEF CountPrior, Flow
  <2>5. UNCHANGED <<flows, senders, text, rxText, results, outcome, deadline,
                    now, hostVars>>
    BY <1>4 DEF CountPrior
  <2> QED BY <2>3, <2>4, <2>5 DEF hostVars
<1>5. CASE StartSender
  <2>1. log' \in [Proc -> Seq(Doc)]
    <3>1. << >> \in Seq(Doc)
      OBVIOUS
    <3> QED BY <1>5, <3>1 DEF StartSender
  <2>2. /\ i' \in Flow /\ i' \in 1..(N + 1) /\ pc' \in {"start_tx", "window"}
        /\ senders' \in 0..N
    BY <1>5 DEF StartSender, Flow
  <2>3. live' \subseteq Proc
    BY <1>5, <1>0 DEF StartSender, Side, Flow
  <2>4. UNCHANGED <<flows, prior, started, text, rxText, results, outcome,
                    deadline, now, flushedAt, unstopped>>
    BY <1>5 DEF StartSender
  <2>5. TypeOK'
    BY <1>5, <2>1, <2>2, <2>3, <2>4
  <2>6. pc' \in Driving => i' \in Flow
    BY <2>2
  <2>7. pc' = "window" => i' = 1
    BY <1>5 DEF StartSender
  <2> QED BY <2>2, <2>5, <2>6, <2>7
<1>6. CASE MeasureWindow
  <2>1. now' \in Nat /\ deadline' \in Nat
    BY <1>6 DEF MeasureWindow
  <2>2. CASE N = 0
    <3>1. Unwind("returned", <<"none", 0>>)
      BY <1>6, <2>2 DEF MeasureWindow
    <3>2. /\ outcome' \in Outcome /\ pc' = "stop_tx" /\ i' = 1
          /\ text' \in Seq(Doc) /\ rxText' \in Seq(Doc)
      BY <3>1, ReturnType
    <3> QED BY <1>6, <2>1, <3>2 DEF MeasureWindow, hostVars
  <2>3. CASE N # 0
    BY <1>6, <2>1, <2>3 DEF MeasureWindow, hostVars, Flow
  <2> QED BY <2>2, <2>3
<1>7. ASSUME NEW s \in Side, ReadLog(s) PROVE IndexInv'
  BY <1>7, <1>0 DEF ReadLog, ReadPc, JudgePc, hostVars, Side
<1>8. ASSUME NEW s \in Side, KeepPolling(s) PROVE IndexInv'
  BY <1>8 DEF KeepPolling, ReadPc, JudgePc, hostVars, Side
<1>9. ASSUME NEW s \in Side, NonCompletion(s) PROVE IndexInv'
  <2>1. i \in 0..N /\ s \in Side \cup {"none"}
    BY <1>9 DEF NonCompletion, JudgePc, Flow
  <2>2. now' \in Nat
    BY <1>9 DEF NonCompletion, Expired
  <2> QED BY <1>9, <2>1, <2>2, UnwindType DEF NonCompletion, hostVars
<1>10. CASE ReceiverDone
  BY <1>10 DEF ReceiverDone, hostVars
<1>11. ASSUME NEW tx \in Doc \cup {NoDoc}, Report(tx), pc = "judge_tx",
              flows[i].reverse => tx \in Doc, now' \in Nat
       PROVE  IndexInv'
  <2>1. LastDoc(rxText) \in Doc
    BY <1>11, SessionsType DEF HasNewSession
  <2>2. Row(tx) \in [port : Ports, rate : Doc, rtt : Doc \cup {NoDoc}]
    BY <1>11, <2>1 DEF Row
  <2>3. results' \in Seq([port : Ports, rate : Doc, rtt : Doc \cup {NoDoc}])
    BY <1>11, <2>2 DEF Report
  <2>4. CASE i < N
    <3>1. i' \in Flow /\ i' \in 1..(N + 1) /\ pc' = "read_rx"
      BY <1>11, <2>4 DEF Report, Flow
    <3>2. text' \in Seq(Doc) /\ rxText' \in Seq(Doc) /\ outcome' = outcome
      BY <1>11, <2>4 DEF Report
    <3> QED BY <1>11, <2>3, <3>1, <3>2 DEF Report, hostVars
  <2>5. CASE ~(i < N)
    <3>1. /\ outcome' \in Outcome /\ pc' = "stop_tx" /\ i' = 1
          /\ text' \in Seq(Doc) /\ rxText' \in Seq(Doc)
      BY <1>11, <2>5, ReturnType DEF Report
    <3> QED BY <1>11, <2>3, <3>1 DEF Report, hostVars
  <2> QED BY <2>4, <2>5
<1>12. CASE SenderDone
  <2>1. LastDoc(text) \in Doc
    BY <1>12, SessionsType DEF SenderDone, HasNewSession
  <2>2. now' \in Nat
    BY <1>12 DEF SenderDone
  <2> QED BY <1>11, <1>12, <2>1, <2>2 DEF SenderDone
<1>13. CASE SenderMissed
  <2>1. now' \in Nat
    BY <1>13 DEF SenderMissed, Expired
  <2> QED BY <1>11, <1>13, <2>1 DEF SenderMissed
<1>14. ASSUME NEW s \in Side, Stop(s) PROVE IndexInv'
  BY <1>14, StopNextType DEF Stop, StopPc, Side
<1>15. ASSUME NEW s \in Side, StopRaises(s) PROVE IndexInv'
  <2>1. StopTarget(s) \in Proc
    BY <1>15 DEF StopRaises, StopTarget, Proc, Flow, Registered
  <2> QED BY <1>15, <2>1, StopNextType DEF StopRaises, StopPc, Side
<1>16. ASSUME NEW s \in Side, StopNothing(s) PROVE IndexInv'
  BY <1>16 DEF StopNothing, StopPc, hostVars, Side
<1>17. CASE Faulty
  <2>1. /\ i \in Flow /\ pc' = "stop_tx" /\ i' = 1 /\ text' = <<>> /\ rxText' = <<>>
        /\ UNCHANGED <<flows, prior, started, senders, results, deadline, now,
                       flushedAt, unstopped>>
    BY <1>17, FaultyUnwinds
  <2>2. outcome' \in Outcome
    <3>1. PICK s \in Side : outcome' = [kind |-> "driver_error", at |-> <<s, i>>]
      BY <1>17, FaultyUnwinds
    <3>2. <<s, i>> \in (Side \cup {"none"}) \X (0..N)
      BY <2>1 DEF Flow
    <3> QED BY <3>1, <3>2 DEF Outcome
  <2>3. log' \in [Proc -> Seq(Doc)] /\ live' \subseteq Proc
    <3>1. ASSUME NEW s \in Side, StartRaisesLate(s)
          PROVE  log' \in [Proc -> Seq(Doc)] /\ live' \subseteq Proc
      <4>1. <<>> \in Seq(Doc) /\ <<s, i>> \in Proc
        BY <1>0, <2>1
      <4> QED BY <3>1, <4>1 DEF StartRaisesLate
    <3>2. CASE ~\E s \in Side : StartRaisesLate(s)
      BY <1>17, <3>2 DEF Faulty, DriverRaises, hostVars
    <3> QED BY <3>1, <3>2
  <2>4. text' \in Seq(Doc) /\ rxText' \in Seq(Doc)
    BY <2>1
  <2> QED BY <2>1, <2>2, <2>3, <2>4
<1>18. ASSUME NEW p \in Proc, NEW kind \in {"rated", "unrated"}, Flush(p, kind)
       PROVE  IndexInv'
  <2>1. [proc |-> p, own |-> TRUE, kind |-> kind] \in Doc
    BY DEF Doc, Kind
  <2>2. log' \in [Proc -> Seq(Doc)]
    BY <1>18, <2>1 DEF Flush
  <2> QED BY <1>18, <2>2 DEF Flush, callVars
<1>19. CASE UNCHANGED vars
  BY <1>19 DEF vars, callVars, hostVars
<1> QED
  BY <1>1, <1>2, <1>3, <1>4, <1>5, <1>6, <1>7, <1>8, <1>9, <1>10, <1>12, <1>13,
     <1>14, <1>15, <1>16, <1>17, <1>18, <1>19
     DEF Next, Call, Hosts, Finished

\* Every behaviour of the call is well typed, whatever the hosts and drivers do.
THEOREM TypeCorrect == Spec => []TypeOK
<1>1. IndexInv => TypeOK
  BY DEF IndexInv
<1> QED
  BY <1>1, IndexInvInit, IndexInvStep, PTL DEF Spec
-----------------------------------------------------------------------------
(* Which processes can be running, and which of them the call will stop.   *)

Starting == pc \in {"start_rx", "count", "start_tx"}

\* A receiver that was started and is not registered: its log is still to be
\* read, or could not be, or its start has raised.
Unregistered(f) ==
    /\ f = started + 1
    /\ \/ pc = "count"
       \/ outcome.kind = "driver_error" /\ outcome.at = <<"rx", f>>

\* A client whose start raised when it was running.
Orphan(f) ==
    /\ f = senders + 1
    /\ outcome.kind = "driver_error" /\ outcome.at = <<"tx", f>>

Unwinding == pc \in {"stop_tx", "stop_rx", "done"}

RegisteredInv ==
    /\ ~Unwinding => outcome.kind = "pending"
    /\ pc = "begin" => started = 0 /\ senders = 0 /\ live = {}
    /\ pc \in {"start_rx", "count"} => started = i - 1 /\ senders = 0
    /\ pc = "start_tx" => started = N /\ senders = i - 1
    /\ Measuring => started = N /\ senders = N
    /\ senders > 0 => started = N

LiveInv ==
    /\ pc = "count" => <<"rx", i>> \in live
    /\ Starting \/ Measuring => \A f \in 1..started : <<"rx", f>> \in live
    /\ \A f \in Flow : <<"tx", f>> \in live => f <= senders \/ Orphan(f)
    /\ \A f \in Flow : <<"rx", f>> \in live => f <= started \/ Unregistered(f)

StoppedInv ==
    /\ pc = "stop_tx" =>
          \A f \in 1..(i - 1) : <<"tx", f>> \in live => <<"tx", f>> \in unstopped
    /\ pc \in {"stop_rx", "done"} =>
          \A f \in 1..senders : <<"tx", f>> \in live => <<"tx", f>> \in unstopped
    /\ pc = "stop_rx" =>
          \A f \in 1..(i - 1) : <<"rx", f>> \in live => <<"rx", f>> \in unstopped
    /\ pc = "done" =>
          \A f \in 1..started : <<"rx", f>> \in live => <<"rx", f>> \in unstopped

CleanupInv == RegisteredInv /\ LiveInv /\ StoppedInv

LEMMA CleanupInvInit == Init => CleanupInv
  BY DEF Init, CleanupInv, RegisteredInv, LiveInv, StoppedInv, Starting, Measuring,
          Unwinding, Pending

\* The processes are registered in flow order, all receivers before a sender.
LEMMA RegisteredInvStep ==
    IndexInv /\ CleanupInv /\ [Next]_vars => RegisteredInv'
<1> SUFFICES ASSUME IndexInv, RegisteredInv, [Next]_vars PROVE RegisteredInv'
  BY DEF CleanupInv
<1> USE FlowsAssumption
<1> USE DEF RegisteredInv, IndexInv, TypeOK, Driving, Measuring, Flow, Unwinding
<1>1. CASE RejectDuplicatePorts \/ AcceptPorts
  <2>1. CASE RejectDuplicatePorts
    BY <2>1 DEF RejectDuplicatePorts, hostVars
  <2>2. CASE AcceptPorts
    BY <2>2 DEF AcceptPorts, hostVars
  <2> QED BY <1>1, <2>1, <2>2
<1>2. CASE StartReceiver \/ CountPrior \/ StartSender
  <2>1. CASE StartReceiver
    BY <2>1 DEF StartReceiver
  <2>2. CASE CountPrior
    BY <2>2 DEF CountPrior, hostVars
  <2>3. CASE StartSender
    BY <2>3 DEF StartSender
  <2> QED BY <1>2, <2>1, <2>2, <2>3
<1>3. CASE MeasureWindow
  BY <1>3 DEF MeasureWindow, Unwind, hostVars
<1>4. ASSUME NEW s \in Side, ReadLog(s) \/ KeepPolling(s) \/ NonCompletion(s)
      PROVE  RegisteredInv'
  BY <1>4 DEF ReadLog, KeepPolling, NonCompletion, Unwind, ReadPc, JudgePc,
              hostVars, Side
<1>5. CASE ReceiverDone \/ SenderDone \/ SenderMissed
  BY <1>5 DEF ReceiverDone, SenderDone, SenderMissed, Report, Unwind, hostVars
<1>6. ASSUME NEW s \in Side, Stop(s) \/ StopRaises(s) \/ StopNothing(s)
      PROVE  RegisteredInv'
  BY <1>6 DEF Stop, StopRaises, StopNothing, StopNext, StopPc, hostVars, Side
<1>7. CASE Faulty
  BY <1>7, FaultyUnwinds
<1>8. ASSUME NEW p \in Proc, NEW kind \in {"rated", "unrated"}, Flush(p, kind)
      PROVE  RegisteredInv'
  BY <1>8 DEF Flush, callVars
<1>9. CASE UNCHANGED vars
  BY <1>9 DEF vars, callVars, hostVars
<1> QED
  BY <1>1, <1>2, <1>3, <1>4, <1>5, <1>6, <1>7, <1>8, <1>9
     DEF Next, Call, Hosts, Finished

\* Every running process is registered, except the one receiver between its
\* start and the reading of its log, and the one whose start raised.
LEMMA LiveInvStep ==
    IndexInv /\ CleanupInv /\ [Next]_vars => LiveInv'
<1> SUFFICES ASSUME IndexInv, RegisteredInv, LiveInv, [Next]_vars PROVE LiveInv'
  BY DEF CleanupInv
<1> USE FlowsAssumption
<1> USE DEF RegisteredInv, LiveInv, IndexInv, TypeOK, Driving, Measuring,
            Starting, Flow, Unregistered, Orphan, Unwinding
<1>1. CASE RejectDuplicatePorts \/ AcceptPorts
  BY <1>1 DEF RejectDuplicatePorts, AcceptPorts, hostVars
<1>2. CASE StartReceiver
  <2>1. /\ pc = "start_rx" /\ pc' = "count" /\ i' = i /\ started' = started
        /\ senders' = senders /\ started = i - 1
        /\ live' = live \cup {<<"rx", i>>}
    BY <1>2 DEF StartReceiver
  <2>2. \A f \in Flow : <<"rx", f>> \in live' <=> <<"rx", f>> \in live \/ f = i
    BY <2>1
  <2>3. \A f \in Flow : <<"tx", f>> \in live' <=> <<"tx", f>> \in live
    BY <2>1
  <2>4. ASSUME NEW f \in 1..started PROVE f \in Flow /\ <<"rx", f>> \in live'
    <3>1. f \in Flow
      BY <2>1
    <3>2. <<"rx", f>> \in live
      BY <2>1
    <3> QED BY <2>1, <3>1, <3>2
  <2>5. ASSUME NEW f \in Flow, <<"rx", f>> \in live'
        PROVE  f <= started' \/ Unregistered(f)'
    <3>1. f <= started \/ f = started + 1
      BY <2>1, <2>2, <2>5
    <3> QED BY <2>1, <3>1
  <2>6. \A f \in Flow : <<"tx", f>> \in live' => f <= senders'
    BY <2>1, <2>3
  <2> QED BY <2>1, <2>4, <2>5, <2>6
<1>3. CASE CountPrior
  <2>1. /\ pc = "count" /\ started' = i /\ started = i - 1 /\ live' = live
        /\ senders' = senders /\ pc' \in {"start_rx", "start_tx"}
    BY <1>3 DEF CountPrior, hostVars
  <2>2. ASSUME NEW f \in 1..started' PROVE <<"rx", f>> \in live'
    <3>1. CASE f = i
      BY <2>1, <3>1
    <3>2. CASE f # i
      BY <2>1, <3>2
    <3> QED BY <3>1, <3>2
  <2>3. ASSUME NEW f \in Flow, <<"rx", f>> \in live'
        PROVE  f <= started'
    <3>1. f <= started \/ f = started + 1
      BY <2>1, <2>3
    <3> QED BY <2>1, <3>1
  <2> QED BY <2>1, <2>2, <2>3
<1>4. CASE StartSender
  <2>1. /\ pc = "start_tx" /\ started' = started /\ senders' = i
        /\ senders = i - 1 /\ started = N /\ pc' \in {"start_tx", "window"}
        /\ live' = live \cup {<<"tx", i>>}
    BY <1>4 DEF StartSender
  <2>2. \A f \in Flow : <<"rx", f>> \in live' <=> <<"rx", f>> \in live
    BY <2>1
  <2>3. \A f \in Flow : <<"tx", f>> \in live' <=> <<"tx", f>> \in live \/ f = i
    BY <2>1
  <2> QED BY <2>1, <2>2, <2>3
<1>5. CASE MeasureWindow
  BY <1>5 DEF MeasureWindow, Unwind, hostVars
<1>6. ASSUME NEW s \in Side, ReadLog(s) \/ KeepPolling(s) \/ NonCompletion(s)
      PROVE  LiveInv'
  BY <1>6 DEF ReadLog, KeepPolling, NonCompletion, Unwind, ReadPc, JudgePc,
              hostVars, Side
<1>7. CASE ReceiverDone \/ SenderDone \/ SenderMissed
  BY <1>7 DEF ReceiverDone, SenderDone, SenderMissed, Report, Unwind, hostVars
<1>8. ASSUME NEW s \in Side, Stop(s) \/ StopRaises(s) \/ StopNothing(s)
      PROVE  LiveInv'
  BY <1>8 DEF Stop, StopRaises, StopNothing, StopNext, StopPc, StopTarget,
              hostVars, Side
<1>9. CASE Faulty
  <2>0. /\ UNCHANGED <<started, senders>> /\ pc' = "stop_tx" /\ i \in Flow
        /\ outcome.kind = "pending"
        /\ pc = "count" => outcome' = [kind |-> "driver_error", at |-> <<"rx", i>>]
    BY <1>9, FaultyUnwinds
  <2>a. ASSUME NEW s \in Side, StartRaisesLate(s) PROVE LiveInv'
    <3>1. /\ pc = StartPc(s) /\ live' = live \cup {<<s, i>>}
          /\ outcome' = [kind |-> "driver_error", at |-> <<s, i>>]
      BY <2>a DEF StartRaisesLate, Unwind
    <3>2. ASSUME NEW f \in Flow, <<"rx", f>> \in live'
          PROVE  f <= started' \/ Unregistered(f)'
      <4>1. CASE s = "rx" /\ f = i
        BY <2>0, <3>1, <4>1 DEF StartPc
      <4>2. CASE ~(s = "rx" /\ f = i)
        <5>1. <<"rx", f>> \in live
          BY <3>1, <3>2, <4>2
        <5> QED  BY <2>0, <3>1, <5>1 DEF StartPc
      <4> QED  BY <4>1, <4>2
    <3>3. ASSUME NEW f \in Flow, <<"tx", f>> \in live'
          PROVE  f <= senders' \/ Orphan(f)'
      <4>1. CASE s = "tx" /\ f = i
        BY <2>0, <3>1, <4>1 DEF StartPc
      <4>2. CASE ~(s = "tx" /\ f = i)
        <5>1. <<"tx", f>> \in live
          BY <3>1, <3>3, <4>2
        <5> QED  BY <2>0, <5>1
      <4> QED  BY <4>1, <4>2
    <3> QED BY <2>0, <3>2, <3>3
  <2>b. CASE ~\E s \in Side : StartRaisesLate(s)
    <3>1. live' = live
      BY <1>9, <2>b DEF Faulty, DriverRaises, hostVars
    <3>2. ASSUME NEW f \in Flow, <<"rx", f>> \in live'
          PROVE  f <= started' \/ Unregistered(f)'
      <4>1. f <= started \/ (f = started + 1 /\ pc = "count")
        BY <2>0, <3>1, <3>2
      <4> QED BY <4>1, <2>0
    <3>3. \A f \in Flow : <<"tx", f>> \in live' => f <= senders'
      BY <2>0, <3>1
    <3> QED BY <2>0, <3>2, <3>3
  <2> QED BY <2>a, <2>b
<1>10. ASSUME NEW p \in Proc, NEW kind \in {"rated", "unrated"}, Flush(p, kind)
       PROVE  LiveInv'
  BY <1>10 DEF Flush, callVars, Proc, Side
<1>11. CASE UNCHANGED vars
  BY <1>11 DEF vars, callVars, hostVars
<1> QED
  BY <1>1, <1>2, <1>3, <1>4, <1>5, <1>6, <1>7, <1>8, <1>9, <1>10, <1>11
     DEF Next, Call, Hosts, Finished

\* Nothing is owed to the finally block before it has passed a process.
LEMMA NothingPassed ==
    ASSUME pc' \in Driving \/ (pc' = "stop_tx" /\ i' = 1)
    PROVE  StoppedInv'
<1>1. pc' \notin {"stop_rx", "done"}
  BY DEF Driving
<1>2. pc' = "stop_tx" => 1..(i' - 1) = {}
  BY DEF Driving
<1> QED BY <1>1, <1>2 DEF StoppedInv

\* The finally block leaves a process running only where its stop failed.
LEMMA StoppedInvStep ==
    IndexInv /\ CleanupInv /\ [Next]_vars => StoppedInv'
<1> SUFFICES ASSUME IndexInv, RegisteredInv, LiveInv, StoppedInv, [Next]_vars
             PROVE  StoppedInv'
  BY DEF CleanupInv
<1> USE FlowsAssumption
<1> USE DEF RegisteredInv, LiveInv, StoppedInv, IndexInv, TypeOK, Driving,
            Measuring, Flow, Unwinding
<1>1. CASE RejectDuplicatePorts \/ AcceptPorts
  BY <1>1 DEF RejectDuplicatePorts, AcceptPorts, hostVars
<1>2. CASE StartReceiver \/ CountPrior \/ StartSender
  BY <1>2 DEF StartReceiver, CountPrior, StartSender
<1>3. CASE MeasureWindow
  BY <1>3 DEF MeasureWindow, Unwind
<1>4. ASSUME NEW s \in Side, ReadLog(s) \/ KeepPolling(s) \/ NonCompletion(s)
      PROVE  StoppedInv'
  <2>1. pc' \in Driving \/ (pc' = "stop_tx" /\ i' = 1)
    BY <1>4 DEF ReadLog, KeepPolling, NonCompletion, Unwind, ReadPc, JudgePc, Side
  <2> QED BY <2>1, NothingPassed
<1>5. CASE ReceiverDone \/ SenderDone \/ SenderMissed
  <2>1. pc' \in Driving \/ (pc' = "stop_tx" /\ i' = 1)
    BY <1>5 DEF ReceiverDone, SenderDone, SenderMissed, Report, Unwind
  <2> QED BY <2>1, NothingPassed
<1>6. ASSUME NEW s \in Side, Stop(s) PROVE StoppedInv'
  BY <1>6 DEF Stop, StopNext, StopPc, StopTarget, Registered, Side
<1>7. ASSUME NEW s \in Side, StopRaises(s) PROVE StoppedInv'
  BY <1>7 DEF StopRaises, StopNext, StopPc, StopTarget, Registered, Side
<1>8. ASSUME NEW s \in Side, StopNothing(s) PROVE StoppedInv'
  <2>1. /\ UNCHANGED <<started, senders, live, unstopped>>
        /\ \/ s = "tx" /\ senders = 0 /\ pc' = "stop_rx" /\ i' = 1 /\ pc = "stop_tx"
           \/ s = "rx" /\ started = 0 /\ pc' = "done" /\ pc = "stop_rx"
    BY <1>8 DEF StopNothing, StopPc, Registered, hostVars, Side
  <2>2. CASE s = "tx"
    <3>1. senders' = senders /\ senders = 0 /\ pc' = "stop_rx" /\ i' = 1
      BY <1>8, <2>1, <2>2 DEF StopNothing
    <3>2. 1..senders' = {} /\ 1..(i' - 1) = {}
      BY <3>1
    <3> QED BY <3>1, <3>2
  <2>3. CASE s = "rx"
    BY <2>1, <2>3
  <2> QED BY <2>2, <2>3 DEF Side
<1>9. CASE Faulty
  <2>1. pc' = "stop_tx" /\ i' = 1
    BY <1>9, FaultyUnwinds
  <2> QED BY <2>1, NothingPassed
<1>10. ASSUME NEW p \in Proc, NEW kind \in {"rated", "unrated"}, Flush(p, kind)
       PROVE  StoppedInv'
  BY <1>10 DEF Flush, callVars
<1>11. CASE UNCHANGED vars
  BY <1>11 DEF vars, callVars, hostVars
<1> QED
  BY <1>1, <1>2, <1>3, <1>4, <1>5, <1>6, <1>7, <1>8, <1>9, <1>10, <1>11
     DEF Next, Call, Hosts, Finished

LEMMA CleanupCorrect == Spec => [](IndexInv /\ CleanupInv)
<1>1. IndexInv /\ CleanupInv /\ [Next]_vars => (IndexInv /\ CleanupInv)'
  BY IndexInvStep, RegisteredInvStep, LiveInvStep, StoppedInvStep DEF CleanupInv
<1> QED
  BY <1>1, IndexInvInit, CleanupInvInit, PTL DEF Spec

\* The set of flows overlaps: no client before every server, no server gone
\* while the call measures, and the wait begins with every client launched.
THEOREM FlowsOverlapCorrect == Spec => []FlowsOverlap
<1>1. IndexInv /\ CleanupInv => FlowsOverlap
  BY DEF IndexInv, CleanupInv, RegisteredInv, LiveInv, FlowsOverlap, Starting,
         Measuring, Flow
<1> QED BY <1>1, CleanupCorrect, PTL

LEMMA OnlyFailedStops ==
    ASSUME IndexInv, CleanupInv
    PROVE  OnlyFailedStopsOutlive
<1> SUFFICES ASSUME pc = "done", NEW p \in live \ unstopped
             PROVE  /\ outcome.kind = "driver_error" /\ outcome.at = p
                    /\ p \in {<<"rx", started + 1>>, <<"tx", senders + 1>>}
  BY DEF OnlyFailedStopsOutlive
<1>1. PICK s \in Side, f \in Flow : p = <<s, f>>
  BY DEF IndexInv, TypeOK, Proc
<1>2. CASE s = "rx"
  <2>1. f > started
    BY <1>1, <1>2 DEF CleanupInv, StoppedInv, IndexInv, TypeOK, Flow
  <2>2. Unregistered(f)
    BY <1>1, <1>2, <2>1 DEF CleanupInv, LiveInv, IndexInv, TypeOK, Flow
  <2> QED BY <1>1, <1>2, <2>2 DEF Unregistered
<1>3. CASE s = "tx"
  <2>1. f > senders
    BY <1>1, <1>3 DEF CleanupInv, StoppedInv, IndexInv, TypeOK, Flow
  <2>2. Orphan(f)
    BY <1>1, <1>3, <2>1 DEF CleanupInv, LiveInv, IndexInv, TypeOK, Flow
  <2> QED BY <1>1, <1>3, <2>2 DEF Orphan
<1> QED BY <1>2, <1>3 DEF Side

\* The finally block: when the call is over, a process still runs only if its
\* own stop failed, or a start or the first log read kept it from being
\* registered.
THEOREM OnlyFailedStopsOutliveCorrect == Spec => []OnlyFailedStopsOutlive
BY OnlyFailedStops, CleanupCorrect, PTL

\* No server is stopped under a client that is still being driven.
THEOREM SendersStoppedFirstCorrect == Spec => SendersStoppedFirst
<1> DEFINE Step == \A f \in Flow :
          <<"rx", f>> \in live /\ <<"rx", f>> \notin live' =>
              \A g \in 1..senders : <<"tx", g>> \in live => <<"tx", g>> \in unstopped
<1>1. IndexInv /\ CleanupInv /\ [Next]_vars => [Step]_vars
  <2> SUFFICES ASSUME CleanupInv, Next,
                      NEW f \in Flow, <<"rx", f>> \in live, <<"rx", f>> \notin live'
               PROVE  \A g \in 1..senders : <<"tx", g>> \in live => <<"tx", g>> \in unstopped
    OBVIOUS
  <2>1. pc = "stop_rx"
    <3>1. ASSUME live' = live PROVE FALSE
      BY <3>1
    <3>2. ASSUME NEW s \in Side, Stop(s) PROVE pc = "stop_rx"
      BY <3>2 DEF Stop, StopPc, StopTarget, Side
    <3>3. ASSUME NEW p \in Proc, NEW kind \in {"rated", "unrated"}, Flush(p, kind)
          PROVE  FALSE
      BY <3>3 DEF Flush
    <3>4. CASE StartReceiver \/ StartSender
      BY <3>4 DEF StartReceiver, StartSender
    <3>5. CASE RejectDuplicatePorts \/ AcceptPorts \/ CountPrior \/ MeasureWindow
      BY <3>1, <3>5 DEF RejectDuplicatePorts, AcceptPorts, CountPrior, MeasureWindow,
                        hostVars
    <3>6. ASSUME NEW s \in Side, ReadLog(s) \/ KeepPolling(s) \/ NonCompletion(s)
          PROVE  FALSE
      BY <3>1, <3>6 DEF ReadLog, KeepPolling, NonCompletion, hostVars
    <3>7. CASE ReceiverDone \/ SenderDone \/ SenderMissed
      BY <3>1, <3>7 DEF ReceiverDone, SenderDone, SenderMissed, Report, hostVars
    <3>8. ASSUME NEW s \in Side, StopRaises(s) \/ StopNothing(s)
          PROVE  FALSE
      BY <3>1, <3>8 DEF StopRaises, StopNothing, hostVars
    <3>9. CASE Faulty
      BY <3>1, <3>9 DEF Faulty, DriverRaises, StartRaisesLate, hostVars
    <3>10. CASE Finished
      BY <3>1, <3>10 DEF Finished, vars, hostVars
    <3> QED
      BY <3>2, <3>3, <3>4, <3>5, <3>6, <3>7, <3>8, <3>9, <3>10 DEF Next, Call, Hosts
  <2> QED BY <2>1 DEF CleanupInv, StoppedInv
<1> QED
  BY <1>1, CleanupCorrect, PTL DEF Spec, SendersStoppedFirst
-----------------------------------------------------------------------------
(* How far past the shared deadline the call can run.                      *)

Slack(k) == (Poll - 1) + k * MaxRead

ClockInv ==
    /\ pc \in {"read_rx", "judge_rx"} => deadline \in Nat /\ now <= deadline + Slack(2 * (i - 1))
    /\ pc \in {"read_tx", "judge_tx"} => deadline \in Nat /\ now <= deadline + Slack(2 * i - 1)
    /\ outcome.kind \in {"returned", "noncompletion"} =>
          deadline \in Nat /\ now <= deadline + Slack(2 * N)

\* One more read costs at most MaxRead.
LEMMA SlackNext ==
    ASSUME NEW k \in Nat, NEW d \in 0..MaxRead, NEW dl \in Nat, NEW t \in Nat,
           t <= dl + Slack(k)
    PROVE  t + d <= dl + Slack(k + 1)
<1>1. k * MaxRead \in Nat /\ (k + 1) * MaxRead = k * MaxRead + MaxRead
  BY TimingAssumption
<1> QED BY <1>1, TimingAssumption DEF Slack

LEMMA SlackMonotone ==
    ASSUME NEW k \in Nat, NEW m \in Nat, k <= m
    PROVE  Slack(k) \in Nat /\ Slack(m) \in Nat /\ Slack(k) <= Slack(m)
<1>1. PICK j \in Nat : m = k + j
  <2>1. m - k \in Nat /\ m = k + (m - k)
    OBVIOUS
  <2> QED BY <2>1
<1>2. m * MaxRead = k * MaxRead + j * MaxRead
  BY <1>1, TimingAssumption
<1>3. k * MaxRead \in Nat /\ j * MaxRead \in Nat
  BY TimingAssumption
<1> QED BY <1>2, <1>3, TimingAssumption DEF Slack

LEMMA ClockInvStep ==
    IndexInv /\ RegisteredInv /\ ClockInv /\ [Next]_vars => ClockInv'
<1> SUFFICES ASSUME IndexInv, RegisteredInv, ClockInv, [Next]_vars PROVE ClockInv'
  OBVIOUS
<1> USE FlowsAssumption, TimingAssumption
<1>0. /\ i \in Nat \ {0} /\ now \in Nat /\ (pc \in Driving => i \in Flow)
      /\ ~Unwinding => outcome.kind = "pending"
  BY DEF IndexInv, TypeOK, RegisteredInv
<1>a. ASSUME UNCHANGED <<pc, i, outcome, now, deadline>> PROVE ClockInv'
  BY <1>a DEF ClockInv
<1>b. ASSUME ~Unwinding, UNCHANGED outcome,
             pc' \in {"done", "start_rx", "count", "start_tx", "window"}
      PROVE  ClockInv'
  BY <1>b, <1>0 DEF ClockInv
<1>c. ASSUME Unwinding, Unwinding', UNCHANGED <<outcome, now, deadline>>
      PROVE  ClockInv'
  BY <1>c DEF ClockInv, Unwinding
<1>1. CASE RejectDuplicatePorts \/ Faulty
  BY <1>1, FaultyUnwinds DEF RejectDuplicatePorts, ClockInv
<1>2. CASE AcceptPorts \/ StartReceiver \/ CountPrior \/ StartSender
  BY <1>b, <1>2 DEF AcceptPorts, StartReceiver, CountPrior, StartSender, Unwinding
<1>3. CASE MeasureWindow
  <2>1. deadline' \in Nat /\ now' <= deadline' /\ now' \in Nat /\ i = 1
    BY <1>3, <1>0 DEF MeasureWindow, IndexInv
  <2>2. 2 * N \in Nat /\ 2 * (i - 1) = 0
    BY <2>1
  <2>3. Slack(2 * N) \in Nat /\ Slack(2 * (i - 1)) \in Nat
    BY <2>2, SlackMonotone
  <2>4. now' <= deadline' + Slack(2 * N) /\ now' <= deadline' + Slack(2 * (i - 1))
    BY <2>1, <2>3
  <2>5. CASE N = 0
    BY <1>3, <2>1, <2>4, <2>5 DEF MeasureWindow, Unwind, ClockInv
  <2>6. CASE N # 0
    BY <1>3, <1>0, <2>1, <2>4, <2>6 DEF MeasureWindow, ClockInv, Unwinding
  <2> QED BY <2>5, <2>6
<1>4. ASSUME NEW s \in Side, ReadLog(s) PROVE ClockInv'
  <2>1. /\ UNCHANGED <<i, outcome, now, deadline>>
        /\ outcome.kind = "pending"
        /\ \/ pc = "read_rx" /\ pc' = "judge_rx"
           \/ pc = "read_tx" /\ pc' = "judge_tx"
    BY <1>4, <1>0 DEF ReadLog, ReadPc, JudgePc, Side, Unwinding
  <2> QED BY <2>1 DEF ClockInv
<1>5. ASSUME NEW s \in Side, KeepPolling(s) PROVE ClockInv'
  <2>1. /\ UNCHANGED <<i, outcome, deadline>>
        /\ outcome.kind = "pending" /\ i \in Flow
        /\ \/ pc = "judge_rx" /\ pc' = "read_rx"
           \/ pc = "judge_tx" /\ pc' = "read_tx"
    BY <1>5, <1>0 DEF KeepPolling, ReadPc, JudgePc, Side, Unwinding, Driving
  <2>2. deadline \in Nat
    BY <2>1 DEF ClockInv
  <2>3. now' <= deadline + (Poll - 1) /\ now' \in Nat
    <3>1. PICK d \in 0..MaxRead : ~Late(now + d) /\ now' = now + d + Poll
      BY <1>5 DEF KeepPolling
    <3> QED BY <3>1, <1>0, <2>2 DEF Late
  <2>4. ASSUME NEW k \in Nat PROVE now' <= deadline + Slack(k)
    <3>1. k * MaxRead \in Nat
      OBVIOUS
    <3> QED BY <2>2, <2>3, <3>1 DEF Slack
  <2>5. 2 * (i - 1) \in Nat /\ 2 * i - 1 \in Nat
    BY <1>0
  <2>6. now' <= deadline + Slack(2 * (i - 1)) /\ now' <= deadline + Slack(2 * i - 1)
    BY <2>4, <2>5
  <2> QED BY <2>1, <2>2, <2>6 DEF ClockInv
<1>d. ASSUME pc \in {"judge_rx", "judge_tx"}, NEW d \in 0..MaxRead, now' = now + d
      PROVE  /\ deadline \in Nat /\ i \in Flow /\ outcome.kind = "pending"
             /\ pc = "judge_rx" => now' <= deadline + Slack(2 * i - 1)
             /\ pc = "judge_tx" => now' <= deadline + Slack(2 * i)
             /\ now' <= deadline + Slack(2 * N)
  <2>1. deadline \in Nat /\ i \in Flow /\ outcome.kind = "pending"
    BY <1>d, <1>0 DEF ClockInv, Unwinding, Driving
  <2>2. 2 * (i - 1) \in Nat /\ 2 * i - 1 \in Nat /\ 2 * N \in Nat /\ 2 * i \in Nat
        /\ 2 * (i - 1) + 1 = 2 * i - 1 /\ (2 * i - 1) + 1 = 2 * i
        /\ 2 * i - 1 <= 2 * N /\ 2 * i <= 2 * N
    BY <2>1, <1>0 DEF Flow
  <2>3. pc = "judge_rx" => now + d <= deadline + Slack(2 * i - 1)
    BY <1>0, <2>1, <2>2, SlackNext DEF ClockInv
  <2>4. pc = "judge_tx" => now + d <= deadline + Slack(2 * i)
    BY <1>0, <2>1, <2>2, SlackNext DEF ClockInv
  <2>5. /\ Slack(2 * i - 1) \in Nat /\ Slack(2 * i) \in Nat /\ Slack(2 * N) \in Nat
        /\ Slack(2 * i - 1) <= Slack(2 * N) /\ Slack(2 * i) <= Slack(2 * N)
    BY <2>2, SlackMonotone
  <2>6. now + d <= deadline + Slack(2 * N)
    BY <1>d, <1>0, <2>1, <2>3, <2>4, <2>5
  <2> QED BY <1>d, <2>1, <2>3, <2>4, <2>6
<1>6. ASSUME NEW s \in Side, NonCompletion(s) PROVE ClockInv'
  <2>1. PICK d \in 0..MaxRead : now' = now + d
    BY <1>6 DEF NonCompletion, Expired
  <2>2. pc \in {"judge_rx", "judge_tx"} /\ deadline' = deadline
    BY <1>6 DEF NonCompletion, JudgePc
  <2>3. deadline \in Nat /\ now' <= deadline + Slack(2 * N)
    BY <1>d, <2>1, <2>2
  <2> QED BY <1>6, <2>2, <2>3 DEF NonCompletion, Unwind, ClockInv
<1>7. CASE ReceiverDone
  <2>1. PICK d \in 0..MaxRead : now' = now + d
    BY <1>7 DEF ReceiverDone
  <2>2. pc = "judge_rx" /\ pc' = "read_tx" /\ UNCHANGED <<deadline, i, outcome>>
    BY <1>7 DEF ReceiverDone
  <2>3. /\ deadline \in Nat /\ now' <= deadline + Slack(2 * i - 1)
        /\ outcome.kind = "pending"
    BY <1>d, <2>1, <2>2
  <2> QED BY <2>2, <2>3 DEF ClockInv
<1>8. CASE SenderDone \/ SenderMissed
  <2>1. PICK d \in 0..MaxRead : now' = now + d
    BY <1>8 DEF SenderDone, SenderMissed, Expired
  <2>2. pc = "judge_tx" /\ deadline' = deadline
    BY <1>8 DEF SenderDone, SenderMissed, Report
  <2>3. /\ deadline \in Nat /\ now' <= deadline + Slack(2 * i)
        /\ now' <= deadline + Slack(2 * N) /\ outcome.kind = "pending"
    BY <1>d, <2>1, <2>2
  <2>4. CASE i < N
    <3>1. pc' = "read_rx" /\ i' = i + 1 /\ outcome' = outcome
      BY <1>8, <2>4 DEF SenderDone, SenderMissed, Report
    <3>2. 2 * (i' - 1) = 2 * i
      BY <3>1, <1>0
    <3>3. now' <= deadline' + Slack(2 * (i' - 1))
      BY <2>2, <2>3, <3>2
    <3> QED BY <2>2, <2>3, <3>1, <3>3 DEF ClockInv
  <2>5. CASE ~(i < N)
    <3>1. pc' = "stop_tx"
      BY <1>8, <2>5 DEF SenderDone, SenderMissed, Report, Unwind
    <3> QED BY <2>2, <2>3, <3>1 DEF ClockInv
  <2> QED BY <2>4, <2>5
<1>9. ASSUME NEW s \in Side, Stop(s) \/ StopRaises(s) \/ StopNothing(s)
      PROVE  ClockInv'
  BY <1>9, <1>c DEF Stop, StopRaises, StopNothing, StopNext, StopPc, Unwinding, Side
<1>10. ASSUME NEW p \in Proc, NEW kind \in {"rated", "unrated"}, Flush(p, kind)
       PROVE  ClockInv'
  BY <1>10, <1>a DEF Flush, callVars
<1>11. CASE UNCHANGED vars
  BY <1>11, <1>a DEF vars, callVars
<1> QED
  BY <1>1, <1>2, <1>3, <1>4, <1>5, <1>6, <1>7, <1>8, <1>9, <1>10, <1>11
     DEF Next, Call, Hosts, Finished

\* The call outlives the shared deadline by less than one poll and one read of
\* each of its 2N logs, however the clock falls.
THEOREM BoundedOverrunCorrect == Spec => []BoundedOverrun
<1>1. Init => ClockInv
  BY DEF Init, ClockInv, Pending
<1>2. ClockInv => BoundedOverrun
  BY DEF ClockInv, BoundedOverrun, Slack
<1>3. IndexInv /\ CleanupInv => IndexInv /\ RegisteredInv
  BY DEF CleanupInv
<1> QED
  BY <1>1, <1>2, <1>3, ClockInvStep, CleanupCorrect, PTL DEF Spec
-----------------------------------------------------------------------------
(* Whose documents the call reports.                                       *)

\* The sessions a log had before the call's own could be in it, once known.
Base(p) == IF p[1] = "rx" THEN prior[p[2]] ELSE 0
Known(p) == IF p[1] = "rx" THEN p[2] <= started ELSE p[2] <= senders

\* A text read from the log of p: its documents are of p, and what it has
\* beyond the sessions counted before ends in a document of this call.
TextOf(p, l) ==
    /\ \A k \in 1..Len(l) : l[k].proc = p
    /\ \/ Sessions(l) = Base(p)
       \/ Sessions(l) = Len(l) /\ LastDoc(l).own

\* The logs: nothing is flushed before its client is launched, and a flushed
\* document is a session of its log unless one before it was cut.  Once the call
\* unwinds it reads them no more.
LogsInv ==
    \A p \in Proc :
        /\ \A k \in 1..Len(log[p]) : log[p][k].proc = p
        /\ p[2] > senders => flushedAt[p] = Never
        /\ Known(p) => TextOf(p, log[p])
        /\ Known(p) /\ flushedAt[p] = Never => Sessions(log[p]) = Base(p)
        /\ Known(p) /\ flushedAt[p] # Never /\ ~CutBefore(log[p]) =>
              Sessions(log[p]) = Len(log[p]) /\ Len(log[p]) > Base(p)
LogInv == ~Unwinding => LogsInv

\* What was read is still what the log holds, unless it came in this instant.
TextInv ==
    /\ \A s \in Side : pc = JudgePc(s) =>
          /\ TextOf(<<s, i>>, text)
          /\ flushedAt[<<s, i>>] # Never /\ flushedAt[<<s, i>>] < now =>
                text = log[<<s, i>>]
    /\ pc \in {"read_tx", "judge_tx"} => TextOf(<<"rx", i>>, rxText)

GoodRow(k, row) ==
    LET receiving == IF flows[k].reverse THEN "tx" ELSE "rx"
        sending == IF flows[k].reverse THEN "rx" ELSE "tx"
    IN /\ row.port = flows[k].port
       /\ row.rate.proc = <<receiving, k>>
       /\ row.rate.own /\ row.rate.kind = "rated"
       /\ \/ row.rtt = NoDoc /\ ~flows[k].reverse
          \/ row.rtt \in Doc /\ row.rtt.own /\ row.rtt.proc = <<sending, k>>

RowsInv ==
    /\ pc \in {"begin", "start_rx", "count", "start_tx", "window"} => results = <<>>
    /\ pc \in {"read_rx", "judge_rx", "read_tx", "judge_tx"} => Len(results) = i - 1
    /\ outcome.kind = "returned" => Len(results) = N
    /\ \A k \in 1..Len(results) : k \in Flow /\ GoodRow(k, results[k])

\* A non-completion is raised past the deadline, so that what is flushed after
\* it does not unmake the fact.
FactInv ==
    outcome.kind = "noncompletion" =>
        /\ outcome.at \in Proc
        /\ deadline \in Nat /\ now >= deadline
        /\ NonCompletionIsAFact

FreshInv == LogInv /\ TextInv /\ RowsInv /\ FactInv

LEMMA NothingToRead == Sessions(<<>>) = 0
<1>1. <<>> \in Seq(Doc) /\ Len(<<>>) = 0
  OBVIOUS
<1>2. \A k \in 1..Len(<<>>) : <<>>[k].kind # "open"
  BY <1>1
<1> QED  BY <1>1, <1>2, AllReadable

LEMMA FreshInvInit == Init => FreshInv
<1> SUFFICES ASSUME Init PROVE FreshInv
  OBVIOUS
<1> USE FlowsAssumption
<1>1. ASSUME NEW p \in Proc, NEW k \in 1..Len(log[p]) PROVE log[p][k].proc = p
  <2>1. PICK kinds \in Priors :
          log = [q \in Proc |-> [j \in 1..Len(kinds[q]) |->
                    [proc |-> q, own |-> FALSE, kind |-> kinds[q][j]]]]
    BY DEF Init
  <2>2. kinds[p] \in Seq(Kind)
    BY PriorAssumption
  <2>3. log[p] = [j \in 1..Len(kinds[p]) |->
                    [proc |-> p, own |-> FALSE, kind |-> kinds[p][j]]]
    BY <2>1
  <2>4. Len(kinds[p]) \in Nat /\ DOMAIN log[p] = 1..Len(kinds[p])
    BY <2>2, <2>3
  <2>5. log \in [Proc -> Seq(Doc)]
    BY IndexInvInit DEF IndexInv, TypeOK
  <2>6. k \in 1..Len(kinds[p])
    BY <2>4, <2>5
  <2> QED  BY <2>3, <2>6
<1>2. LogInv
  BY <1>1 DEF Init, LogInv, LogsInv, Known, Proc, Side, Flow
<1>3. TextInv /\ RowsInv /\ FactInv
  BY DEF Init, TextInv, RowsInv, FactInv, JudgePc, Side, Pending
<1> QED  BY <1>2, <1>3 DEF FreshInv

\* The finally block is not left.
LEMMA UnwindingStays == Unwinding /\ [Next]_vars => Unwinding'
  BY DEF Unwinding, Next, Call, Hosts, Finished, vars, callVars, RejectDuplicatePorts,
         AcceptPorts, StartReceiver, CountPrior, StartSender, MeasureWindow, ReadLog,
         KeepPolling, NonCompletion, ReceiverDone, SenderDone, SenderMissed, Stop,
         StopRaises, StopNothing, StopNext, StopPc, Faulty, DriverRaises, StartRaisesLate,
         StartPc, Unwind, ReadPc, JudgePc, Side, Flush

LEMMA LogInvStep ==
    IndexInv /\ CleanupInv /\ LogInv /\ [Next]_vars => LogInv'
<1> SUFFICES ASSUME IndexInv, RegisteredInv, LiveInv, LogsInv, ~Unwinding, ~Unwinding',
                    [Next]_vars
             PROVE  LogsInv'
  BY UnwindingStays DEF LogInv, CleanupInv
<1> USE FlowsAssumption
<1>0. /\ log \in [Proc -> Seq(Doc)] /\ flushedAt \in [Proc -> Nat \cup {Never}]
      /\ started \in 0..N /\ senders \in 0..N /\ i \in 1..(N + 1)
      /\ prior \in [Flow -> Nat] /\ now \in Nat
      /\ \A s \in Side, f \in Flow : <<s, f>> \in Proc
      /\ \A p \in Proc : p[1] \in Side /\ p[2] \in Flow /\ p = <<p[1], p[2]>>
  BY DEF IndexInv, TypeOK, Proc
<1>a. ASSUME UNCHANGED <<prior, started, senders, log, flushedAt>> PROVE LogsInv'
  BY <1>a DEF LogsInv, Known, TextOf, Base
<1>1. CASE RejectDuplicatePorts \/ AcceptPorts \/ StartReceiver \/ MeasureWindow
  BY <1>1, <1>a DEF RejectDuplicatePorts, AcceptPorts, StartReceiver, MeasureWindow, hostVars
<1>2. CASE CountPrior
  <2>1. /\ pc = "count" /\ i \in Flow /\ started = i - 1 /\ senders = 0
        /\ started' = i /\ UNCHANGED <<senders, log, flushedAt>>
        /\ prior' = [prior EXCEPT ![i] = Sessions(log[<<"rx", i>>])]
    BY <1>2 DEF CountPrior, IndexInv, Driving, RegisteredInv, hostVars
  <2>2. \A p \in Proc : flushedAt[p] = Never
    BY <1>0, <2>1 DEF LogsInv, Flow
  <2>3. ASSUME NEW p \in Proc, Known(p)' PROVE Sessions(log[p]) = Base(p)'
    <3>1. p[1] = "rx" /\ p[2] <= i
      BY <1>0, <2>1, <2>3 DEF Known, Flow, Side
    <3>2. CASE p[2] = i
      BY <1>0, <2>1, <3>1, <3>2 DEF Base
    <3>3. CASE p[2] # i
      <4>1. p[2] <= started /\ prior'[p[2]] = prior[p[2]]
        BY <1>0, <2>1, <3>1, <3>3 DEF Flow
      <4> QED  BY <2>2, <3>1, <4>1 DEF LogsInv, Known, Base
    <3> QED  BY <3>2, <3>3
  <2> QED  BY <2>1, <2>2, <2>3 DEF LogsInv, TextOf
<1>3. CASE StartSender
  <2>1. /\ pc = "start_tx" /\ i \in Flow /\ started = N /\ senders = i - 1
        /\ senders' = i /\ UNCHANGED <<started, prior, flushedAt>>
        /\ log' = [log EXCEPT ![<<"tx", i>>] = <<>>]
    BY <1>3 DEF StartSender, IndexInv, Driving, RegisteredInv
  <2> DEFINE tx == <<"tx", i>>
  <2>2. tx \in Proc /\ log'[tx] = <<>> /\ \A p \in Proc \ {tx} : log'[p] = log[p]
    BY <1>0, <2>1 DEF Side
  <2>3. ASSUME NEW p \in Proc, p # tx
        PROVE  /\ Known(p)' => Known(p)
               /\ p[2] > senders' => p[2] > senders
               /\ Base(p)' = Base(p) /\ log'[p] = log[p]
    BY <1>0, <2>1, <2>2, <2>3 DEF Known, Base, Side, Flow
  <2>4. flushedAt[tx] = Never
    BY <1>0, <2>1, <2>2 DEF LogsInv, Flow
  <2>5. Base(tx)' = 0 /\ Sessions(log'[tx]) = 0 /\ Len(log'[tx]) = 0
    BY <2>2, NothingToRead DEF Base
  <2>6. ASSUME NEW p \in Proc
        PROVE  /\ \A k \in 1..Len(log'[p]) : log'[p][k].proc = p
               /\ p[2] > senders' => flushedAt'[p] = Never
               /\ Known(p)' => TextOf(p, log[p])'
               /\ Known(p)' /\ flushedAt'[p] = Never => Sessions(log'[p]) = Base(p)'
               /\ Known(p)' /\ flushedAt'[p] # Never /\ ~CutBefore(log'[p]) =>
                     Sessions(log'[p]) = Len(log'[p]) /\ Len(log'[p]) > Base(p)'
    <3>1. CASE p = tx
      <4>1. Base(p)' = 0 /\ Sessions(log'[p]) = 0 /\ Len(log'[p]) = 0
        <5>1. p[1] = "tx"
          BY <3>1
        <5>2. Base(p)' = 0
          BY <5>1 DEF Base
        <5> QED  BY <2>5, <3>1, <5>2
      <4>2. 1..Len(log'[p]) = {} /\ flushedAt'[p] = Never
        BY <2>1, <2>4, <3>1, <4>1
      <4> QED  BY <4>1, <4>2 DEF TextOf
    <3>2. CASE p # tx
      BY <2>1, <2>3, <3>2 DEF LogsInv, TextOf
    <3> QED  BY <3>1, <3>2
  <2> QED  BY <2>6 DEF LogsInv
<1>4. ASSUME NEW s \in Side, ReadLog(s) \/ KeepPolling(s) \/ NonCompletion(s)
      PROVE  LogsInv'
  BY <1>4, <1>a DEF ReadLog, KeepPolling, NonCompletion, hostVars
<1>5. CASE ReceiverDone \/ SenderDone \/ SenderMissed
  BY <1>5, <1>a DEF ReceiverDone, SenderDone, SenderMissed, Report, hostVars
<1>6. ASSUME NEW s \in Side, Stop(s) \/ StopRaises(s) \/ StopNothing(s)
      PROVE  LogsInv'
  BY <1>6, <1>a DEF Stop, StopRaises, StopNothing, hostVars
<1>7. CASE Faulty
  BY <1>7, FaultyUnwinds DEF Unwinding
<1>8. ASSUME NEW p \in Proc, NEW kind \in {"rated", "unrated"}, Flush(p, kind)
      PROVE  LogsInv'
  <2> DEFINE d == [proc |-> p, own |-> TRUE, kind |-> kind]
             l == log[p]
             l2 == Append(l, d)
  <2>1. d \in Doc /\ d.own /\ d.proc = p /\ l \in Seq(Doc)
    BY <1>0 DEF Doc, Kind
  <2>2. /\ UNCHANGED <<prior, started, senders>>
        /\ log' = [log EXCEPT ![p] = l2] /\ flushedAt' = [flushedAt EXCEPT ![p] = now]
        /\ p[2] <= senders /\ flushedAt[p] = Never
    <3>1. /\ UNCHANGED <<prior, started, senders>>
          /\ log' = [log EXCEPT ![p] = l2] /\ flushedAt' = [flushedAt EXCEPT ![p] = now]
          /\ Launched(p[2]) /\ flushedAt[p] = Never /\ p[2] \in Flow
      BY <1>0, <1>8 DEF Flush, callVars
    <3>2. <<"tx", p[2]>> \in live => p[2] <= senders
      BY <3>1 DEF LiveInv, Orphan, RegisteredInv
    <3>3. flushedAt[<<"tx", p[2]>>] # Never => p[2] <= senders
      BY <1>0, <3>1 DEF LogsInv, Side, Flow
    <3> QED  BY <3>1, <3>2, <3>3 DEF Launched
  <2>3. Known(p) /\ started = N
    BY <1>0, <2>2 DEF Known, RegisteredInv, Side, Flow
  <2>4. Sessions(l) = Base(p) /\ Sessions(l) <= Len(l)
    BY <2>1, <2>2, <2>3, SessionsType DEF LogsInv
  <2>5. /\ l2 \in Seq(Doc) /\ Len(l2) = Len(l) + 1 /\ l2[Len(l) + 1] = d
        /\ \A k \in 1..Len(l) : l2[k] = l[k]
    BY <2>1
  <2>6. TextOf(p, l2)
    <3>1. \A k \in 1..Len(l2) : l2[k].proc = p
      BY <2>1, <2>5 DEF LogsInv
    <3>2. \/ Sessions(l2) = Sessions(l)
          \/ Sessions(l2) = Len(l) + 1 /\ LastDoc(l2) = d
      BY <2>1, SessionsAppend
    <3> HIDE DEF l2, d
    <3> QED  BY <2>1, <2>4, <2>5, <3>1, <3>2 DEF TextOf
  <2>7. ~CutBefore(l2) => Sessions(l2) = Len(l2) /\ Len(l2) > Base(p)
    <3>1. ~CutBefore(l2) => Sessions(l2) = Len(l2)
      BY <2>5, AllReadable DEF CutBefore
    <3>2. Len(l) \in Nat /\ Base(p) \in Nat /\ Base(p) <= Len(l)
      BY <2>1, <2>4, SessionsType
    <3> HIDE DEF l2, d, l
    <3> QED  BY <2>5, <3>1, <3>2
  <2>8. now # Never
    BY <1>0 DEF Never
  <2>9. \A q \in Proc : /\ Known(q)' <=> Known(q)
                        /\ Base(q)' = Base(q)
    BY <2>2 DEF Known, Base
  <2>10. ASSUME NEW q \in Proc
        PROVE  /\ \A k \in 1..Len(log'[q]) : log'[q][k].proc = q
               /\ q[2] > senders' => flushedAt'[q] = Never
               /\ Known(q)' => TextOf(q, log[q])'
               /\ Known(q)' /\ flushedAt'[q] = Never => Sessions(log'[q]) = Base(q)'
               /\ Known(q)' /\ flushedAt'[q] # Never /\ ~CutBefore(log'[q]) =>
                     Sessions(log'[q]) = Len(log'[q]) /\ Len(log'[q]) > Base(q)'
    <3>1. CASE q = p
      <4>1. log'[q] = l2 /\ flushedAt'[q] = now /\ ~(q[2] > senders')
        BY <1>0, <2>2, <3>1 DEF Flow
      <4>2. TextOf(q, log[q])'
        BY <2>6, <2>9, <3>1, <4>1 DEF TextOf
      <4> HIDE DEF l2
      <4> QED  BY <2>6, <2>7, <2>8, <2>9, <3>1, <4>1, <4>2 DEF TextOf
    <3>2. CASE q # p
      <4>1. log'[q] = log[q] /\ flushedAt'[q] = flushedAt[q]
        BY <1>0, <2>2, <3>2
      <4> QED  BY <2>2, <2>9, <4>1 DEF LogsInv, TextOf
    <3> QED  BY <3>1, <3>2
  <2> QED  BY <2>10 DEF LogsInv
<1>9. CASE UNCHANGED vars
  BY <1>9, <1>a DEF vars, callVars, hostVars
<1> QED
  BY <1>1, <1>2, <1>3, <1>4, <1>5, <1>6, <1>7, <1>8, <1>9
     DEF Next, Call, Hosts, Finished

LEMMA TextInvStep ==
    IndexInv /\ RegisteredInv /\ LogInv /\ TextInv /\ [Next]_vars => TextInv'
<1> SUFFICES ASSUME IndexInv, RegisteredInv, LogInv, TextInv, [Next]_vars
             PROVE  TextInv'
  OBVIOUS
<1> USE FlowsAssumption
<1>0. /\ log \in [Proc -> Seq(Doc)] /\ flushedAt \in [Proc -> Nat \cup {Never}]
      /\ now \in Nat
      /\ \A s \in Side, f \in Flow : <<s, f>> \in Proc
      /\ pc \in Driving => i \in Flow
  BY DEF IndexInv, TypeOK, Proc
<1>a. ASSUME pc' \notin {"judge_rx", "read_tx", "judge_tx"} PROVE TextInv'
  BY <1>a DEF TextInv, JudgePc, Side
<1>1. CASE RejectDuplicatePorts \/ AcceptPorts \/ StartReceiver \/ CountPrior
             \/ StartSender \/ MeasureWindow
  BY <1>1, <1>a DEF RejectDuplicatePorts, AcceptPorts, StartReceiver, CountPrior,
                    StartSender, MeasureWindow, Unwind
<1>2. ASSUME NEW s \in Side, ReadLog(s) PROVE TextInv'
  <2>1. /\ pc = ReadPc(s) /\ pc' = JudgePc(s) /\ text' = log[<<s, i>>]
        /\ UNCHANGED <<i, prior, rxText, now, log, flushedAt>> /\ i \in Flow
    BY <1>0, <1>2 DEF ReadLog, ReadPc, hostVars, Driving, Side
  <2>2. started = N /\ senders = N
    BY <2>1 DEF RegisteredInv, Measuring, ReadPc, Side
  <2>3. <<s, i>> \in Proc /\ Known(<<s, i>>)
    BY <1>0, <2>1, <2>2 DEF Known, Flow
  <2>4. TextOf(<<s, i>>, text)'
    BY <2>1, <2>3 DEF LogInv, LogsInv, TextOf, Base, Unwinding, ReadPc, Side
  <2>5. pc' \in {"read_tx", "judge_tx"} => TextOf(<<"rx", i>>, rxText)'
    BY <2>1 DEF TextInv, TextOf, Base, ReadPc, JudgePc, Side
  <2>6. ASSUME NEW r \in Side, pc' = JudgePc(r) PROVE r = s
    BY <2>1, <2>6 DEF JudgePc, Side
  <2> QED  BY <2>1, <2>4, <2>5, <2>6 DEF TextInv
<1>3. ASSUME NEW s \in Side, KeepPolling(s) PROVE TextInv'
  <2>1. /\ pc = JudgePc(s) /\ pc' = ReadPc(s)
        /\ UNCHANGED <<i, prior, rxText>>
    BY <1>3 DEF KeepPolling
  <2> QED  BY <2>1 DEF TextInv, TextOf, Base, ReadPc, JudgePc, Side
<1>4. CASE ReceiverDone
  <2>1. /\ pc = "judge_rx" /\ pc' = "read_tx" /\ rxText' = text
        /\ UNCHANGED <<i, prior>>
    BY <1>4 DEF ReceiverDone
  <2> QED  BY <2>1 DEF TextInv, TextOf, Base, JudgePc, Side
<1>5. ASSUME NEW s \in Side, NonCompletion(s) PROVE TextInv'
  BY <1>5, <1>a DEF NonCompletion, Unwind
<1>6. CASE SenderDone \/ SenderMissed
  BY <1>6, <1>a DEF SenderDone, SenderMissed, Report, Unwind
<1>7. ASSUME NEW s \in Side, Stop(s) \/ StopRaises(s) \/ StopNothing(s)
      PROVE  TextInv'
  BY <1>7, <1>a DEF Stop, StopRaises, StopNothing, StopNext, StopPc, Side
<1>8. CASE Faulty
  BY <1>8, <1>a, FaultyUnwinds
<1>9. ASSUME NEW p \in Proc, NEW kind \in {"rated", "unrated"}, Flush(p, kind)
      PROVE  TextInv'
  <2>1. /\ UNCHANGED <<pc, i, prior, text, rxText, now>>
        /\ flushedAt[p] = Never /\ flushedAt' = [flushedAt EXCEPT ![p] = now]
        /\ \A q \in Proc \ {p} : log'[q] = log[q]
    BY <1>0, <1>9 DEF Flush, callVars
  <2>2. ASSUME NEW s \in Side, pc' = JudgePc(s)
        PROVE  /\ TextOf(<<s, i>>, text)'
               /\ flushedAt'[<<s, i>>] # Never /\ flushedAt'[<<s, i>>] < now' =>
                     text' = log'[<<s, i>>]
    <3>1. <<s, i>> \in Proc
      BY <1>0, <2>1, <2>2 DEF JudgePc, Driving
    <3>2. TextOf(<<s, i>>, text)'
      BY <2>1, <2>2 DEF TextInv, TextOf, Base
    <3>3. CASE p = <<s, i>>
      BY <1>0, <2>1, <3>1, <3>2, <3>3
    <3>4. CASE p # <<s, i>>
      BY <1>0, <2>1, <2>2, <3>1, <3>2, <3>4 DEF TextInv
    <3> QED  BY <3>3, <3>4
  <2>3. pc' \in {"read_tx", "judge_tx"} => TextOf(<<"rx", i>>, rxText)'
    BY <2>1 DEF TextInv, TextOf, Base
  <2> QED  BY <2>1, <2>2, <2>3 DEF TextInv
<1>10. CASE UNCHANGED vars
  BY <1>10 DEF vars, callVars, hostVars, TextInv, TextOf, Base
<1> QED
  BY <1>1, <1>2, <1>3, <1>4, <1>5, <1>6, <1>7, <1>8, <1>9, <1>10
     DEF Next, Call, Hosts, Finished

\* A text with a session beyond the prior ones ends in this call's own document.
LEMMA NewSessionIsOwn ==
    ASSUME NEW p, NEW l \in Seq(Doc), TextOf(p, l), Base(p) \in Nat,
           HasNewSession(l, Base(p))
    PROVE  /\ LastDoc(l) \in Doc /\ LastDoc(l).own /\ LastDoc(l).proc = p
           /\ LastDoc(l).kind = "rated"
<1>1. Sessions(l) \in 0..Len(l) /\ Sessions(l) > Base(p)
  BY SessionsType DEF HasNewSession
<1>2. Sessions(l) = Len(l) /\ LastDoc(l).own
  BY <1>1 DEF TextOf
<1>3. LastDoc(l) \in Doc /\ Len(l) \in 1..Len(l)
  BY <1>1, SessionsType
<1> QED  BY <1>2, <1>3 DEF TextOf, LastDoc, HasNewSession

LEMMA ReportIsGood ==
    ASSUME IndexInv, TextInv, pc = "judge_tx", NEW tx,
           \/ tx = NoDoc /\ ~flows[i].reverse
           \/ tx \in Doc /\ tx.own /\ tx.proc = <<"tx", i>> /\ tx.kind = "rated"
    PROVE  GoodRow(i, Row(tx))
<1>1. /\ rxText \in Seq(Doc) /\ i \in Flow /\ prior \in [Flow -> Nat]
      /\ flows \in [Flow -> [port : Ports, reverse : BOOLEAN]]
      /\ HasNewSession(rxText, prior[i]) /\ TextOf(<<"rx", i>>, rxText)
  BY DEF IndexInv, TypeOK, TextInv, Driving
<1>2. Base(<<"rx", i>>) = prior[i] /\ prior[i] \in Nat
  BY <1>1 DEF Base
<1>3. /\ LastDoc(rxText) \in Doc /\ LastDoc(rxText).own
      /\ LastDoc(rxText).proc = <<"rx", i>> /\ LastDoc(rxText).kind = "rated"
  BY <1>1, <1>2, NewSessionIsOwn
<1>4. CASE flows[i].reverse
  BY <1>3, <1>4 DEF GoodRow, Row
<1>5. CASE ~flows[i].reverse
  BY <1>3, <1>5 DEF GoodRow, Row
<1> QED  BY <1>4, <1>5

LEMMA RowsInvStep ==
    IndexInv /\ RegisteredInv /\ TextInv /\ RowsInv /\ [Next]_vars => RowsInv'
<1> SUFFICES ASSUME IndexInv, RegisteredInv, TextInv, RowsInv, [Next]_vars
             PROVE  RowsInv'
  OBVIOUS
<1> USE FlowsAssumption
<1>0. /\ pc \in Driving => i \in Flow
      /\ results \in Seq([port : Ports, rate : Doc, rtt : Doc \cup {NoDoc}])
      /\ ~Unwinding => outcome.kind = "pending"
      /\ text \in Seq(Doc) /\ i \in Nat
  BY DEF IndexInv, TypeOK, RegisteredInv
<1>a. ASSUME UNCHANGED <<flows, results>>, pc \in Driving \cup {"begin", "window"},
             \/ UNCHANGED outcome
             \/ outcome'.kind # "returned"
             \/ N = 0 /\ results = <<>>,
             \/ pc' \notin {"read_rx", "judge_rx", "read_tx", "judge_tx"}
             \/ pc = "window" /\ i' = 1
             \/ pc \in {"read_rx", "judge_rx", "read_tx", "judge_tx"} /\ i' = i,
             pc' \in {"begin", "start_rx", "count", "start_tx", "window"} =>
                pc \in {"begin", "start_rx", "count", "start_tx", "window"}
      PROVE  RowsInv'
  BY <1>0, <1>a DEF RowsInv, GoodRow, Unwinding, Driving
<1>1. CASE RejectDuplicatePorts \/ AcceptPorts \/ StartReceiver \/ CountPrior
             \/ StartSender
  BY <1>1, <1>a DEF RejectDuplicatePorts, AcceptPorts, StartReceiver, CountPrior,
                    StartSender, Driving
<1>2. CASE MeasureWindow
  BY <1>2, <1>a DEF MeasureWindow, Unwind, IndexInv, RowsInv
<1>3. ASSUME NEW s \in Side, ReadLog(s) \/ KeepPolling(s) \/ NonCompletion(s)
      PROVE  RowsInv'
  BY <1>3, <1>a DEF ReadLog, KeepPolling, NonCompletion, Unwind, ReadPc, JudgePc,
                    Driving, Side
<1>4. CASE ReceiverDone
  BY <1>4, <1>a DEF ReceiverDone, Driving
<1>5. ASSUME pc = "judge_tx", NEW tx, GoodRow(i, Row(tx)), Report(tx),
             Row(tx) \in [port : Ports, rate : Doc, rtt : Doc \cup {NoDoc}]
      PROVE  RowsInv'
  <2>1. i \in Flow /\ Len(results) = i - 1 /\ outcome.kind = "pending"
    BY <1>0, <1>5 DEF RowsInv, Driving, Unwinding
  <2>2. results' = Append(results, Row(tx)) /\ UNCHANGED flows
    BY <1>5 DEF Report
  <2>3. /\ Len(results') = i /\ results'[i] = Row(tx)
        /\ \A k \in 1..(i - 1) : results'[k] = results[k]
    BY <1>0, <1>5, <2>1, <2>2 DEF Flow
  <2>4. ASSUME NEW k \in 1..Len(results')
        PROVE  k \in Flow /\ GoodRow(k, results[k])'
    <3>1. CASE k = i
      BY <1>5, <2>1, <2>2, <2>3, <3>1 DEF GoodRow
    <3>2. CASE k # i
      <4>1. k \in 1..Len(results) /\ results'[k] = results[k]
        BY <2>1, <2>3, <3>2 DEF Flow
      <4> QED  BY <2>2, <4>1 DEF RowsInv, GoodRow
    <3> QED  BY <3>1, <3>2
  <2>5. CASE i < N
    <3>1. pc' = "read_rx" /\ i' = i + 1 /\ outcome' = outcome
      BY <1>5, <2>5 DEF Report
    <3> QED  BY <2>1, <2>3, <2>4, <3>1 DEF RowsInv, Flow
  <2>6. CASE ~(i < N)
    <3>1. pc' = "stop_tx" /\ i = N
      BY <1>5, <2>1, <2>6 DEF Report, Unwind, Flow
    <3> QED  BY <2>3, <2>4, <3>1 DEF RowsInv
  <2> QED  BY <2>5, <2>6
<1>b. LastDoc(rxText) \in Doc \/ pc # "judge_tx"
  BY <1>0, SessionsType DEF IndexInv, TypeOK, HasNewSession, Driving
<1>6. CASE SenderDone
  <2> DEFINE tx == LastDoc(text)
  <2>1. pc = "judge_tx" /\ HasNewSession(text, 0) /\ Report(tx)
    BY <1>6 DEF SenderDone
  <2>2. TextOf(<<"tx", i>>, text) /\ Base(<<"tx", i>>) = 0
    BY <2>1 DEF TextInv, JudgePc, Base, Side
  <2>3. tx \in Doc /\ tx.own /\ tx.proc = <<"tx", i>> /\ tx.kind = "rated"
    BY <1>0, <2>1, <2>2, NewSessionIsOwn
  <2>4. GoodRow(i, Row(tx))
    BY <2>1, <2>3, ReportIsGood
  <2>5. Row(tx) \in [port : Ports, rate : Doc, rtt : Doc \cup {NoDoc}]
    BY <1>0, <1>b, <2>1, <2>3 DEF Row, IndexInv, TypeOK, Driving
  <2> QED  BY <1>5, <2>1, <2>4, <2>5
<1>7. CASE SenderMissed
  <2>1. pc = "judge_tx" /\ ~flows[i].reverse /\ Report(NoDoc)
    BY <1>7 DEF SenderMissed
  <2>2. GoodRow(i, Row(NoDoc))
    BY <2>1, ReportIsGood
  <2>3. Row(NoDoc) \in [port : Ports, rate : Doc, rtt : Doc \cup {NoDoc}]
    BY <1>0, <1>b, <2>1 DEF Row, IndexInv, TypeOK, Driving
  <2> QED  BY <1>5, <2>1, <2>2, <2>3
<1>8. ASSUME NEW s \in Side, Stop(s) \/ StopRaises(s) \/ StopNothing(s)
      PROVE  RowsInv'
  <2>1. UNCHANGED <<flows, results, outcome>> /\ pc' \in {"stop_tx", "stop_rx", "done"}
    BY <1>8 DEF Stop, StopRaises, StopNothing, StopNext, StopPc, hostVars, Side
  <2> QED  BY <2>1 DEF RowsInv, GoodRow
<1>9. CASE Faulty
  BY <1>9, <1>a, FaultyUnwinds DEF Driving
<1>10. ASSUME UNCHANGED <<pc, i, flows, results, outcome>> PROVE RowsInv'
  BY <1>10 DEF RowsInv, GoodRow
<1>11. ASSUME NEW p \in Proc, NEW kind \in {"rated", "unrated"}, Flush(p, kind)
       PROVE  RowsInv'
  BY <1>10, <1>11 DEF Flush, callVars
<1>12. CASE UNCHANGED vars
  BY <1>10, <1>12 DEF vars, callVars
<1> QED
  BY <1>1, <1>2, <1>3, <1>4, <1>6, <1>7, <1>8, <1>9, <1>11, <1>12
     DEF Next, Call, Hosts, Finished

\* The verdict is about the last text read, and that text is the log unless the
\* document came in after it.
LEMMA VerdictIsAFact ==
    ASSUME IndexInv, RegisteredInv, ClockInv, LogInv, TextInv,
           NEW s \in Side, NonCompletion(s)
    PROVE  FactInv'
<1> USE FlowsAssumption, TimingAssumption
<1> DEFINE p == <<s, i>>
           l == log[p]
<1>1. /\ pc = JudgePc(s) /\ ~HasNewSession(text, Before(s))
      /\ UNCHANGED <<deadline, log, flushedAt>> /\ outcome' = [kind |-> "noncompletion", at |-> p]
  BY DEF NonCompletion, Unwind, hostVars
<1>2. /\ i \in Flow /\ p \in Proc /\ now \in Nat /\ deadline \in Nat
      /\ started = N /\ senders = N /\ l \in Seq(Doc)
      /\ flushedAt[p] \in Nat \cup {Never}
  BY <1>1 DEF JudgePc, Side, IndexInv, TypeOK, Driving, Proc, RegisteredInv,
              Measuring, ClockInv
<1>3. PICK d \in 0..MaxRead : now + d >= deadline /\ now' = now + d
  BY DEF NonCompletion, Expired, Late
<1>4. ASSUME flushedAt[p] # Never, ~(flushedAt[p] + MaxRead >= deadline), ~CutBefore(l)
      PROVE  l[Len(l)].kind = "unrated"
  <2>1. flushedAt[p] < now
    BY <1>2, <1>3, <1>4
  <2>2. text = l
    BY <1>1, <1>4, <2>1 DEF TextInv
  <2>3. Known(p) /\ Base(p) = Before(s)
    BY <1>2 DEF Known, Base, Before, Side, Flow
  <2>4. Sessions(l) = Len(l) /\ Len(l) > Base(p)
    BY <1>1, <1>2, <1>4, <2>3 DEF LogInv, LogsInv, Unwinding, JudgePc, Side
  <2>5. l[Len(l)].kind # "rated"
    BY <1>1, <2>2, <2>3, <2>4 DEF HasNewSession, LastDoc
  <2>6. Base(p) \in Nat
    BY <1>2 DEF Base, IndexInv, TypeOK
  <2>7. Len(l) \in 1..Len(l)
    BY <1>2, <2>4, <2>6
  <2>8. l[Len(l)].kind \in Kind /\ l[Len(l)].kind # "open"
    <3>1. l[Len(l)] \in Doc
      BY <1>2, <2>7
    <3>2. l[Len(l)].kind # "open"
      BY <1>4, <2>7 DEF CutBefore
    <3> QED  BY <3>1, <3>2 DEF Doc
  <2> QED  BY <2>5, <2>8 DEF Kind
<1>5. NonCompletionIsAFact'
  BY <1>1, <1>4 DEF NonCompletionIsAFact
<1> QED  BY <1>1, <1>2, <1>3, <1>5 DEF FactInv

LEMMA FactInvStep ==
    IndexInv /\ RegisteredInv /\ ClockInv /\ FreshInv /\ [Next]_vars => FactInv'
<1> SUFFICES ASSUME IndexInv, RegisteredInv, ClockInv, FreshInv, [Next]_vars
             PROVE  FactInv'
  OBVIOUS
<1>a. ASSUME outcome'.kind # "noncompletion" PROVE FactInv'
  BY <1>a DEF FactInv
<1>b. ASSUME UNCHANGED <<outcome, deadline, now, log, flushedAt>> PROVE FactInv'
  BY <1>b DEF FactInv, FreshInv, NonCompletionIsAFact, CutBefore
<1>0. ~Unwinding => outcome.kind = "pending"
  BY DEF RegisteredInv
<1>1. CASE RejectDuplicatePorts \/ AcceptPorts \/ StartReceiver \/ CountPrior
             \/ StartSender \/ MeasureWindow
  BY <1>0, <1>1, <1>a DEF RejectDuplicatePorts, AcceptPorts, StartReceiver, CountPrior,
                    StartSender, MeasureWindow, Unwind, Unwinding
<1>2. ASSUME NEW s \in Side, ReadLog(s) \/ KeepPolling(s) PROVE FactInv'
  BY <1>0, <1>2, <1>a DEF ReadLog, KeepPolling, ReadPc, JudgePc, Unwinding, Side
<1>3. ASSUME NEW s \in Side, NonCompletion(s) PROVE FactInv'
  BY <1>3, VerdictIsAFact DEF FreshInv
<1>4. CASE ReceiverDone \/ SenderDone \/ SenderMissed
  BY <1>0, <1>4, <1>a DEF ReceiverDone, SenderDone, SenderMissed, Report, Unwind, Unwinding
<1>5. ASSUME NEW s \in Side, Stop(s) \/ StopRaises(s) \/ StopNothing(s)
      PROVE  FactInv'
  BY <1>5, <1>b DEF Stop, StopRaises, StopNothing, hostVars
<1>6. CASE Faulty
  BY <1>6, <1>a, FaultyUnwinds
<1>7. ASSUME NEW p \in Proc, NEW kind \in {"rated", "unrated"}, Flush(p, kind),
             outcome.kind = "noncompletion"
      PROVE  FactInv'
  <2> DEFINE q == outcome.at
  <2>1. /\ q \in Proc /\ deadline \in Nat /\ now >= deadline /\ now \in Nat
        /\ NonCompletionIsAFact
        /\ flushedAt \in [Proc -> Nat \cup {Never}] /\ log \in [Proc -> Seq(Doc)]
    BY <1>7 DEF FreshInv, FactInv, IndexInv, TypeOK
  <2>2. /\ UNCHANGED <<outcome, deadline, now>>
        /\ flushedAt' = [flushedAt EXCEPT ![p] = now]
        /\ \A r \in Proc \ {p} : log'[r] = log[r]
    BY <1>7, <2>1 DEF Flush, callVars
  <2>3. CASE q = p
    <3>1. flushedAt'[q] = now /\ now + MaxRead >= deadline
      BY <2>1, <2>2, <2>3, TimingAssumption
    <3> QED  BY <2>1, <2>2, <3>1 DEF FactInv, NonCompletionIsAFact
  <2>4. CASE q # p
    <3>1. flushedAt'[q] = flushedAt[q] /\ log'[q] = log[q]
      BY <2>1, <2>2, <2>4
    <3> QED  BY <1>7, <2>1, <2>2, <3>1 DEF FactInv, NonCompletionIsAFact
  <2> QED  BY <2>3, <2>4
<1>8. ASSUME NEW p \in Proc, NEW kind \in {"rated", "unrated"}, Flush(p, kind)
      PROVE  FactInv'
  BY <1>7, <1>8, <1>a DEF Flush, callVars
<1>9. CASE UNCHANGED vars
  BY <1>9, <1>b DEF vars, callVars, hostVars
<1> QED
  BY <1>1, <1>2, <1>3, <1>4, <1>5, <1>6, <1>8, <1>9 DEF Next, Call, Hosts, Finished

LEMMA FreshCorrect == Spec => []FreshInv
<1>1. Init => ClockInv /\ FreshInv
  <2>1. Init => ClockInv
    BY DEF Init, ClockInv, Pending
  <2> QED  BY <2>1, FreshInvInit
<1>2. IndexInv /\ CleanupInv /\ ClockInv /\ FreshInv /\ [Next]_vars =>
         ClockInv' /\ FreshInv'
  BY ClockInvStep, LogInvStep, TextInvStep, RowsInvStep, FactInvStep
     DEF CleanupInv, FreshInv
<1> QED
  BY <1>1, <1>2, CleanupCorrect, PTL DEF Spec

\* The rows of a call are of its own sessions, each of the side it speaks of,
\* over any prior logs and whatever the hosts flush when.
THEOREM RowsOfThisCallCorrect == Spec => []RowsOfThisCall
<1>1. FreshInv => RowsOfThisCall
  BY DEF FreshInv, RowsInv, GoodRow, RowsOfThisCall
<1> QED  BY <1>1, FreshCorrect, PTL

\* A non-completion names a log that held no readable rated session of this
\* call one read before the deadline.
THEOREM NonCompletionIsAFactCorrect == Spec => []NonCompletionIsAFact
<1>1. FreshInv => NonCompletionIsAFact
  BY DEF FreshInv, FactInv, NonCompletionIsAFact
<1> QED  BY <1>1, FreshCorrect, PTL
-----------------------------------------------------------------------------
(* The refinement of MeasureFn.                                            *)

Rated(p) == "rated" \in OwnKinds(log[p])

\* The sessions behind a row, all of which have completed.
ConfirmedFlow(k) == Rated(<<"rx", k>>) /\ (flows[k].reverse => Rated(<<"tx", k>>))

Session(p) == [proc |-> p, own |-> TRUE, kind |-> "rated"]

ConfirmedRow(k, row) ==
    IF flows[k].reverse
    THEN row = [port |-> flows[k].port, rate |-> Session(<<"tx", k>>),
                rtt |-> Session(<<"rx", k>>)]
    ELSE \/ row = [port |-> flows[k].port, rate |-> Session(<<"rx", k>>), rtt |-> NoDoc]
         \/ /\ Rated(<<"tx", k>>)
            /\ row = [port |-> flows[k].port, rate |-> Session(<<"rx", k>>),
                      rtt |-> Session(<<"tx", k>>)]

\* A process that has not flushed has no document of this call in its log.
OwnInv == \A p \in Proc : flushedAt[p] = Never => OwnKinds(log[p]) = {}

\* A text that holds a new session was read from a log that holds it too.
ReadInv ==
    /\ \A s \in Side : pc = JudgePc(s) /\ HasNewSession(text, Before(s)) => Rated(<<s, i>>)
    /\ pc \in {"read_tx", "judge_tx"} => Rated(<<"rx", i>>)

\* The rows gathered so far, and the flow that a non-completion is raised for.
AnswerInv ==
    /\ \A k \in 1..Len(results) : ConfirmedFlow(k) /\ ConfirmedRow(k, results[k])
    /\ outcome.kind = "noncompletion" =>
          \E s \in Side, k \in Flow :
             /\ outcome.at = <<s, k>> /\ k = Len(results) + 1
             /\ s = "tx" => flows[k].reverse /\ Rated(<<"rx", k>>)

\* How a call may have ended.
EndInv ==
    /\ Unwinding <=> outcome.kind # "pending"
    /\ pc = "begin" \/ outcome.kind = "value_error" \/ UniquePorts
    /\ outcome.kind = "value_error" => pc = "done"
    /\ outcome.kind = "returned" => outcome.at = <<"none", 0>>
    /\ outcome.kind = "driver_error" => outcome.at \in Proc

PromiseInv == OwnInv /\ ReadInv /\ AnswerInv /\ EndInv

LEMMA OwnAppended ==
    ASSUME NEW l \in Seq(Doc), NEW d \in Doc, d.own
    PROVE  OwnKinds(Append(l, d)) = OwnKinds(l) \cup {d.kind}
<1> DEFINE m == Append(l, d)
<1>1. /\ Len(m) = Len(l) + 1 /\ m[Len(l) + 1] = d /\ Len(l) \in Nat
      /\ \A n \in 1..Len(l) : m[n] = l[n]
  OBVIOUS
<1> HIDE DEF m
<1>2. ASSUME NEW x \in OwnKinds(m) PROVE x \in OwnKinds(l) \cup {d.kind}
  <2>1. PICK n \in 1..Len(m) : m[n].own /\ x = m[n].kind
    BY DEF OwnKinds
  <2>2. n = Len(l) + 1 \/ n \in 1..Len(l)
    BY <1>1
  <2> QED  BY <1>1, <2>1, <2>2 DEF OwnKinds
<1>3. ASSUME NEW x \in OwnKinds(l) \cup {d.kind} PROVE x \in OwnKinds(m)
  <2>1. CASE x = d.kind
    <3>1. Len(l) + 1 \in 1..Len(m)
      BY <1>1
    <3> QED  BY <1>1, <2>1, <3>1 DEF OwnKinds
  <2>2. CASE x \in OwnKinds(l)
    <3>1. PICK n \in 1..Len(l) : l[n].own /\ x = l[n].kind
      BY <2>2 DEF OwnKinds
    <3>2. n \in 1..Len(m) /\ m[n] = l[n]
      BY <1>1
    <3> QED  BY <3>1, <3>2 DEF OwnKinds
  <2> QED  BY <1>3, <2>1, <2>2
<1>4. OwnKinds(m) = OwnKinds(l) \cup {d.kind}
  BY <1>2, <1>3
<1> QED  BY <1>4 DEF m

\* The launch of a client clears a log that holds nothing of this call yet.
LEMMA LaunchKeepsOwn ==
    ASSUME IndexInv, RegisteredInv, LogInv, OwnInv,
           pc = "start_tx", log' = [log EXCEPT ![<<"tx", i>>] = <<>>]
    PROVE  \A p \in Proc : OwnKinds(log'[p]) = OwnKinds(log[p])
<1> DEFINE tx == <<"tx", i>>
<1>1. /\ tx \in Proc /\ flushedAt[tx] = Never /\ log \in [Proc -> Seq(Doc)]
      /\ log' = [log EXCEPT ![tx] = <<>>]
  BY FlowsAssumption DEF IndexInv, TypeOK, Driving, RegisteredInv, LogInv, LogsInv, Unwinding,
                         Proc, Side, Flow
<1>2. OwnKinds(<<>>) = {}
  BY DEF OwnKinds
<1>3. log'[tx] = <<>> /\ \A p \in Proc \ {tx} : log'[p] = log[p]
  BY <1>1
<1>4. OwnKinds(log[tx]) = {}
  BY <1>1 DEF OwnInv
<1>5. ASSUME NEW p \in Proc PROVE OwnKinds(log'[p]) = OwnKinds(log[p])
  <2>1. CASE p = tx
    BY <1>2, <1>3, <1>4, <2>1
  <2>2. CASE p # tx
    BY <1>3, <2>2
  <2> QED  BY <2>1, <2>2
<1> QED  BY <1>5

\* So does a launch that raises.
LEMMA FaultyKeepsOwn ==
    ASSUME IndexInv, RegisteredInv, LogInv, OwnInv, Faulty
    PROVE  \A p \in Proc : OwnKinds(log'[p]) = OwnKinds(log[p])
<1>1. CASE log' = log
  BY <1>1
<1>2. CASE pc = "start_tx" /\ log' = [log EXCEPT ![<<"tx", i>>] = <<>>]
  BY <1>2, LaunchKeepsOwn
<1>3. ASSUME NEW s \in Side, StartRaisesLate(s)
      PROVE  \/ log' = log
             \/ pc = "start_tx" /\ log' = [log EXCEPT ![<<"tx", i>>] = <<>>]
  BY <1>3 DEF StartRaisesLate, StartPc, Side
<1>4. CASE ~\E s \in Side : StartRaisesLate(s)
  BY <1>4 DEF Faulty, DriverRaises, hostVars
<1> QED  BY <1>1, <1>2, <1>3, <1>4

\* What the log of a process holds of this call: a flush adds to it.
LEMMA OwnStep ==
    ASSUME IndexInv, RegisteredInv, LogInv, OwnInv, [Next]_vars
    PROVE  OwnInv' /\ \A p \in Proc : OwnKinds(log[p]) \subseteq OwnKinds(log'[p])
<1> USE FlowsAssumption
<1>0. /\ log \in [Proc -> Seq(Doc)] /\ flushedAt \in [Proc -> Nat \cup {Never}]
      /\ now \in Nat
  BY DEF IndexInv, TypeOK
<1>a. ASSUME UNCHANGED <<log, flushedAt>>
      PROVE  OwnInv' /\ \A p \in Proc : OwnKinds(log[p]) \subseteq OwnKinds(log'[p])
  BY <1>a DEF OwnInv
<1>1. CASE StartSender
  <2>1. UNCHANGED flushedAt /\ \A p \in Proc : OwnKinds(log'[p]) = OwnKinds(log[p])
    BY <1>1, LaunchKeepsOwn DEF StartSender
  <2> QED  BY <2>1 DEF OwnInv
<1>2. ASSUME NEW p \in Proc, NEW kind \in {"rated", "unrated"}, Flush(p, kind)
      PROVE  OwnInv' /\ \A q \in Proc : OwnKinds(log[q]) \subseteq OwnKinds(log'[q])
  <2> DEFINE d == [proc |-> p, own |-> TRUE, kind |-> kind]
  <2>1. d \in Doc /\ d.own /\ log[p] \in Seq(Doc)
    BY <1>0 DEF Doc, Kind
  <2>2. OwnKinds(Append(log[p], d)) = OwnKinds(log[p]) \cup {d.kind}
    BY <2>1, OwnAppended
  <2>3. /\ log' = [log EXCEPT ![p] = Append(log[p], d)]
        /\ flushedAt' = [flushedAt EXCEPT ![p] = now]
    BY <1>2 DEF Flush
  <2>4. /\ log'[p] = Append(log[p], d) /\ flushedAt'[p] # Never
        /\ \A q \in Proc \ {p} : log'[q] = log[q] /\ flushedAt'[q] = flushedAt[q]
    BY <1>0, <2>3 DEF Never
  <2> HIDE DEF d
  <2> QED  BY <2>2, <2>4 DEF OwnInv
<1>3. CASE RejectDuplicatePorts \/ AcceptPorts \/ StartReceiver \/ CountPrior \/ MeasureWindow
  BY <1>3, <1>a DEF RejectDuplicatePorts, AcceptPorts, StartReceiver, CountPrior,
                    MeasureWindow, hostVars
<1>4. ASSUME NEW s \in Side, ReadLog(s) \/ KeepPolling(s) \/ NonCompletion(s)
      PROVE  UNCHANGED <<log, flushedAt>>
  BY <1>4 DEF ReadLog, KeepPolling, NonCompletion, hostVars
<1>5. CASE ReceiverDone \/ SenderDone \/ SenderMissed
  BY <1>5, <1>a DEF ReceiverDone, SenderDone, SenderMissed, Report, hostVars
<1>6. ASSUME NEW s \in Side, Stop(s) \/ StopRaises(s) \/ StopNothing(s)
      PROVE  UNCHANGED <<log, flushedAt>>
  BY <1>6 DEF Stop, StopRaises, StopNothing, hostVars
<1>7. CASE Faulty
  <2>1. UNCHANGED flushedAt /\ \A p \in Proc : OwnKinds(log'[p]) = OwnKinds(log[p])
    BY <1>7, FaultyKeepsOwn, FaultyUnwinds
  <2> QED  BY <2>1 DEF OwnInv
<1>8. CASE UNCHANGED vars
  BY <1>8, <1>a DEF vars, hostVars
<1> QED
  BY <1>a, <1>1, <1>2, <1>3, <1>4, <1>5, <1>6, <1>7, <1>8
     DEF Next, Call, Hosts, Finished

LEMMA FlowsStay == [Next]_vars => flows' = flows
  BY DEF Next, Call, Hosts, Finished, vars, callVars, RejectDuplicatePorts, AcceptPorts,
         StartReceiver, CountPrior, StartSender, MeasureWindow, ReadLog, KeepPolling,
         NonCompletion, ReceiverDone, SenderDone, SenderMissed, Report, Stop, StopRaises,
         StopNothing, Faulty, DriverRaises, StartRaisesLate, Flush

LEMMA ReadIsRated ==
    ASSUME NEW p \in Proc, NEW l \in Seq(Doc), l = log[p], TextOf(p, l), Base(p) \in Nat,
           HasNewSession(l, Base(p))
    PROVE  Rated(p)
<1>1. LastDoc(l).own /\ LastDoc(l).kind = "rated"
  BY NewSessionIsOwn
<1>2. Sessions(l) \in 1..Len(l)
  BY SessionsType DEF HasNewSession
<1> QED  BY <1>1, <1>2 DEF Rated, OwnKinds, LastDoc

\* What the call has read of a session is there to be read again.
LEMMA ReadInvStep ==
    ASSUME IndexInv, RegisteredInv, LogInv, TextInv, OwnInv, ReadInv, [Next]_vars
    PROVE  ReadInv'
<1> USE FlowsAssumption
<1>0. /\ log \in [Proc -> Seq(Doc)] /\ prior \in [Flow -> Nat]
      /\ pc \in Driving => i \in Flow
      /\ \A s \in Side, f \in Flow : <<s, f>> \in Proc
  BY DEF IndexInv, TypeOK, Proc
<1>g. \A p \in Proc : "rated" \in OwnKinds(log[p]) => "rated" \in OwnKinds(log'[p])
  BY OwnStep
<1>a. ASSUME pc' \notin {"judge_rx", "read_tx", "judge_tx"} PROVE ReadInv'
  BY <1>a DEF ReadInv, JudgePc, Side
<1>1. CASE RejectDuplicatePorts \/ AcceptPorts \/ StartReceiver \/ CountPrior
             \/ StartSender \/ MeasureWindow
  BY <1>1, <1>a DEF RejectDuplicatePorts, AcceptPorts, StartReceiver, CountPrior,
                    StartSender, MeasureWindow, Unwind
<1>2. ASSUME NEW s \in Side, ReadLog(s) PROVE ReadInv'
  <2> DEFINE p == <<s, i>>
  <2>1. /\ pc = ReadPc(s) /\ pc' = JudgePc(s) /\ text' = log[p]
        /\ UNCHANGED <<i, prior, log>> /\ i \in Flow
    BY <1>0, <1>2 DEF ReadLog, ReadPc, hostVars, Driving, Side
  <2>2. started = N /\ senders = N
    BY <2>1 DEF RegisteredInv, Measuring, ReadPc, Side
  <2>3. p \in Proc /\ Known(p) /\ log[p] \in Seq(Doc) /\ TextOf(p, log[p])
    BY <1>0, <2>1, <2>2 DEF Known, Flow, LogInv, LogsInv, Unwinding, ReadPc, Side
  <2>4. Base(p) = Before(s) /\ Before(s)' = Before(s) /\ Base(p) \in Nat
    BY <1>0, <2>1 DEF Base, Before, Side
  <2>5. HasNewSession(log[p], Base(p)) => Rated(p)
    BY <2>3, <2>4, ReadIsRated
  <2>6. s = "tx" => Rated(<<"rx", i>>)
    BY <2>1 DEF ReadInv, ReadPc
  <2>7. \A r \in Side : pc' = JudgePc(r) => r = s
    BY <2>1 DEF JudgePc, Side
  <2>8. pc' \in {"read_tx", "judge_tx"} => s = "tx"
    BY <2>1 DEF JudgePc, Side
  <2>9. (Rated(p)' <=> Rated(p)) /\ (Rated(<<"rx", i>>)' <=> Rated(<<"rx", i>>))
    BY <2>1 DEF Rated
  <2>10. HasNewSession(text', Before(s)') => Rated(<<s, i>>)'
    BY <2>1, <2>4, <2>5, <2>9
  <2> QED  BY <2>1, <2>6, <2>7, <2>8, <2>9, <2>10 DEF ReadInv
<1>3. ASSUME NEW s \in Side, KeepPolling(s) PROVE ReadInv'
  <2>1. /\ pc = JudgePc(s) /\ pc' = ReadPc(s) /\ UNCHANGED <<i, log>>
    BY <1>3 DEF KeepPolling, hostVars
  <2> QED  BY <2>1 DEF ReadInv, Rated, ReadPc, JudgePc, Side
<1>4. CASE ReceiverDone
  <2>1. /\ pc = "judge_rx" /\ pc' = "read_tx" /\ UNCHANGED <<i, log>>
        /\ HasNewSession(text, Before("rx"))
    BY <1>4 DEF ReceiverDone, Before, hostVars
  <2> QED  BY <2>1 DEF ReadInv, Rated, JudgePc, Side
<1>5. ASSUME NEW s \in Side, NonCompletion(s) PROVE ReadInv'
  BY <1>5, <1>a DEF NonCompletion, Unwind
<1>6. CASE SenderDone \/ SenderMissed
  BY <1>6, <1>a DEF SenderDone, SenderMissed, Report, Unwind
<1>7. ASSUME NEW s \in Side, Stop(s) \/ StopRaises(s) \/ StopNothing(s)
      PROVE  ReadInv'
  BY <1>7, <1>a DEF Stop, StopRaises, StopNothing, StopNext, StopPc, Side
<1>8. CASE Faulty
  BY <1>8, <1>a, FaultyUnwinds
<1>9. ASSUME UNCHANGED <<pc, i, prior, text>> PROVE ReadInv'
  <2>1. \A s \in Side : i \in Flow /\ Rated(<<s, i>>) => Rated(<<s, i>>)'
    BY <1>0, <1>g, <1>9 DEF Rated
  <2>2. ASSUME NEW s \in Side, pc' = JudgePc(s), HasNewSession(text', Before(s)')
        PROVE  Rated(<<s, i>>)'
    <3>1. Before(s)' = Before(s)
      BY <1>9 DEF Before
    <3>2. pc = JudgePc(s) /\ i \in Flow
      BY <1>0, <1>9, <2>2 DEF JudgePc, Driving
    <3>3. Rated(<<s, i>>)
      BY <1>9, <2>2, <3>1, <3>2 DEF ReadInv
    <3> QED  BY <2>1, <3>2, <3>3
  <2>3. pc' \in {"read_tx", "judge_tx"} => Rated(<<"rx", i>>)'
    BY <1>0, <1>9, <2>1 DEF ReadInv, Driving, Side
  <2> QED  BY <2>2, <2>3 DEF ReadInv
<1>10. ASSUME NEW p \in Proc, NEW kind \in {"rated", "unrated"}, Flush(p, kind)
      PROVE  ReadInv'
  BY <1>9, <1>10 DEF Flush, callVars
<1>11. CASE UNCHANGED vars
  BY <1>9, <1>11 DEF vars, callVars
<1> QED
  BY <1>1, <1>2, <1>3, <1>4, <1>5, <1>6, <1>7, <1>8, <1>10, <1>11
     DEF Next, Call, Hosts, Finished

LEMMA OwnSession ==
    ASSUME NEW d \in Doc, d.own, d.kind = "rated"
    PROVE  d = Session(d.proc)
  BY DEF Doc, Session

\* A row is appended once the sessions it is made of have completed.
LEMMA ReportIsConfirmed ==
    ASSUME IndexInv, TextInv, ReadInv, pc = "judge_tx", NEW tx,
           \/ tx = NoDoc /\ ~flows[i].reverse
           \/ tx = Session(<<"tx", i>>) /\ Rated(<<"tx", i>>)
    PROVE  ConfirmedFlow(i) /\ ConfirmedRow(i, Row(tx))
<1>1. /\ rxText \in Seq(Doc) /\ i \in Flow /\ prior[i] \in Nat
      /\ HasNewSession(rxText, prior[i]) /\ TextOf(<<"rx", i>>, rxText)
      /\ Base(<<"rx", i>>) = prior[i]
  BY DEF IndexInv, TypeOK, TextInv, Driving, Base
<1>2. /\ LastDoc(rxText) \in Doc /\ LastDoc(rxText).own
      /\ LastDoc(rxText).proc = <<"rx", i>> /\ LastDoc(rxText).kind = "rated"
  BY <1>1, NewSessionIsOwn
<1>3. LastDoc(rxText) = Session(<<"rx", i>>)
  BY <1>2, OwnSession
<1>4. Rated(<<"rx", i>>)
  BY DEF ReadInv
<1>5. ConfirmedFlow(i)
  BY <1>4 DEF ConfirmedFlow
<1>6. ConfirmedRow(i, Row(tx))
  BY <1>3 DEF ConfirmedRow, Row
<1> QED  BY <1>5, <1>6

LEMMA AnswerInvStep ==
    ASSUME IndexInv, RegisteredInv, LogInv, TextInv, RowsInv, OwnInv, ReadInv, AnswerInv,
           [Next]_vars
    PROVE  AnswerInv'
<1> USE FlowsAssumption
<1>0. /\ pc \in Driving => i \in Flow /\ i \in Nat
      /\ results \in Seq([port : Ports, rate : Doc, rtt : Doc \cup {NoDoc}])
      /\ ~Unwinding => outcome.kind = "pending"
      /\ text \in Seq(Doc) /\ Len(results) \in Nat
  BY DEF IndexInv, TypeOK, RegisteredInv, Flow
<1>b. /\ \A k \in Flow, s \in Side : Rated(<<s, k>>) => Rated(<<s, k>>)'
      /\ flows' = flows
  BY OwnStep, FlowsStay DEF Rated, Proc
<1>c. ASSUME NEW k \in Flow, NEW row, ConfirmedFlow(k), ConfirmedRow(k, row),
             results'[k] = row
      PROVE  ConfirmedFlow(k)' /\ ConfirmedRow(k, results[k])'
  BY <1>b, <1>c DEF ConfirmedFlow, ConfirmedRow, Side
<1>a. ASSUME UNCHANGED results,
             \/ UNCHANGED outcome
             \/ outcome'.kind # "noncompletion"
             \/ \E s \in Side : /\ outcome' = [kind |-> "noncompletion", at |-> <<s, i>>]
                                /\ i \in Flow /\ i = Len(results) + 1
                                /\ s = "tx" => flows[i].reverse /\ Rated(<<"rx", i>>)
      PROVE  AnswerInv'
  <2>1. ASSUME NEW k \in 1..Len(results')
        PROVE  ConfirmedFlow(k)' /\ ConfirmedRow(k, results[k])'
    <3>1. k \in Flow /\ ConfirmedFlow(k) /\ ConfirmedRow(k, results[k])
      BY <1>a, <2>1 DEF RowsInv, AnswerInv
    <3> QED  BY <1>a, <1>c, <3>1
  <2>2. ASSUME outcome'.kind = "noncompletion"
        PROVE  \E s \in Side, k \in Flow :
                  /\ outcome'.at = <<s, k>> /\ k = Len(results') + 1
                  /\ s = "tx" => flows'[k].reverse /\ Rated(<<"rx", k>>)'
    <3>1. PICK s \in Side, k \in Flow :
             /\ outcome'.at = <<s, k>> /\ k = Len(results) + 1
             /\ s = "tx" => flows[k].reverse /\ Rated(<<"rx", k>>)
      <4>1. CASE UNCHANGED outcome
        BY <2>2, <4>1 DEF AnswerInv
      <4>2. CASE ~UNCHANGED outcome
        BY <1>a, <2>2, <4>2
      <4> QED  BY <4>1, <4>2
    <3>2. s = "tx" => flows'[k].reverse /\ Rated(<<"rx", k>>)'
      BY <1>b, <3>1 DEF Side
    <3> QED  BY <1>a, <3>1, <3>2
  <2> QED  BY <2>1, <2>2 DEF AnswerInv
<1>1. CASE RejectDuplicatePorts \/ AcceptPorts \/ StartReceiver \/ CountPrior
             \/ StartSender \/ MeasureWindow
  BY <1>1, <1>a DEF RejectDuplicatePorts, AcceptPorts, StartReceiver, CountPrior,
                    StartSender, MeasureWindow, Unwind
<1>2. ASSUME NEW s \in Side, ReadLog(s) \/ KeepPolling(s) PROVE AnswerInv'
  BY <1>2, <1>a DEF ReadLog, KeepPolling
<1>3. ASSUME NEW s \in Side, NonCompletion(s) PROVE AnswerInv'
  <2>1. /\ pc = JudgePc(s) /\ outcome' = [kind |-> "noncompletion", at |-> <<s, i>>]
        /\ UNCHANGED results /\ (s = "tx" => flows[i].reverse)
    BY <1>3 DEF NonCompletion, Unwind
  <2>2. i \in Flow /\ i = Len(results) + 1
    BY <1>0, <2>1 DEF RowsInv, JudgePc, Driving, Side
  <2>3. s = "tx" => Rated(<<"rx", i>>)
    BY <2>1 DEF ReadInv, JudgePc
  <2> QED  BY <1>a, <2>1, <2>2, <2>3
<1>4. CASE ReceiverDone
  BY <1>4, <1>a DEF ReceiverDone
<1>5. ASSUME NEW tx, pc = "judge_tx", Report(tx), ConfirmedFlow(i), ConfirmedRow(i, Row(tx))
      PROVE  AnswerInv'
  <2>1. i \in Flow /\ Len(results) = i - 1 /\ results' = Append(results, Row(tx))
    BY <1>0, <1>5 DEF RowsInv, Driving, Report
  <2>2. /\ Len(results') = i /\ results'[i] = Row(tx)
        /\ \A k \in 1..(i - 1) : results'[k] = results[k]
    BY <1>0, <2>1 DEF Flow
  <2>3. ASSUME NEW k \in 1..Len(results')
        PROVE  ConfirmedFlow(k)' /\ ConfirmedRow(k, results[k])'
    <3>1. CASE k = i
      BY <1>5, <1>c, <2>1, <2>2, <3>1
    <3>2. CASE k # i
      <4>1. k \in 1..Len(results) /\ results'[k] = results[k]
        BY <2>1, <2>2, <3>2 DEF Flow
      <4>2. k \in Flow /\ ConfirmedFlow(k) /\ ConfirmedRow(k, results[k])
        BY <4>1 DEF RowsInv, AnswerInv
      <4> QED  BY <1>c, <4>1, <4>2
    <3> QED  BY <3>1, <3>2
  <2>4. outcome'.kind # "noncompletion"
    BY <1>0, <1>5 DEF Report, Unwind, Unwinding
  <2> QED  BY <2>3, <2>4 DEF AnswerInv
<1>6. CASE SenderDone
  <2>1. pc = "judge_tx" /\ HasNewSession(text, 0) /\ Report(LastDoc(text))
    BY <1>6 DEF SenderDone
  <2>2. /\ TextOf(<<"tx", i>>, text) /\ Base(<<"tx", i>>) = 0
        /\ Rated(<<"tx", i>>)
    BY <2>1 DEF TextInv, ReadInv, JudgePc, Before, Base, Side
  <2>3. LastDoc(text) \in Doc /\ LastDoc(text).own /\ LastDoc(text).kind = "rated"
        /\ LastDoc(text).proc = <<"tx", i>>
    BY <1>0, <2>1, <2>2, NewSessionIsOwn
  <2>4. LastDoc(text) = Session(<<"tx", i>>)
    BY <2>3, OwnSession
  <2>5. ConfirmedFlow(i) /\ ConfirmedRow(i, Row(LastDoc(text)))
    BY <2>1, <2>2, <2>4, ReportIsConfirmed
  <2> QED  BY <1>5, <2>1, <2>5
<1>7. CASE SenderMissed
  <2>1. pc = "judge_tx" /\ ~flows[i].reverse /\ Report(NoDoc)
    BY <1>7 DEF SenderMissed
  <2>2. ConfirmedFlow(i) /\ ConfirmedRow(i, Row(NoDoc))
    BY <2>1, ReportIsConfirmed
  <2> QED  BY <1>5, <2>1, <2>2
<1>8. ASSUME NEW s \in Side, Stop(s) \/ StopRaises(s) \/ StopNothing(s)
      PROVE  AnswerInv'
  BY <1>8, <1>a DEF Stop, StopRaises, StopNothing
<1>9. CASE Faulty
  BY <1>9, <1>a, FaultyUnwinds
<1>10. ASSUME NEW p \in Proc, NEW kind \in {"rated", "unrated"}, Flush(p, kind)
       PROVE  AnswerInv'
  BY <1>10, <1>a DEF Flush, callVars
<1>11. CASE UNCHANGED vars
  BY <1>11, <1>a DEF vars, callVars
<1> QED
  BY <1>1, <1>2, <1>3, <1>4, <1>6, <1>7, <1>8, <1>9, <1>10, <1>11
     DEF Next, Call, Hosts, Finished

LEMMA EndInvStep ==
    ASSUME IndexInv, RegisteredInv, EndInv, [Next]_vars
    PROVE  EndInv'
<1> USE FlowsAssumption
<1> USE DEF EndInv, Unwinding
<1>0. /\ pc \in Driving => i \in Flow
      /\ flows' = flows
      /\ UniquePorts' <=> UniquePorts
      /\ \A s \in Side, f \in Flow : <<s, f>> \in Proc
  BY FlowsStay DEF IndexInv, Proc, UniquePorts
<1>1. CASE RejectDuplicatePorts
  BY <1>1 DEF RejectDuplicatePorts
<1>2. CASE AcceptPorts
  BY <1>0, <1>2 DEF AcceptPorts
<1>3. CASE StartReceiver \/ CountPrior \/ StartSender \/ MeasureWindow
  BY <1>0, <1>3 DEF StartReceiver, CountPrior, StartSender, MeasureWindow, Unwind
<1>4. ASSUME NEW s \in Side, ReadLog(s) \/ KeepPolling(s) \/ NonCompletion(s)
      PROVE  EndInv'
  BY <1>0, <1>4 DEF ReadLog, KeepPolling, NonCompletion, Unwind, ReadPc, JudgePc, Side
<1>5. CASE ReceiverDone \/ SenderDone \/ SenderMissed
  BY <1>0, <1>5 DEF ReceiverDone, SenderDone, SenderMissed, Report, Unwind
<1>6. ASSUME NEW s \in Side, Stop(s) \/ StopRaises(s) \/ StopNothing(s)
      PROVE  EndInv'
  BY <1>0, <1>6 DEF Stop, StopRaises, StopNothing, StopNext, StopPc, Side
<1>7. CASE Faulty
  BY <1>0, <1>7, FaultyUnwinds
<1>8. ASSUME NEW p \in Proc, NEW kind \in {"rated", "unrated"}, Flush(p, kind)
      PROVE  EndInv'
  BY <1>0, <1>8 DEF Flush, callVars
<1>9. CASE UNCHANGED vars
  BY <1>0, <1>9 DEF vars, callVars
<1> QED
  BY <1>1, <1>2, <1>3, <1>4, <1>5, <1>6, <1>7, <1>8, <1>9
     DEF Next, Call, Hosts, Finished

LEMMA PromiseInvInit == Init => PromiseInv
<1> SUFFICES ASSUME Init PROVE PromiseInv
  OBVIOUS
<1>1. OwnInv
  <2>1. PICK kinds \in Priors :
          log = [p \in Proc |-> [n \in 1..Len(kinds[p]) |->
                    [proc |-> p, own |-> FALSE, kind |-> kinds[p][n]]]]
    BY DEF Init
  <2>2. ASSUME NEW p \in Proc PROVE OwnKinds(log[p]) = {}
    <3>1. kinds[p] \in Seq(Kind) /\ log[p] \in Seq(Doc)
      BY PriorAssumption, IndexInvInit DEF IndexInv, TypeOK
    <3>2. log[p] = [n \in 1..Len(kinds[p]) |->
                    [proc |-> p, own |-> FALSE, kind |-> kinds[p][n]]]
      BY <2>1
    <3>3. DOMAIN log[p] = 1..Len(log[p])
      BY <3>1
    <3>4. \A n \in 1..Len(log[p]) : log[p][n].own = FALSE
      BY <3>2, <3>3
    <3> QED  BY <3>4 DEF OwnKinds
  <2> QED  BY <2>2 DEF OwnInv
<1>2. ReadInv /\ AnswerInv /\ EndInv
  BY DEF Init, ReadInv, AnswerInv, EndInv, JudgePc, Side, Pending, Unwinding
<1> QED  BY <1>1, <1>2 DEF PromiseInv

LEMMA PromiseInvCorrect ==
    Spec => [](IndexInv /\ CleanupInv /\ FreshInv /\ PromiseInv)
<1>1. IndexInv /\ CleanupInv /\ FreshInv /\ PromiseInv /\ [Next]_vars => PromiseInv'
  BY OwnStep, ReadInvStep, AnswerInvStep, EndInvStep DEF CleanupInv, FreshInv, PromiseInv
<1> QED
  BY <1>1, PromiseInvInit, CleanupCorrect, FreshCorrect, PTL DEF Spec
-----------------------------------------------------------------------------
(* Every step of the call is one the promise allows.                       *)

OwnKept == \A p \in Proc : OwnKinds(log'[p]) = OwnKinds(log[p])

LEMMA PromiseStutter ==
    ASSUME OwnKept, pc' = "done" <=> pc = "done",
           UNCHANGED <<flows, outcome, results, live, unstopped>>
    PROVE  UNCHANGED Promise!vars
  BY DEF OwnKept, Promise!vars

LEMMA PromiseInit ==
    ASSUME Init, IndexInv, OwnInv
    PROVE  Promise!Init
<1>1. \A p \in Proc : OwnKinds(log[p]) = {}
  BY DEF Init, OwnInv
<1>2. Promise!Proc = Proc
  BY DEF Promise!Proc, Promise!Flow, Proc, Side, Flow
<1> QED  BY <1>1, <1>2 DEF Init, Promise!Init, Promise!Flow, Flow, Pending

LEMMA ConfirmedHere ==
    ASSUME NEW k \in Flow, ConfirmedFlow(k)
    PROVE  Promise!Confirmed(k)
  BY DEF ConfirmedFlow, Rated, Proc, Side, Promise!Confirmed, Promise!Rated,
         Promise!Receiving

LEMMA RowHere ==
    ASSUME NEW k \in Flow, NEW row, ConfirmedFlow(k), ConfirmedRow(k, row)
    PROVE  row \in Promise!RowsOf(k)
<1>1. CASE flows[k].reverse
  <2>1. Promise!Sending(k) = <<"rx", k>> /\ Promise!Receiving(k) = <<"tx", k>>
    BY <1>1 DEF Promise!Sending, Promise!Receiving
  <2>2. Promise!Rated(<<"rx", k>>)
    BY DEF ConfirmedFlow, Rated, Promise!Rated, Proc, Side
  <2> QED  BY <1>1, <2>1, <2>2 DEF ConfirmedRow, Session, Promise!RowsOf, Promise!Session
<1>2. CASE ~flows[k].reverse
  <2>1. Promise!Sending(k) = <<"tx", k>> /\ Promise!Receiving(k) = <<"rx", k>>
    BY <1>2 DEF Promise!Sending, Promise!Receiving
  <2>2. Rated(<<"tx", k>>) => Promise!Rated(<<"tx", k>>)
    BY DEF Rated, Promise!Rated, Proc, Side
  <2> QED  BY <1>2, <2>1, <2>2
           DEF ConfirmedRow, Session, NoDoc, Promise!RowsOf, Promise!Session, Promise!NoDoc
<1> QED  BY <1>1, <1>2

\* len(set(ports)) is len(ports) when no two flows share a port.
LEMMA NoSharedPort == UniquePorts <=> Promise!UniquePorts
<1> DEFINE ports == {flows[f].port : f \in Flow}
           port == [f \in Flow |-> flows[f].port]
<1>1. IsFiniteSet(Flow) /\ Cardinality(Flow) = N
  BY FlowsAssumption, IntervalSize DEF Flow
<1>2. port \in Surjection(Flow, ports)
  BY DEF Surjection
<1>3. Cardinality(ports) = Cardinality(Flow) <=> port \in Injection(Flow, ports)
  BY <1>1, <1>2, FS_Surjection
<1>4. port \in Injection(Flow, ports) <=>
         \A f, g \in Flow : flows[f].port = flows[g].port => f = g
  BY DEF Injection, IsInjective
<1> QED  BY <1>1, <1>3, <1>4 DEF UniquePorts, Promise!UniquePorts, Promise!Flow, Flow

\* Up to its end, all the call does to the hosts is to start and to stop.
LEMMA PromiseDrive ==
    ASSUME IndexInv', UniquePorts, OwnKept, flows' = flows, unstopped \subseteq unstopped',
           pc # "done", pc' # "done"
    PROVE  Promise!Drive
<1>1. live' \subseteq Promise!Proc /\ unstopped' \subseteq Promise!Proc
  BY DEF IndexInv, TypeOK, Proc, Side, Flow, Promise!Proc, Promise!Flow
<1> QED  BY <1>1, NoSharedPort DEF OwnKept, Promise!Drive, Pending

LEMMA PromiseEnd ==
    ASSUME IndexInv', CleanupInv', RowsInv', AnswerInv', EndInv', OwnKept, flows' = flows,
           live' \subseteq live, unstopped \subseteq unstopped', pc # "done", pc' = "done",
           outcome'.kind # "value_error"
    PROVE  Promise!Next
<1> USE FlowsAssumption
<1>1. /\ outcome' \in Outcome /\ outcome'.kind \in {"returned", "noncompletion", "driver_error"}
      /\ UniquePorts
  BY DEF IndexInv, TypeOK, EndInv, Outcome, Unwinding, UniquePorts
<1>2. \A p \in live' \ unstopped' : outcome'.kind = "driver_error" /\ outcome'.at = p
  <2>1. OnlyFailedStopsOutlive'
    BY OnlyFailedStops, PTL
  <2> QED  BY <2>1 DEF OnlyFailedStopsOutlive, IndexInv, TypeOK, Proc
<1>3. ASSUME NEW k \in 1..Len(results')
      PROVE  k \in Flow /\ ConfirmedFlow(k) /\ ConfirmedRow(k, results'[k])
  <2>1. k \in Flow /\ ConfirmedFlow(k)' /\ ConfirmedRow(k, results[k])'
    BY DEF RowsInv, AnswerInv
  <2>2. \A s \in Side : Rated(<<s, k>>)' <=> Rated(<<s, k>>)
    BY <2>1 DEF OwnKept, Rated, Proc
  <2> QED  BY <2>1, <2>2 DEF ConfirmedFlow, ConfirmedRow, Side
<1>4. \A kind, p : outcome' = [kind |-> kind, at |-> p] => Promise!Answer(kind, p)
  BY DEF OwnKept, IndexInv, TypeOK, Pending, Promise!Answer, Promise!Proc, Promise!Flow,
         Proc, Side, Flow
<1>5. Promise!UniquePorts /\ Promise!Flow = Flow
  BY <1>1, NoSharedPort DEF Promise!Flow, Flow
<1>6. CASE outcome'.kind = "returned"
  <2>1. outcome' = [kind |-> "returned", at |-> <<"none", 0>>] /\ Len(results') = N
    BY <1>1, <1>6 DEF EndInv, RowsInv, Outcome
  <2>2. \A k \in Flow : Promise!Confirmed(k) /\ results'[k] \in Promise!RowsOf(k)
    BY <1>3, <2>1, ConfirmedHere, RowHere DEF Flow
  <2>3. Promise!StoppedAll
    BY <1>2, <1>6 DEF Promise!StoppedAll
  <2> QED  BY <1>4, <1>5, <1>6, <2>1, <2>2, <2>3 DEF Promise!Next, Promise!Return
<1>7. CASE outcome'.kind = "noncompletion"
  <2>1. PICK s \in Side, k \in Flow :
           /\ outcome'.at = <<s, k>> /\ k = Len(results') + 1
           /\ s = "tx" => flows[k].reverse /\ Rated(<<"rx", k>>)
    BY <1>7 DEF OwnKept, AnswerInv, Rated, Proc, Side
  <2>2. outcome' = [kind |-> "noncompletion", at |-> <<s, k>>]
    BY <1>1, <1>7, <2>1 DEF Outcome
  <2>3. \A g \in 1..(k - 1) : Promise!Confirmed(g)
    BY <1>3, <2>1, ConfirmedHere DEF IndexInv, TypeOK, Flow
  <2>4. Promise!StoppedAll
    BY <1>2, <1>7 DEF Promise!StoppedAll
  <2>5. s = "tx" => flows[k].reverse /\ Promise!Rated(<<"rx", k>>)
    BY <2>1 DEF Rated, Promise!Rated, Proc, Side
  <2>6. Promise!NonComplete(k)
    BY <1>4, <1>5, <1>7, <2>1, <2>2, <2>3, <2>4, <2>5 DEF Promise!NonComplete, Side
  <2> QED  BY <1>5, <2>6 DEF Promise!Next
<1>8. CASE outcome'.kind = "driver_error"
  <2>1. /\ outcome' = [kind |-> "driver_error", at |-> outcome'.at]
        /\ outcome'.at \in Promise!Proc
    BY <1>1, <1>8 DEF EndInv, Outcome, Promise!Proc, Promise!Flow, Proc, Side, Flow
  <2>2. Promise!Raise(outcome'.at)
    BY <1>2, <1>4, <1>5, <1>8, <2>1 DEF Promise!Raise
  <2> QED  BY <2>1, <2>2 DEF Promise!Next
<1> QED  BY <1>1, <1>6, <1>7, <1>8

\* Flows that share a port are refused before anything has been started.
LEMMA PromiseRefuse ==
    ASSUME IndexInv', CleanupInv, LogInv, OwnInv, RejectDuplicatePorts
    PROVE  Promise!Refuse
<1>1. /\ pc = "begin" /\ pc' = "done" /\ live = {} /\ senders = 0 /\ ~UniquePorts
      /\ outcome' = [kind |-> "value_error", at |-> <<"none", 0>>]
      /\ UNCHANGED <<flows, live, log, unstopped>>
  BY DEF RejectDuplicatePorts, CleanupInv, RegisteredInv, hostVars
<1>2. \A p \in Proc : OwnKinds(log[p]) = {}
  BY <1>1 DEF LogInv, LogsInv, Unwinding, OwnInv, Proc, Flow
<1>3. Promise!Proc = Proc /\ unstopped' \subseteq Proc
  BY DEF IndexInv, TypeOK, Promise!Proc, Promise!Flow, Proc, Side, Flow
<1>4. Promise!Answer("value_error", <<"none", 0>>)
  BY <1>1, <1>3 DEF Promise!Answer, Pending
<1> QED  BY <1>1, <1>2, <1>3, <1>4, NoSharedPort DEF Promise!Refuse

\* What the hosts write beside the call, before its answer and after.
LEMMA PromiseFinish ==
    ASSUME IndexInv, OwnInv, NEW p \in Proc, NEW kind \in {"rated", "unrated"},
           Flush(p, kind)
    PROVE  Promise!Finish(p, kind)
<1> DEFINE d == [proc |-> p, own |-> TRUE, kind |-> kind]
           wrote == [q \in Proc |-> OwnKinds(log[q])]
<1>1. /\ log \in [Proc -> Seq(Doc)] /\ d \in Doc /\ d.own /\ d.kind = kind
      /\ log' = [log EXCEPT ![p] = Append(log[p], d)]
      /\ p \in live /\ flushedAt[p] = Never /\ live' \in {live, live \ {p}}
      /\ UNCHANGED <<callVars, unstopped>>
  BY DEF IndexInv, TypeOK, Flush, Doc, Kind
<1>2. OwnKinds(log[p]) = {}
  BY <1>1 DEF OwnInv
<1>3. OwnKinds(Append(log[p], d)) = {kind}
  <2> HIDE DEF d
  <2> QED  BY <1>1, <1>2, OwnAppended
<1>4. log'[p] = Append(log[p], d) /\ \A q \in Proc \ {p} : log'[q] = log[q]
  BY <1>1
<1>5. ASSUME NEW q \in Proc
      PROVE  OwnKinds(log'[q]) = IF q = p THEN {kind} ELSE OwnKinds(log[q])
  <2> HIDE DEF d
  <2> QED  BY <1>3, <1>4
<1>6. wrote' = [wrote EXCEPT ![p] = {kind}]
  BY <1>5
<1>7. wrote[p] = {}
  BY <1>2
<1> QED  BY <1>1, <1>6, <1>7 DEF Promise!Finish, callVars

\* What the call's own steps leave alone.
LEMMA CallKeeps ==
    ASSUME IndexInv, RegisteredInv, LogInv, OwnInv, Call
    PROVE  OwnKept /\ flows' = flows /\ unstopped \subseteq unstopped'
<1>1. flows' = flows
  BY FlowsStay DEF Next
<1>2. CASE StartSender
  BY <1>1, <1>2, LaunchKeepsOwn DEF StartSender, OwnKept
<1>3. CASE RejectDuplicatePorts \/ AcceptPorts \/ StartReceiver \/ CountPrior \/ MeasureWindow
  BY <1>1, <1>3 DEF RejectDuplicatePorts, AcceptPorts, StartReceiver, CountPrior,
                    MeasureWindow, hostVars, OwnKept
<1>4. ASSUME NEW s \in Side, ReadLog(s) \/ KeepPolling(s) \/ NonCompletion(s)
      PROVE  UNCHANGED <<log, unstopped>>
  BY <1>4 DEF ReadLog, KeepPolling, NonCompletion, hostVars
<1>5. CASE ReceiverDone \/ SenderDone \/ SenderMissed
  BY <1>1, <1>5 DEF ReceiverDone, SenderDone, SenderMissed, Report, hostVars, OwnKept
<1>6. ASSUME NEW s \in Side, Stop(s) \/ StopRaises(s) \/ StopNothing(s)
      PROVE  UNCHANGED log /\ unstopped \subseteq unstopped'
  BY <1>6 DEF Stop, StopRaises, StopNothing, hostVars
<1>7. CASE Faulty
  BY <1>1, <1>7, FaultyKeepsOwn, FaultyUnwinds DEF OwnKept
<1> QED
  BY <1>1, <1>2, <1>3, <1>4, <1>5, <1>6, <1>7 DEF Call, OwnKept

\* Only the finally block, or a refusal, ends the call.
LEMMA EndsInFinally ==
    ASSUME IndexInv, Call, pc' = "done", ~RejectDuplicatePorts
    PROVE  pc # "done" /\ live' \subseteq live /\ outcome' = outcome
<1>1. ASSUME NEW s \in Side, ReadLog(s) \/ KeepPolling(s) \/ NonCompletion(s) PROVE FALSE
  BY <1>1 DEF ReadLog, KeepPolling, NonCompletion, Unwind, ReadPc, JudgePc
<1>2. CASE AcceptPorts \/ StartReceiver \/ CountPrior \/ StartSender \/ MeasureWindow
             \/ ReceiverDone \/ SenderDone \/ SenderMissed \/ Faulty
  BY <1>2 DEF AcceptPorts, StartReceiver, CountPrior, StartSender, MeasureWindow,
              ReceiverDone, SenderDone, SenderMissed, Report, Faulty, DriverRaises, StartRaisesLate, Unwind
<1>3. ASSUME NEW s \in Side, Stop(s) \/ StopRaises(s) \/ StopNothing(s)
      PROVE  pc # "done" /\ live' \subseteq live /\ outcome' = outcome
  BY <1>3 DEF Stop, StopRaises, StopNothing, StopPc, hostVars
<1> QED  BY <1>1, <1>2, <1>3 DEF Call

LEMMA CallIsNotOver == Call => pc # "done"
  BY DEF Call, RejectDuplicatePorts, AcceptPorts, StartReceiver, CountPrior, StartSender,
         MeasureWindow, ReadLog, KeepPolling, NonCompletion, ReceiverDone, SenderDone,
         SenderMissed, Stop, StopRaises, StopNothing, Faulty, StartRaisesLate, StartPc, ReadPc,
         JudgePc, StopPc

LEMMA OnlyPortsAtBegin == Call /\ pc = "begin" => RejectDuplicatePorts \/ AcceptPorts
  BY DEF Call, StartReceiver, CountPrior, StartSender, MeasureWindow, ReadLog, KeepPolling,
         NonCompletion, ReceiverDone, SenderDone, SenderMissed, Stop, StopRaises,
         StopNothing, Faulty, StartRaisesLate, StartPc, ReadPc, JudgePc, StopPc

CallInv == IndexInv /\ CleanupInv /\ FreshInv /\ PromiseInv

LEMMA PromiseStep ==
    ASSUME CallInv, CallInv', [Next]_vars
    PROVE  [Promise!Next]_(Promise!vars)
<1> USE DEF CallInv, CleanupInv, FreshInv, PromiseInv
<1>1. CASE RejectDuplicatePorts
  BY <1>1, PromiseRefuse DEF Promise!Next
<1>2. CASE AcceptPorts
  BY <1>2, PromiseStutter DEF AcceptPorts, OwnKept, hostVars
<1>3. CASE Call /\ ~RejectDuplicatePorts /\ ~AcceptPorts
  <2>1. OwnKept /\ flows' = flows /\ unstopped \subseteq unstopped'
    BY <1>3, CallKeeps
  <2>2. pc # "begin" /\ pc # "done"
    BY <1>3, CallIsNotOver, OnlyPortsAtBegin
  <2>3. UniquePorts /\ outcome.kind # "value_error"
    BY <2>2 DEF EndInv
  <2>4. CASE pc' = "done"
    BY <1>3, <2>1, <2>2, <2>3, <2>4, EndsInFinally, PromiseEnd
  <2>5. CASE pc' # "done"
    BY <2>1, <2>2, <2>3, <2>5, PromiseDrive DEF Promise!Next
  <2> QED  BY <2>4, <2>5
<1>4. ASSUME NEW p \in Proc, NEW kind \in {"rated", "unrated"}, Flush(p, kind)
      PROVE  Promise!Next
  <2>1. Promise!Finish(p, kind) /\ p \in Promise!Proc /\ kind \in Promise!Kind
    BY <1>4, PromiseFinish DEF Promise!Proc, Promise!Flow, Promise!Kind, Proc, Side, Flow
  <2> QED  BY <2>1 DEF Promise!Next
<1>5. CASE UNCHANGED vars
  BY <1>5, PromiseStutter DEF vars, callVars, hostVars, OwnKept
<1> QED  BY <1>1, <1>2, <1>3, <1>4, <1>5 DEF Next, Hosts, Finished

\* For any number of flows, any prior logs and any driver faults, a call keeps
\* the promise that its callers rely on, at every step of its own and of the
\* processes that run beside it.
THEOREM ImplementsMeasureFnCorrect == Spec => ImplementsMeasureFn
<1>1. Init => Promise!Init
  BY PromiseInit, IndexInvInit, PromiseInvInit DEF PromiseInv
<1>2. Spec => []CallInv
  BY PromiseInvCorrect DEF CallInv
<1> QED
  BY <1>1, <1>2, PromiseStep, PTL DEF Spec, ImplementsMeasureFn, Promise!Spec
=============================================================================
