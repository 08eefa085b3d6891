----------------------------- MODULE Throughput -----------------------------
(***************************************************************************)
(* One call of measure_concurrent_throughput                               *)
(* (packages/testoperations/src/testoperations/throughput.py).             *)
(*                                                                         *)
(* The call starts one iperf3 server per flow, counts the sessions already *)
(* in each server's log, launches every client, sleeps through the         *)
(* measurement window, polls the two logs of every flow in turn against    *)
(* ONE shared deadline, and stops everything it registered in a `finally`. *)
(* The iperf processes run beside it and append their result documents to  *)
(* their logs whenever they finish; every driver call may raise.           *)
(*                                                                         *)
(* A flow is its index in the call's sequence; a process is <<side, flow>>.*)
(* A log is the sequence of the documents in it.  An "open" document was   *)
(* cut before its closing brace; a "rated" one carries a rate summary, an  *)
(* "unrated" one does not (an error document).                             *)
(***************************************************************************)
EXTENDS Integers, Sequences, FiniteSets

CONSTANTS
    N,              \* how many flows the call measures
    Ports,          \* port numbers a flow may carry
    Window,         \* duration_s + max(omit_s), in clock ticks
    ResultTimeout,  \* result_timeout_s
    Poll,           \* poll_interval_s
    MaxRead,        \* the longest a log read takes
    Priors,         \* what the logs may hold before the call: a sequence of kinds each
    Faults          \* the driver calls that may raise

Kind == {"rated", "unrated", "open"}
FaultPoint == {"start_rx", "count", "start_tx", "read", "stop"}

ASSUME FlowsAssumption == N \in Nat
ASSUME TimingAssumption == /\ Window \in Nat
                           /\ ResultTimeout \in Nat
                           /\ Poll \in Nat \ {0}
                           /\ MaxRead \in Nat
ASSUME FaultsAssumption == Faults \subseteq FaultPoint

Flow == 1..N
Side == {"rx", "tx"}
Proc == Side \X Flow
ASSUME PriorAssumption == Priors \subseteq [Proc -> Seq(Kind)]

Doc == [proc : Proc, own : BOOLEAN, kind : Kind]
Never == -1
NoDoc == [proc |-> "none"]

VARIABLES
    pc,         \* where the call is
    i,          \* the flow its current loop is at
    flows,      \* the flows argument: port and reverse of each
    prior,      \* prior_sessions of each registered receiver
    started,    \* Len(started): receivers registered for cleanup
    senders,    \* Len(senders): senders registered for cleanup
    text,       \* the log text the last read returned
    rxText,     \* receiver_text of the flow being judged
    results,    \* the rows gathered so far
    outcome,    \* how the call ends, and at which process
    now,        \* the monotonic clock
    deadline,   \* the shared deadline, Never before it is drawn
    live,       \* iperf processes running on the hosts
    log,        \* the log file of each process
    flushedAt,  \* when each process wrote this call's document, or Never
    unstopped   \* processes whose stop raised, or answered False

callVars == <<pc, i, flows, prior, started, senders, text, rxText, results,
              outcome, deadline>>
hostVars == <<live, log, flushedAt, unstopped>>
vars == <<callVars, now, hostVars>>

Pending == [kind |-> "pending", at |-> <<"none", 0>>]
Outcome == [kind : {"pending", "value_error", "driver_error", "noncompletion",
                    "returned"},
            at : (Side \cup {"none"}) \X (0..N)]
-----------------------------------------------------------------------------
(* Reading a log.                                                          *)

\* iter_json_docs carries the depth of an unterminated document to the end of
\* the text, so only the documents before the first open one are ever returned.
Readable(l) == {k \in 1..Len(l) : \A j \in 1..k : l[j].kind # "open"}

\* count_sessions
Sessions(l) == Cardinality(Readable(l))

\* docs[-1]: the readable documents are a prefix of the log.
LastDoc(l) == l[Sessions(l)]

\* Mutant: a log with no session beyond the prior ones already counts.
HasNewSession_AnySession(l, before) == Sessions(l) > 0

\* _await_session: more complete documents than before, the last of them rated.
HasNewSession(l, before) ==
    /\ Sessions(l) > before
    /\ LastDoc(l).kind = "rated"

\* Mutant: the sessions counted before the launch are held against both logs.
Before_EitherLog(s) == prior[i]

\* prior_sessions for the receiver's log; the sender's is truncated at launch.
Before(s) == IF s = "rx" THEN prior[i] ELSE 0
-----------------------------------------------------------------------------
Init ==
    /\ flows \in [Flow -> [port : Ports, reverse : BOOLEAN]]
    /\ \E kinds \in Priors :
          log = [p \in Proc |-> [k \in 1..Len(kinds[p]) |->
                    [proc |-> p, own |-> FALSE, kind |-> kinds[p][k]]]]
    /\ pc = "begin" /\ i = 1
    /\ prior = [f \in Flow |-> 0]
    /\ started = 0 /\ senders = 0
    /\ text = <<>> /\ rxText = <<>> /\ results = <<>>
    /\ outcome = Pending
    /\ now = 0 /\ deadline = Never
    /\ live = {} /\ unstopped = {}
    /\ flushedAt = [p \in Proc |-> Never]

UniquePorts == Cardinality({flows[f].port : f \in Flow}) = N

RejectDuplicatePorts ==
    /\ pc = "begin" /\ ~UniquePorts
    /\ pc' = "done"
    /\ outcome' = [kind |-> "value_error", at |-> <<"none", 0>>]
    /\ UNCHANGED <<i, flows, prior, started, senders, text, rxText, results,
                   deadline, now, hostVars>>

AcceptPorts ==
    /\ pc = "begin" /\ UniquePorts
    /\ pc' = IF N = 0 THEN "window" ELSE "start_rx"
    /\ UNCHANGED <<i, flows, prior, started, senders, text, rxText, results,
                   outcome, deadline, now, hostVars>>

\* Mutant: the receivers are stopped first, under the running clients.
Unwind_ReceiversFirst(kind, p) ==
    /\ outcome' = [kind |-> kind, at |-> p]
    /\ pc' = "stop_rx" /\ i' = 1
    /\ text' = <<>> /\ rxText' = <<>>

\* The try block ends, by an exception or the return: on to the finally block.
Unwind(kind, p) ==
    /\ outcome' = [kind |-> kind, at |-> p]
    /\ pc' = "stop_tx" /\ i' = 1
    /\ text' = <<>> /\ rxText' = <<>>

\* The driver call about to be made at this pc raises, before any effect.
DriverRaises(fault, p) ==
    /\ fault \in Faults
    /\ Unwind("driver_error", p)
    /\ UNCHANGED <<flows, prior, started, senders, results,
                   deadline, now, hostVars>>

StartPc(s) == IF s = "rx" THEN "start_rx" ELSE "start_tx"

\* A start raises when its process runs already: nothing is registered for it.
StartRaisesLate(s) ==
    /\ pc = StartPc(s) /\ StartPc(s) \in Faults
    /\ live' = live \cup {<<s, i>>}
    /\ log' = IF s = "tx" THEN [log EXCEPT ![<<s, i>>] = <<>>] ELSE log
    /\ Unwind("driver_error", <<s, i>>)
    /\ UNCHANGED <<flows, prior, started, senders, results, deadline, now,
                   flushedAt, unstopped>>

StartReceiver ==
    /\ pc = "start_rx"
    /\ live' = live \cup {<<"rx", i>>}
    /\ pc' = "count"
    /\ UNCHANGED <<i, flows, prior, started, senders, text, rxText, results,
                   outcome, deadline, now, log, flushedAt, unstopped>>

\* Mutant: the first client is launched while receivers are still starting.
CountPrior_ThenSend ==
    /\ pc = "count"
    /\ prior' = [prior EXCEPT ![i] = Sessions(log[<<"rx", i>>])]
    /\ started' = i
    /\ pc' = "start_tx" /\ i' = 1
    /\ UNCHANGED <<flows, senders, text, rxText, results, outcome, deadline,
                   now, hostVars>>

\* The receiver is running before its log is read and only then registered.
CountPrior ==
    /\ pc = "count"
    /\ prior' = [prior EXCEPT ![i] = Sessions(log[<<"rx", i>>])]
    /\ started' = i
    /\ IF i < N THEN pc' = "start_rx" /\ i' = i + 1
                ELSE pc' = "start_tx" /\ i' = 1
    /\ UNCHANGED <<flows, senders, text, rxText, results, outcome, deadline,
                   now, hostVars>>

\* Mutant: the loop over the flows runs once too often.
StartSender_OneMore ==
    /\ pc = "start_tx"
    /\ live' = live \cup {<<"tx", i>>}
    /\ log' = [log EXCEPT ![<<"tx", i>>] = <<>>]
    /\ senders' = i
    /\ IF i <= N THEN i' = i + 1 /\ pc' = pc ELSE i' = 1 /\ pc' = "window"
    /\ UNCHANGED <<flows, prior, started, text, rxText, results, outcome,
                   deadline, now, flushedAt, unstopped>>

\* The client's launch truncates its own log (shell redirect).
StartSender ==
    /\ pc = "start_tx"
    /\ live' = live \cup {<<"tx", i>>}
    /\ log' = [log EXCEPT ![<<"tx", i>>] = <<>>]
    /\ senders' = i
    /\ IF i < N THEN i' = i + 1 /\ pc' = pc ELSE i' = 1 /\ pc' = "window"
    /\ UNCHANGED <<flows, prior, started, text, rxText, results, outcome,
                   deadline, now, flushedAt, unstopped>>

\* Sleep through the window, then draw the clock once for the shared deadline.
MeasureWindow ==
    /\ pc = "window"
    /\ now' = now + Window
    /\ deadline' = now' + ResultTimeout
    /\ IF N = 0 THEN Unwind("returned", <<"none", 0>>)
                ELSE pc' = "read_rx" /\ UNCHANGED <<i, outcome, text, rxText>>
    /\ UNCHANGED <<flows, prior, started, senders, results, hostVars>>
-----------------------------------------------------------------------------
(* _await_session, once for the receiver's log and once for the sender's.  *)

ReadPc(s) == IF s = "rx" THEN "read_rx" ELSE "read_tx"
JudgePc(s) == IF s = "rx" THEN "judge_rx" ELSE "judge_tx"

\* Mutant: every log gets a result timeout of its own.
Late_OwnDeadline(t) ==
    LET waits == 2 * (i - 1) + (IF pc = "judge_tx" THEN 1 ELSE 0)
    IN t >= deadline + waits * ResultTimeout

\* monotonic() >= deadline: one deadline for every log of the call.
Late(t) == t >= deadline

\* The text is sampled here; what is appended later is not in it.
ReadLog(s) ==
    /\ pc = ReadPc(s)
    /\ text' = log[<<s, i>>]
    /\ pc' = JudgePc(s)
    /\ UNCHANGED <<i, flows, prior, started, senders, rxText, results, outcome,
                   deadline, now, hostVars>>

\* Mutant: the pause between two reads is dropped.
KeepPolling_NoSleep(s) ==
    /\ pc = JudgePc(s) /\ ~HasNewSession(text, Before(s))
    /\ \E d \in 0..MaxRead :
          /\ ~Late(now + d)
          /\ now' = now + d
    /\ pc' = ReadPc(s) /\ text' = <<>>
    /\ UNCHANGED <<i, flows, prior, started, senders, rxText, results, outcome,
                   deadline, hostVars>>

\* The read comes back after d ticks; the clock is drawn after it.
KeepPolling(s) ==
    /\ pc = JudgePc(s) /\ ~HasNewSession(text, Before(s))
    /\ \E d \in 0..MaxRead :
          /\ ~Late(now + d)
          /\ now' = now + d + Poll
    /\ pc' = ReadPc(s) /\ text' = <<>>
    /\ UNCHANGED <<i, flows, prior, started, senders, rxText, results, outcome,
                   deadline, hostVars>>

ReceiverDone ==
    /\ pc = "judge_rx" /\ HasNewSession(text, prior[i])
    /\ \E d \in 0..MaxRead : now' = now + d
    /\ rxText' = text /\ text' = <<>>
    /\ pc' = "read_tx"
    /\ UNCHANGED <<i, flows, prior, started, senders, results, outcome,
                   deadline, hostVars>>

\* The read is back too late for another poll.
Expired == \E d \in 0..MaxRead : Late(now + d) /\ now' = now + d

\* No session of the receiver, or none of the data-receiving client.
NonCompletion(s) ==
    /\ pc = JudgePc(s) /\ ~HasNewSession(text, Before(s))
    /\ s = "tx" => flows[i].reverse
    /\ Expired
    /\ Unwind("noncompletion", <<s, i>>)
    /\ UNCHANGED <<flows, prior, started, senders, results, deadline,
                   hostVars>>

\* The rate is the data receiver's, RTT and retransmits are the data sender's.
Row(tx) ==
    IF flows[i].reverse
    THEN [port |-> flows[i].port, rate |-> tx, rtt |-> LastDoc(rxText)]
    ELSE [port |-> flows[i].port, rate |-> LastDoc(rxText), rtt |-> tx]

\* Append the row; after the last flow, return through the finally block.
Report(tx) ==
    /\ results' = Append(results, Row(tx))
    /\ IF i < N
       THEN /\ pc' = "read_rx" /\ i' = i + 1
            /\ text' = <<>> /\ rxText' = <<>>
            /\ UNCHANGED outcome
       ELSE Unwind("returned", <<"none", 0>>)
    /\ UNCHANGED <<flows, prior, started, senders, deadline, hostVars>>

SenderDone ==
    /\ pc = "judge_tx" /\ HasNewSession(text, 0)
    /\ \E d \in 0..MaxRead : now' = now + d
    /\ Report(LastDoc(text))

\* A forward flow's rate is already confirmed: it degrades to no RTT.
SenderMissed ==
    /\ pc = "judge_tx" /\ ~HasNewSession(text, 0)
    /\ ~flows[i].reverse
    /\ Expired
    /\ Report(NoDoc)
-----------------------------------------------------------------------------
(* The finally block: senders, then receivers, each stop on its own.       *)

\* The process the block is about to stop.
StopTarget(s) == <<s, i>>
Registered(s) == IF s = "tx" THEN senders ELSE started
StopPc(s) == IF s = "tx" THEN "stop_tx" ELSE "stop_rx"

\* The next registered process, or the next list once this one is exhausted.
StopNext(s) ==
    IF i < Registered(s) THEN i' = i + 1 /\ pc' = pc
    ELSE i' = 1 /\ pc' = IF s = "tx" THEN "stop_rx" ELSE "done"

Stop(s) ==
    /\ pc = StopPc(s) /\ i <= Registered(s)
    /\ live' = live \ {StopTarget(s)}
    /\ StopNext(s)
    /\ UNCHANGED <<flows, prior, started, senders, text, rxText, results,
                   outcome, deadline, now, log, flushedAt, unstopped>>

\* Mutant: a stop that raises ends the finally block.
StopRaises_Escapes(s) ==
    /\ pc = StopPc(s) /\ i <= Registered(s) /\ "stop" \in Faults
    /\ unstopped' = unstopped \cup {StopTarget(s)}
    /\ pc' = "done"
    /\ UNCHANGED <<i, flows, prior, started, senders, text, rxText, results,
                   outcome, deadline, now, live, log, flushedAt>>

\* stop_traffic raises, or answers False: swallowed, the next stop still runs.
StopRaises(s) ==
    /\ pc = StopPc(s) /\ i <= Registered(s) /\ "stop" \in Faults
    /\ unstopped' = unstopped \cup {StopTarget(s)}
    /\ StopNext(s)
    /\ UNCHANGED <<flows, prior, started, senders, text, rxText, results,
                   outcome, deadline, now, live, log, flushedAt>>

\* A list with nothing in it: its loop body never runs.
StopNothing(s) ==
    /\ pc = StopPc(s) /\ Registered(s) = 0
    /\ i' = 1 /\ pc' = IF s = "tx" THEN "stop_rx" ELSE "done"
    /\ UNCHANGED <<flows, prior, started, senders, text, rxText, results,
                   outcome, deadline, now, hostVars>>
-----------------------------------------------------------------------------
(* The iperf processes: a session ends with a document in each side's log. *)

\* The client of the flow has run: the call registered it, or does not know.
Launched(f) ==
    \/ f <= senders
    \/ <<"tx", f>> \in live
    \/ flushedAt[<<"tx", f>>] # Never

\* The client exits with its document; the server keeps listening.
Flush(p, kind) ==
    /\ p \in live /\ Launched(p[2])
    /\ flushedAt[p] = Never
    /\ log' = [log EXCEPT ![p] =
                  Append(@, [proc |-> p, own |-> TRUE, kind |-> kind])]
    /\ flushedAt' = [flushedAt EXCEPT ![p] = now]
    /\ live' = IF p[1] = "tx" THEN live \ {p} ELSE live
    /\ UNCHANGED <<callVars, now, unstopped>>

Faulty ==
    \/ pc = "start_rx" /\ DriverRaises("start_rx", <<"rx", i>>)
    \/ pc = "count" /\ DriverRaises("count", <<"rx", i>>)
    \/ pc = "start_tx" /\ DriverRaises("start_tx", <<"tx", i>>)
    \/ \E s \in Side : StartRaisesLate(s)
    \/ \E s \in Side : pc = ReadPc(s) /\ DriverRaises("read", <<s, i>>)

Call ==
    \/ RejectDuplicatePorts \/ AcceptPorts
    \/ StartReceiver \/ CountPrior \/ StartSender \/ MeasureWindow
    \/ \E s \in Side : ReadLog(s) \/ KeepPolling(s) \/ NonCompletion(s)
    \/ ReceiverDone \/ SenderDone \/ SenderMissed
    \/ \E s \in Side : Stop(s) \/ StopRaises(s) \/ StopNothing(s)
    \/ Faulty

Hosts == \E p \in Proc, kind \in {"rated", "unrated"} : Flush(p, kind)

\* The call is over; the hosts may still be finishing.
Finished == pc = "done" /\ UNCHANGED vars

Next == Call \/ Hosts \/ Finished

Spec == Init /\ [][Next]_vars

\* The caller's thread is scheduled and every driver call comes back.
FairSpec == Spec /\ WF_vars(Call)
-----------------------------------------------------------------------------
TypeOK ==
    /\ pc \in {"begin", "start_rx", "count", "start_tx", "window", "read_rx",
               "judge_rx", "read_tx", "judge_tx", "stop_tx", "stop_rx", "done"}
    /\ i \in 1..(N + 1)
    /\ flows \in [Flow -> [port : Ports, reverse : BOOLEAN]]
    /\ prior \in [Flow -> Nat]
    /\ started \in 0..N /\ senders \in 0..N
    /\ log \in [Proc -> Seq(Doc)]
    /\ text \in Seq(Doc) /\ rxText \in Seq(Doc)
    /\ results \in Seq([port : Ports, rate : Doc, rtt : Doc \cup {NoDoc}])
    /\ outcome \in Outcome
    /\ now \in Nat /\ deadline \in Nat \cup {Never}
    /\ live \subseteq Proc /\ unstopped \subseteq Proc
    /\ flushedAt \in [Proc -> Nat \cup {Never}]

Measuring == pc \in {"window", "read_rx", "judge_rx", "read_tx", "judge_tx"}

\* "Receivers are started before any sender (no connection race), every sender
\* is launched before the measurement wait": a client has run only once every
\* server is up, every server stays up until a client has been stopped or the
\* call unwinds, and the wait begins with the whole set launched.
FlowsOverlap ==
    /\ senders > 0 => started = N
    /\ pc = "start_tx" \/ Measuring => \A f \in Flow : <<"rx", f>> \in live
    /\ Measuring => senders = N

\* A row is made of this call's own sessions, never of a document an earlier
\* session left in the log: the rate is a rated document of the side that
\* received the data, the RTT is of the side that sent it, and only a forward
\* flow may lack one.  A call that returns has a row for every flow, in order.
RowsOfThisCall ==
    /\ outcome.kind = "returned" => Len(results) = N
    /\ \A k \in 1..Len(results) :
          LET row == results[k]
              receiving == IF flows[k].reverse THEN "tx" ELSE "rx"
              sending == IF flows[k].reverse THEN "rx" ELSE "tx"
          IN /\ row.port = flows[k].port
             /\ row.rate.proc = <<receiving, k>>
             /\ row.rate.own /\ row.rate.kind = "rated"
             /\ \/ row.rtt = NoDoc /\ ~flows[k].reverse
                \/ row.rtt \in Doc /\ row.rtt.own /\ row.rtt.proc = <<sending, k>>

CutBefore(l) == \E k \in 1..Len(l) : l[k].kind = "open"

\* A NonCompletion is a fact: the log it names held no readable rated session
\* of this call one read before the shared deadline.
NonCompletionIsAFact ==
    outcome.kind = "noncompletion" =>
        LET p == outcome.at
            l == log[p]
        IN \/ flushedAt[p] = Never
           \/ flushedAt[p] + MaxRead >= deadline
           \/ CutBefore(l)
           \/ l[Len(l)].kind = "unrated"

\* No wait starts past the shared deadline, but every log still gets its read:
\* the call outlives the deadline by less than one poll and one read per log.
BoundedOverrun ==
    outcome.kind \in {"returned", "noncompletion"} =>
        now <= deadline + ((Poll - 1) + (2 * N) * MaxRead)

\* When the call is over, a process still runs only because its own stop failed,
\* or it is the one that a failing driver call kept from being registered: the
\* start itself, or the first reading of a receiver's log.
OnlyFailedStopsOutlive ==
    pc = "done" =>
        \A p \in live \ unstopped :
            /\ outcome.kind = "driver_error" /\ outcome.at = p
            /\ p \in {<<"rx", started + 1>>, <<"tx", senders + 1>>}

\* "both sides are stopped in a `finally` so no iperf process outlives the
\* call -- also on failure" (measure_concurrent_throughput's docstring).
NoProcessOutlivesTheCall == pc = "done" => live = {}

\* The kinds of this call's own documents in a log.
OwnKinds(l) == {l[n].kind : n \in {m \in 1..Len(l) : l[m].own}}

Promise == INSTANCE MeasureFn WITH
    wrote <- [p \in Proc |-> OwnKinds(log[p])],
    running <- live,
    refused <- unstopped,
    answer <- IF pc = "done" THEN outcome ELSE Pending,
    rows <- IF pc = "done" /\ outcome.kind = "returned" THEN results ELSE <<>>

\* What the path operations and the retry are handed as their `measure`: one
\* answer, rows only of sessions that completed in this call, a NonCompletion
\* for the first flow without one, and nothing left running that a stop could
\* reach -- every step of the call, and of the hosts beside it, keeps that.
ImplementsMeasureFn == Promise!Spec

\* A receiver is stopped only when no client is left to stop: a server never
\* goes away under a client that the call has registered and not yet stopped.
SendersStoppedFirst ==
    [][\A f \in Flow :
          <<"rx", f>> \in live /\ <<"rx", f>> \notin live' =>
              \A g \in 1..senders : <<"tx", g>> \in live => <<"tx", g>> \in unstopped]_vars

\* Whatever the hosts and the drivers do, the call ends.
Terminates == <>(pc = "done")
=============================================================================
