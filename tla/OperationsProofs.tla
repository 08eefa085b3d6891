---- MODULE OperationsProofs ----
(***************************************************************************)
(* Of the operations on devices (Sessions): that every process is          *)
(* accounted for (Accounted), and that an operation that returned has done *)
(* what it is for (ReturnedMeansDone), whatever operations are called in   *)
(* whatever order on however many hosts, and whichever of their driver     *)
(* calls raise.                                                            *)
(*                                                                         *)
(* Accounted is not inductive: a service is stopped by its port, so two    *)
(* services on one port of a host would be stopped by one exit, and a      *)
(* process that were open twice would be gone after the first exit. What   *)
(* rules both out is that a service starts on a free port only, and that   *)
(* a new process has a number that none before it had.                     *)
(*                                                                         *)
(* Of the readers (Readers, Records, OverlayConfig, Archetypes): that the  *)
(* answers which TLC compares with their references over bounded questions *)
(* agree with them for questions of any size, where the reader is defined  *)
(* without a fold or a sort.                                               *)
(***************************************************************************)
EXTENDS Operations, FiniteSetTheorems, SequenceTheorems, WellFoundedInduction, TLAPS


Keys == Hosts \cup Ports \cup {"eth0"}
Procs == Hosts \X PROCESSES \X Keys \X Nat

\* The processes that run have numbers below the count of the operations.
Numbered ==
    /\ ops \in Nat
    /\ \A f \in facts : f[2] \in PROCESSES => f \in Procs /\ f[4] < ops
\* What is open runs, is open once, and is of a kind that no caller holds.
OpenOnce ==
    /\ open \in Seq(Procs)
    /\ \A i \in DOMAIN open : open[i] \in facts /\ open[i][2] \in {"http", "tcpdump"}
    /\ \A i, j \in DOMAIN open : open[i] = open[j] => i = j
    /\ \A p \in held : p[2] \in {"receiver", "sender", "flow"}
\* One service on a port.
OneService ==
    \A f, g \in facts : f[2] = "http" /\ g[2] = "http" /\ f[1] = g[1] /\ f[3] = g[3] => f = g
NoneLost == Running \subseteq Opened \cup held \cup stuck \cup partial
IInv == Numbered /\ OpenOnce /\ OneService /\ NoneLost

\* The strengthening implies the property (the brackets and the stops of
\* http_server.py, pcap_capture.py, iperf_client.py and measure_external_flow).
LEMMA StrongerThanAccounted == IInv => Accounted
BY DEF IInv, OpenOnce, NoneLost, Accounted, Opened, Running, PROCESSES

----------------------------------------------------------------------------
\* What an operation leaves on the devices, driver call by driver call.

\* The first n calls of an operation.
LEMMA MadeOf ==
    ASSUME NEW T, NEW calls \in Seq(T), NEW n \in 0..Len(calls)
    PROVE  /\ DOMAIN Made(calls, n) = 1..n
           /\ \A i \in DOMAIN Made(calls, n) : i \in DOMAIN calls /\ Made(calls, n)[i] = calls[i]
<1>1. SubSeq(calls, 1, n) = [i \in 1..n |-> calls[i]]
  OBVIOUS
<1> QED  BY <1>1 DEF Made

\* A fact holds after the calls made exactly when it held or one of them made it
\* true, and none of them ended it.
LEMMA AfterOf ==
    ASSUME NEW made, NEW x
    PROVE  x \in After(made) <=> /\ x \in facts \/ \E i \in DOMAIN made : x \in made[i].adds
                                 /\ \A i \in DOMAIN made : x \notin made[i].removes
BY DEF After

\* No call has no effect.
LEMMA AfterNone == After(Made(<<>>, 0)) = facts
<1> DEFINE made == Made(<<>>, 0)
<1>1. DOMAIN made = {}
  <2>1. <<>> \in Seq({}) /\ Len(<<>>) = 0
    OBVIOUS
  <2>2. SubSeq(<<>>, 1, 0) = <<>>
    BY <2>1
  <2> QED  BY <2>2 DEF Made
<1> HIDE DEF made
<1>2. After(made) = facts
  BY <1>1 DEF After
<1> QED  BY <1>2 DEF made

\* The effect of one call and of two.
LEMMA AfterOne ==
    ASSUME NEW c, NEW n \in 0..1, NEW x
    PROVE  x \in After(Made(<<c>>, n)) <=>
              IF n = 1 THEN (x \in facts \/ x \in c.adds) /\ x \notin c.removes ELSE x \in facts
<1> DEFINE made == Made(<<c>>, n)
<1>1. <<c>> \in Seq({c}) /\ Len(<<c>>) = 1 /\ DOMAIN <<c>> = {1} /\ <<c>>[1] = c
  OBVIOUS
<1>2. DOMAIN made = 1..n
  BY <1>1, MadeOf
<1>3. \A i \in DOMAIN made : i \in DOMAIN <<c>> /\ made[i] = <<c>>[i]
  BY <1>1, MadeOf
<1>4. \A i \in DOMAIN made : made[i] = c
  BY <1>1, <1>3
<1>5. x \in After(made) <=> /\ x \in facts \/ \E i \in DOMAIN made : x \in made[i].adds
                            /\ \A i \in DOMAIN made : x \notin made[i].removes
  BY AfterOf
<1> HIDE DEF made
<1>6. CASE n = 1
  <2>1. DOMAIN made = {1}
    BY <1>6, <1>2
  <2> QED  BY <2>1, <1>4, <1>5, <1>6 DEF made
<1>7. CASE n = 0
  <2>1. DOMAIN made = {}
    BY <1>7, <1>2
  <2> QED  BY <2>1, <1>5, <1>7 DEF made
<1> QED  BY <1>6, <1>7

LEMMA AfterTwo ==
    ASSUME NEW c, NEW d, NEW n \in 0..2, NEW x
    PROVE  /\ n = 2 => (x \in After(Made(<<c, d>>, n)) <=>
                           /\ x \in facts \/ x \in c.adds \/ x \in d.adds
                           /\ x \notin c.removes /\ x \notin d.removes)
           /\ n = 0 => (x \in After(Made(<<c, d>>, n)) <=> x \in facts)
           /\ n = 1 => (x \in After(Made(<<c, d>>, n)) <=>
                           (x \in facts \/ x \in c.adds) /\ x \notin c.removes)
<1>1. <<c, d>> \in Seq({c, d}) /\ Len(<<c, d>>) = 2 /\ <<c, d>>[1] = c /\ <<c, d>>[2] = d
  OBVIOUS
<1> DEFINE made == Made(<<c, d>>, n)
<1>2. DOMAIN made = 1..n
  BY <1>1, MadeOf
<1>3. \A i \in DOMAIN made : made[i] = <<c, d>>[i]
  BY <1>1, MadeOf
<1>4. x \in After(made) <=> /\ x \in facts \/ \E i \in DOMAIN made : x \in made[i].adds
                            /\ \A i \in DOMAIN made : x \notin made[i].removes
  BY AfterOf
<1> HIDE DEF made
<1>5. CASE n = 2
  <2>1. DOMAIN made = {1, 2} /\ made[1] = c /\ made[2] = d
    BY <1>5, <1>2, <1>3
  <2> QED  BY <2>1, <1>4, <1>5 DEF made
<1>6. CASE n = 0
  <2>1. DOMAIN made = {}
    BY <1>6, <1>2
  <2> QED  BY <2>1, <1>4, <1>6 DEF made
<1>7. CASE n = 1
  <2>1. DOMAIN made = {1} /\ made[1] = c
    BY <1>7, <1>2, <1>3
  <2> QED  BY <2>1, <1>4, <1>7 DEF made
<1> QED  BY <1>5, <1>6, <1>7

\* Whatever the calls are: what is new was added by one, what is gone removed.
LEMMA AfterAny ==
    ASSUME NEW T, NEW calls \in Seq(T), NEW n \in 0..Len(calls), NEW x
    PROVE  /\ x \in After(Made(calls, n)) /\ x \notin facts =>
                 \E i \in DOMAIN calls : x \in calls[i].adds
           /\ x \in facts /\ (\A i \in DOMAIN calls : x \notin calls[i].removes) =>
                 x \in After(Made(calls, n))
<1> DEFINE made == Made(calls, n)
<1>1. \A i \in DOMAIN made : i \in DOMAIN calls /\ made[i] = calls[i]
  BY MadeOf
<1>2. x \in After(made) <=> /\ x \in facts \/ \E i \in DOMAIN made : x \in made[i].adds
                            /\ \A i \in DOMAIN made : x \notin made[i].removes
  BY AfterOf
<1> HIDE DEF made
<1>3. (\E i \in DOMAIN made : x \in made[i].adds) => \E i \in DOMAIN calls : x \in calls[i].adds
  BY <1>1
<1>4. (\A i \in DOMAIN calls : x \notin calls[i].removes) => \A i \in DOMAIN made : x \notin made[i].removes
  BY <1>1
<1> QED  BY <1>2, <1>3, <1>4 DEF made

\* What an operation that keeps nothing between its calls does.
LEMMA PerformsOf ==
    ASSUME NEW op, NEW about, NEW calls, Performs(op, about, calls)
    PROVE  \E n \in 0..Len(calls), raised \in BOOLEAN :
              /\ facts' = After(Made(calls, n)) /\ ops' = ops + 1 /\ (~raised => n = Len(calls))
              /\ last'.op = op /\ last'.about = about /\ last'.raised = raised
              /\ UNCHANGED <<open, held, stuck, partial>>
BY DEF Performs, Perform

----------------------------------------------------------------------------
\* Three shapes of an operation.

\* The number of a new process is the count of the operations before it.
LEMMA ProcessOf ==
    ASSUME IInv, NEW host \in Hosts, NEW what \in PROCESSES, NEW key \in Keys
    PROVE  LET p == Process(host, what, key, 0)
           IN p \in Procs /\ p[1] = host /\ p[2] = what /\ p[3] = key /\ p[4] = ops
BY DEF IInv, Numbered, Process, Procs

\* An operation that opens nothing and closes nothing, whose new processes have
\* the new number and are held or accounted for otherwise: a service on a free
\* port, or none.
LEMMA KeepsServices ==
    ASSUME IInv, ops' = ops + 1, open' = open,
           held \subseteq held', stuck \subseteq stuck', partial \subseteq partial',
           \A p \in held' : p \in held \/ p[2] \in {"receiver", "sender", "flow"},
           \A f \in facts' : f \notin facts /\ f[2] \in PROCESSES =>
               f \in Procs /\ f[4] = ops /\ f \in held' \cup stuck' \cup partial',
           OneService',
           \A i \in DOMAIN open : open[i] \in facts'
    PROVE  IInv'
<1>1. Numbered'
  <2>1. ops \in Nat /\ ops' \in Nat
    BY DEF IInv, Numbered
  <2>2. ASSUME NEW f \in facts', f[2] \in PROCESSES  PROVE f \in Procs /\ f[4] < ops'
    <3>1. CASE f \in facts
      <4>1. f \in Procs /\ f[4] < ops
        BY <2>2, <3>1 DEF IInv, Numbered
      <4>2. f[4] \in Nat
        BY <4>1 DEF Procs
      <4>3. f[4] < ops'
        BY <4>1, <4>2, <2>1
      <4> QED  BY <4>1, <4>3
    <3>2. CASE f \notin facts
      <4>1. f \in Procs /\ f[4] = ops
        BY <2>2, <3>2
      <4>2. f[4] < ops'
        BY <4>1, <2>1
      <4> QED  BY <4>1, <4>2
    <3> QED  BY <3>1, <3>2
  <2> QED  BY <2>1, <2>2 DEF Numbered
<1>2. OpenOnce'
  BY DEF IInv, OpenOnce
<1>3. NoneLost'
  <2>1. Opened' = Opened
    BY DEF Opened
  <2> QED  BY <2>1 DEF IInv, NoneLost, Running
<1> QED  BY <1>1, <1>2, <1>3 DEF IInv

LEMMA Keeps ==
    ASSUME IInv, ops' = ops + 1, open' = open,
           held \subseteq held', stuck \subseteq stuck', partial \subseteq partial',
           \A p \in held' : p \in held \/ p[2] \in {"receiver", "sender", "flow"},
           \A f \in facts' : f \notin facts /\ f[2] \in PROCESSES =>
               f \in Procs /\ f[4] = ops /\ f[2] # "http" /\ f \in held' \cup stuck' \cup partial',
           \A i \in DOMAIN open : open[i] \in facts'
    PROVE  IInv'
<1>1. OneService'
  <2> SUFFICES ASSUME NEW f \in facts', NEW g \in facts',
                      f[2] = "http", g[2] = "http", f[1] = g[1], f[3] = g[3]
               PROVE  f = g
    BY DEF OneService
  <2> QED  BY DEF IInv, OneService, PROCESSES
<1> QED  BY <1>1, KeepsServices

\* An operation that starts no process and stops no service and no capture.
LEMMA Quiet ==
    ASSUME IInv, NEW T, NEW calls \in Seq(T), NEW m \in 0..Len(calls),
           facts' = After(Made(calls, m)), ops' = ops + 1, UNCHANGED <<open, held, stuck, partial>>,
           \A i \in DOMAIN calls :
              /\ \A x \in calls[i].adds : x[2] \notin PROCESSES
              /\ \A x \in calls[i].removes : x[2] \notin {"http", "tcpdump"}
    PROVE  IInv'
<1>1. \A f \in facts' : f \notin facts => f[2] \notin PROCESSES
  BY AfterAny
<1>2. \A i \in DOMAIN open : open[i] \in facts'
  <2> SUFFICES ASSUME NEW i \in DOMAIN open  PROVE open[i] \in facts'
    OBVIOUS
  <2>1. open[i] \in facts /\ open[i][2] \in {"http", "tcpdump"}
    BY DEF IInv, OpenOnce
  <2>2. \A n \in DOMAIN calls : open[i] \notin calls[n].removes
    BY <2>1
  <2> QED  BY <2>1, <2>2, AfterAny
<1> QED  BY <1>1, <1>2, Keeps

\* A bracket that is entered: one call, which starts what it opens.
LEMMA Enters ==
    ASSUME IInv, NEW p \in Procs, p[4] = ops, p[2] \in {"http", "tcpdump"},
           \A f \in facts : p[2] = "http" => ~(f[2] = "http" /\ f[1] = p[1] /\ f[3] = p[3]),
           facts' = facts \cup {p}, open' = Append(open, p), ops' = ops + 1,
           UNCHANGED <<held, stuck, partial>>
    PROVE  IInv'
<1>1. Numbered'
  <2>1. ops \in Nat /\ ops' \in Nat
    BY DEF IInv, Numbered
  <2>2. ASSUME NEW f \in facts', f[2] \in PROCESSES  PROVE f \in Procs /\ f[4] < ops'
    <3>1. CASE f \in facts
      <4>1. f \in Procs /\ f[4] < ops
        BY <2>2, <3>1 DEF IInv, Numbered
      <4>2. f[4] \in Nat
        BY <4>1 DEF Procs
      <4>3. f[4] < ops'
        BY <4>1, <4>2, <2>1
      <4> QED  BY <4>1, <4>3
    <3>2. CASE f = p
      <4>1. p[4] < ops'
        BY <2>1
      <4> QED  BY <3>2, <4>1
    <3> QED  BY <3>1, <3>2
  <2> QED  BY <2>1, <2>2 DEF Numbered
<1>2. /\ DOMAIN open' = 1..(Len(open) + 1) /\ DOMAIN open = 1..Len(open) /\ Len(open) \in Nat
      /\ \A i \in DOMAIN open : open'[i] = open[i]
      /\ open'[Len(open) + 1] = p /\ open' \in Seq(Procs)
  BY DEF IInv, OpenOnce
<1>3. p \notin facts
  BY DEF IInv, Numbered, PROCESSES
<1>4. OpenOnce'
  <2>1. \A i \in DOMAIN open' : open'[i] \in facts' /\ open'[i][2] \in {"http", "tcpdump"}
    BY <1>2 DEF IInv, OpenOnce
  <2>2. \A i, j \in DOMAIN open' : open'[i] = open'[j] => i = j
    BY <1>2, <1>3 DEF IInv, OpenOnce
  <2> QED  BY <1>2, <2>1, <2>2 DEF IInv, OpenOnce
<1>5. OneService'
  BY DEF IInv, OneService
<1>6. NoneLost'
  <2>1. Opened' = Opened \cup {p}
    BY <1>2 DEF Opened
  <2> QED  BY <2>1 DEF IInv, NoneLost, Running
<1> QED  BY <1>1, <1>4, <1>5, <1>6 DEF IInv

\* A bracket that exits: what its stop ends is the one process it opened, by its
\* port (http_server.py) or by its identifier (pcap_capture.py), or nothing when
\* the stop raises.
LEMMA Leaves == ASSUME IInv, Leave PROVE IInv'
<1> DEFINE n == Len(open)
           p == open[n]
           stop == IF p[2] = "http" THEN StopHttpService(p[1], p[3]) ELSE StopTcpdump(p)
<1>1. /\ open \in Seq(Procs) /\ n \in Nat \ {0} /\ DOMAIN open = 1..n
      /\ p \in facts /\ p \in Procs /\ p[2] \in {"http", "tcpdump"}
  <2>1. open \in Seq(Procs) /\ open # <<>>
    BY DEF IInv, OpenOnce, Leave
  <2>2. n \in Nat \ {0} /\ DOMAIN open = 1..n /\ n \in 1..n /\ p \in Procs
    BY <2>1
  <2> QED  BY <2>1, <2>2 DEF IInv, OpenOnce
<1>2. PICK m \in 0..1, raised \in BOOLEAN :
         /\ facts' = After(Made(<<stop>>, m)) /\ ops' = ops + 1
         /\ open' = SubSeq(open, 1, n - 1)
         /\ stuck' = (IF raised THEN stuck \cup {p} ELSE stuck)
         /\ (~raised => m = 1)
         /\ UNCHANGED <<held, partial>>
  <2>1. Len(<<stop>>) = 1
    OBVIOUS
  <2> QED  BY <2>1 DEF Leave, Perform
<1>3. stop.adds = {} /\ (\A x \in facts : x \in stop.removes <=> x = p)
  <2>1. CASE p[2] = "http"
    <3>1. stop.adds = {} /\ stop.removes = {f \in Matching(p[1], "http") : f[3] = p[3]}
      BY <2>1 DEF StopHttpService, Call
    <3>2. \A x \in facts : x \in stop.removes <=> x[1] = p[1] /\ x[2] = "http" /\ x[3] = p[3]
      BY <3>1 DEF Matching
    <3>3. \A x \in facts : x[1] = p[1] /\ x[2] = "http" /\ x[3] = p[3] => x = p
      BY <1>1, <2>1 DEF IInv, OneService
    <3> QED  BY <3>1, <3>2, <3>3, <2>1
  <2>2. CASE p[2] # "http"
    BY <2>2 DEF StopTcpdump, Call
  <2> QED  BY <2>1, <2>2
<1> HIDE DEF stop
<1>4. \A x : x \in facts' <=> x \in facts /\ (m = 1 => x # p)
  <2> SUFFICES ASSUME NEW x  PROVE x \in facts' <=> x \in facts /\ (m = 1 => x # p)
    OBVIOUS
  <2>1. x \in facts' <=> IF m = 1 THEN (x \in facts \/ x \in stop.adds) /\ x \notin stop.removes
                         ELSE x \in facts
    BY <1>2, AfterOne
  <2> QED  BY <2>1, <1>3
<1>5. /\ open' \in Seq(Procs) /\ DOMAIN open' = 1..(n - 1)
      /\ \A i \in DOMAIN open' : i \in DOMAIN open /\ i # n /\ open'[i] = open[i]
  <2>1. n - 1 \in 0..n /\ open' = [i \in 1..(n - 1) |-> open[i]]
    BY <1>1, <1>2
  <2>2. \A i \in 1..(n - 1) : i \in DOMAIN open /\ i # n /\ open[i] \in Procs
    <3>1. \A i \in DOMAIN open : open[i] \in Procs
      BY <1>1
    <3>2. n \in Nat
      BY <1>1
    <3> HIDE DEF n
    <3>3. \A i \in 1..(n - 1) : i \in 1..n /\ i # n
      BY <3>2
    <3> QED  BY <3>1, <3>3, <1>1
  <2>3. open' \in Seq(Procs)
    <3>2. n \in Nat \ {0}
      BY <1>1
    <3> HIDE DEF n
    <3>1. PICK z \in Nat : z = n - 1
      BY <3>2
    <3> QED  BY <2>1, <2>2, <3>1
  <2> QED  BY <2>1, <2>2, <2>3
<1> HIDE DEF n, p
<1>6. Numbered'
  <2>1. ops \in Nat /\ ops' \in Nat
    BY <1>2 DEF IInv, Numbered
  <2>2. ASSUME NEW f \in facts', f[2] \in PROCESSES  PROVE f \in Procs /\ f[4] < ops'
    <3>1. f \in Procs /\ f[4] < ops
      BY <2>2, <1>4 DEF IInv, Numbered
    <3>2. f[4] \in Nat
      BY <3>1 DEF Procs
    <3>3. f[4] < ops'
      BY <3>1, <3>2, <2>1, <1>2
    <3> QED  BY <3>1, <3>3
  <2> QED  BY <2>1, <2>2 DEF Numbered
<1>7. OpenOnce'
  <2>1. \A i \in DOMAIN open' : open'[i] \in facts' /\ open'[i][2] \in {"http", "tcpdump"}
    <3> SUFFICES ASSUME NEW i \in DOMAIN open'
                 PROVE  open'[i] \in facts' /\ open'[i][2] \in {"http", "tcpdump"}
      OBVIOUS
    <3>1. open'[i] \in facts /\ open'[i][2] \in {"http", "tcpdump"}
      BY <1>5 DEF IInv, OpenOnce
    <3>2. open'[i] # p
      BY <1>1, <1>5 DEF IInv, OpenOnce, n, p
    <3> QED  BY <3>1, <3>2, <1>4
  <2>2. \A i, j \in DOMAIN open' : open'[i] = open'[j] => i = j
    BY <1>5 DEF IInv, OpenOnce
  <2> QED  BY <1>2, <1>5, <2>1, <2>2 DEF IInv, OpenOnce
<1>8. OneService'
  BY <1>4 DEF IInv, OneService
<1>9. NoneLost'
  <2> SUFFICES ASSUME NEW f \in facts', f[2] \in PROCESSES
               PROVE  f \in Opened' \cup held' \cup stuck' \cup partial'
    BY DEF NoneLost, Running
  <2>1. f \in Opened \cup held \cup stuck \cup partial
    BY <1>4 DEF IInv, NoneLost, Running
  <2>2. CASE f = p
    BY <2>2, <1>2, <1>4
  <2>3. CASE f # p /\ f \in Opened
    <3>1. PICK i \in DOMAIN open : f = open[i]
      BY <2>3 DEF Opened
    <3>2. i \in DOMAIN open'
      BY <3>1, <2>3, <1>1, <1>5 DEF n, p
    <3> QED  BY <3>1, <3>2, <1>5 DEF Opened
  <2>4. CASE f \notin Opened
    BY <2>1, <2>4, <1>2
  <2> QED  BY <2>2, <2>3, <2>4
<1> QED  BY <1>6, <1>7, <1>8, <1>9 DEF IInv

\* Two processes started one after the other, as start_iperf and saturate_link
\* do: the caller gets both, or what was started is left when a start raises.
LEMMA StartsTwo ==
    ASSUME IInv, NEW p \in Procs, NEW q \in Procs, p[4] = ops, q[4] = ops,
           p[2] \in {"receiver", "sender", "flow"}, q[2] \in {"receiver", "sender", "flow"},
           NEW c, NEW d, c.adds = {p}, d.adds = {q}, c.removes = {}, d.removes = {},
           NEW n \in 0..2, NEW raised \in BOOLEAN,
           facts' = After(Made(<<c, d>>, n)), ops' = ops + 1,
           held' = (IF raised THEN held ELSE held \cup {p, q}),
           MayLose({p, q}, raised),
           UNCHANGED <<open, stuck>>
    PROVE  IInv'
<1>1. \A x : x \in facts' <=> x \in facts \/ (n # 0 /\ x = p) \/ (n = 2 /\ x = q)
  <2> SUFFICES ASSUME NEW x
               PROVE  x \in facts' <=> x \in facts \/ (n # 0 /\ x = p) \/ (n = 2 /\ x = q)
    OBVIOUS
  <2>1. CASE n = 2
    <3>1. x \in facts' <=> (x \in facts \/ x \in c.adds \/ x \in d.adds)
                              /\ x \notin c.removes /\ x \notin d.removes
      BY <2>1, AfterTwo
    <3> QED  BY <2>1, <3>1
  <2>2. CASE n = 0
    BY <2>2, AfterTwo
  <2>3. CASE n = 1
    <3>1. x \in facts' <=> (x \in facts \/ x \in c.adds) /\ x \notin c.removes
      BY <2>3, AfterTwo
    <3> QED  BY <2>3, <3>1
  <2> QED  BY <2>1, <2>2, <2>3
<1>2. \A i \in DOMAIN open : open[i] \in facts'
  BY <1>1 DEF IInv, OpenOnce
<1>3. \A f \in facts' : f \notin facts /\ f[2] \in PROCESSES =>
          f \in Procs /\ f[4] = ops /\ f[2] # "http" /\ f \in held' \cup stuck' \cup partial'
  BY <1>1 DEF MayLose
<1>4. \A x \in held' : x \in held \/ x[2] \in {"receiver", "sender", "flow"}
  OBVIOUS
<1>5. held \subseteq held' /\ stuck \subseteq stuck' /\ partial \subseteq partial'
  BY DEF MayLose
<1> QED  BY <1>2, <1>3, <1>4, <1>5, Keeps

LEMMA StartIperfKeeps ==
    ASSUME IInv, NEW client \in Hosts, NEW server \in Hosts, NEW port \in Ports,
           StartIperf(client, server, port)
    PROVE  IInv'
<1> DEFINE receiver == Process(server, "receiver", port, 0)
           sender == Process(client, "sender", port, 0)
<1>1. /\ receiver \in Procs /\ receiver[2] = "receiver" /\ receiver[4] = ops
      /\ sender \in Procs /\ sender[2] = "sender" /\ sender[4] = ops
  BY ProcessOf DEF PROCESSES, Keys
<1>2. /\ StartReceiver(receiver).adds = {receiver} /\ StartReceiver(receiver).removes = {}
      /\ StartSender(sender).adds = {sender} /\ StartSender(sender).removes = {}
  BY DEF StartReceiver, StartSender, Call
<1>3. PICK n \in 0..2, raised \in BOOLEAN :
         /\ facts' = After(Made(<<StartReceiver(receiver), StartSender(sender)>>, n)) /\ ops' = ops + 1
         /\ held' = (IF raised THEN held ELSE held \cup {receiver, sender})
         /\ MayLose({receiver, sender}, raised)
         /\ UNCHANGED <<open, stuck>>
  BY DEF StartIperf, Perform
<1> HIDE DEF receiver, sender
<1> QED  BY <1>1, <1>2, <1>3, StartsTwo

LEMMA SaturateLinkKeeps ==
    ASSUME IInv, NEW a \in Hosts, NEW b \in Hosts, SaturateLink(a, b)
    PROVE  IInv'
<1> DEFINE ab == Process(a, "flow", b, 0)
           ba == Process(b, "flow", a, 0)
<1>1. /\ ab \in Procs /\ ab[2] = "flow" /\ ab[4] = ops
      /\ ba \in Procs /\ ba[2] = "flow" /\ ba[4] = ops
  BY ProcessOf DEF PROCESSES, Keys
<1>2. /\ StartTraffic(ab).adds = {ab} /\ StartTraffic(ab).removes = {}
      /\ StartTraffic(ba).adds = {ba} /\ StartTraffic(ba).removes = {}
  BY DEF StartTraffic, Call
<1>3. PICK n \in 0..2, raised \in BOOLEAN :
         /\ facts' = After(Made(<<StartTraffic(ab), StartTraffic(ba)>>, n)) /\ ops' = ops + 1
         /\ held' = (IF raised THEN held ELSE held \cup {ab, ba})
         /\ MayLose({ab, ba}, raised)
         /\ UNCHANGED <<open, stuck>>
  BY DEF SaturateLink, Perform
<1> HIDE DEF ab, ba
<1> QED  BY <1>1, <1>2, <1>3, StartsTwo

\* The sender of the external flow is stopped, or its stop raised.
LEMMA MeasureExternalFlowKeeps ==
    ASSUME IInv, NEW client \in Hosts, NEW port \in Ports, MeasureExternalFlow(client, port)
    PROVE  IInv'
<1> DEFINE sender == Process(client, "sender", port, 0)
           start == StartSender(sender)
           stop == StopTraffic(sender)
<1>1. sender \in Procs /\ sender[2] = "sender" /\ sender[4] = ops
  BY ProcessOf DEF PROCESSES, Keys
<1>2. start.adds = {sender} /\ start.removes = {} /\ stop.adds = {} /\ stop.removes = {sender}
  BY DEF StartSender, StopTraffic, Call
<1>3. \/ \E n \in 0..1 :
            /\ facts' = After(Made(<<start>>, n)) /\ ops' = ops + 1
            /\ MayLose({sender}, TRUE)
            /\ UNCHANGED <<open, held, stuck>>
      \/ \E n \in 1..2, dropped \in BOOLEAN :
            /\ (~dropped => n = 2)
            /\ facts' = After(Made(<<start, stop>>, n)) /\ ops' = ops + 1
            /\ stuck' = (IF dropped THEN stuck \cup {sender} ELSE stuck)
            /\ UNCHANGED <<open, held, partial>>
  BY DEF MeasureExternalFlow, Perform
<1> HIDE DEF sender, start, stop
<1>4. ASSUME NEW n \in 0..1, facts' = After(Made(<<start>>, n)), ops' = ops + 1,
             MayLose({sender}, TRUE), UNCHANGED <<open, held, stuck>>
      PROVE  IInv'
  <2>1. \A x : x \in facts' <=> x \in facts \/ (n = 1 /\ x = sender)
    <3> SUFFICES ASSUME NEW x  PROVE x \in facts' <=> x \in facts \/ (n = 1 /\ x = sender)
      OBVIOUS
    <3>1. x \in facts' <=> IF n = 1 THEN (x \in facts \/ x \in start.adds) /\ x \notin start.removes
                           ELSE x \in facts
      BY <1>4, AfterOne
    <3> QED  BY <3>1, <1>2
  <2>2. \A i \in DOMAIN open : open[i] \in facts'
    BY <2>1 DEF IInv, OpenOnce
  <2>3. partial' = partial \cup ({sender} \cap facts')
    BY <1>4 DEF MayLose
  <2>4. \A f \in facts' : f \notin facts /\ f[2] \in PROCESSES =>
            f \in Procs /\ f[4] = ops /\ f[2] # "http" /\ f \in held' \cup stuck' \cup partial'
    BY <2>1, <2>3, <1>1
  <2> QED  BY <1>4, <2>2, <2>3, <2>4, Keeps
<1>5. ASSUME NEW n \in 1..2, NEW dropped \in BOOLEAN, ~dropped => n = 2,
             facts' = After(Made(<<start, stop>>, n)), ops' = ops + 1,
             stuck' = (IF dropped THEN stuck \cup {sender} ELSE stuck),
             UNCHANGED <<open, held, partial>>
      PROVE  IInv'
  <2>1. \A x : x \in facts' <=> IF n = 2 THEN x \in facts /\ x # sender ELSE x \in facts \/ x = sender
    <3> SUFFICES ASSUME NEW x
                 PROVE  x \in facts' <=> IF n = 2 THEN x \in facts /\ x # sender
                                         ELSE x \in facts \/ x = sender
      OBVIOUS
    <3>1. CASE n = 2
      <4>1. x \in facts' <=> (x \in facts \/ x \in start.adds \/ x \in stop.adds)
                                /\ x \notin start.removes /\ x \notin stop.removes
        BY <1>5, <3>1, AfterTwo
      <4> QED  BY <3>1, <4>1, <1>2
    <3>2. CASE n = 1
      <4>1. x \in facts' <=> (x \in facts \/ x \in start.adds) /\ x \notin start.removes
        BY <1>5, <3>2, AfterTwo
      <4> QED  BY <3>2, <4>1, <1>2
    <3> QED  BY <3>1, <3>2
  <2>2. \A i \in DOMAIN open : open[i] \in facts'
    BY <2>1, <1>1 DEF IInv, OpenOnce
  <2>3. \A f \in facts' : f \notin facts /\ f[2] \in PROCESSES =>
            f \in Procs /\ f[4] = ops /\ f[2] # "http" /\ f \in held' \cup stuck' \cup partial'
    BY <2>1, <1>1, <1>5
  <2> QED  BY <1>5, <2>2, <2>3, Keeps
<1> QED  BY <1>3, <1>4, <1>5

\* A bracket whose start is one call: it is open when the start returned; when it
\* raised, nothing has happened, or what it started is left on its free port.
LEMMA StartsBracket ==
    ASSUME IInv, NEW p \in Procs, p[4] = ops, p[2] \in {"http", "tcpdump"},
           NEW c, c.adds = {p}, c.removes = {}, NEW n \in 0..1, NEW raised \in BOOLEAN,
           ~raised => n = 1,
           facts' = After(Made(<<c>>, n)), ops' = ops + 1,
           open' = (IF raised THEN open ELSE Append(open, p)),
           n = 1 => \A f \in facts : p[2] = "http" => ~(f[2] = "http" /\ f[1] = p[1] /\ f[3] = p[3]),
           MayLose({p}, raised),
           UNCHANGED <<held, stuck>>
    PROVE  IInv'
<1>1. \A x : x \in facts' <=> x \in facts \/ (n = 1 /\ x = p)
  <2> SUFFICES ASSUME NEW x  PROVE x \in facts' <=> x \in facts \/ (n = 1 /\ x = p)
    OBVIOUS
  <2>1. x \in facts' <=> IF n = 1 THEN (x \in facts \/ x \in c.adds) /\ x \notin c.removes
                         ELSE x \in facts
    BY AfterOne
  <2> QED  BY <2>1
<1>2. CASE ~raised
  <2>1. facts' = facts \cup {p}
    BY <1>1, <1>2
  <2>2. partial' = partial
    BY <1>2 DEF MayLose
  <2> QED  BY <1>2, <2>1, <2>2, Enters
<1>3. CASE raised
  <2>1. \A i \in DOMAIN open : open[i] \in facts'
    BY <1>1 DEF IInv, OpenOnce
  <2>2. partial' = partial \cup ({p} \cap facts') /\ open' = open
    BY <1>3 DEF MayLose
  <2>3. \A f \in facts' : f \notin facts /\ f[2] \in PROCESSES =>
            f \in Procs /\ f[4] = ops /\ f \in held' \cup stuck' \cup partial'
    BY <1>1, <2>2
  <2>4. OneService'
    <3> SUFFICES ASSUME NEW f \in facts', NEW g \in facts',
                        f[2] = "http", g[2] = "http", f[1] = g[1], f[3] = g[3]
                 PROVE  f = g
      BY DEF OneService
    <3>1. CASE f \in facts /\ g \in facts
      BY <3>1 DEF IInv, OneService
    <3>2. CASE f \notin facts \/ g \notin facts
      BY <3>2, <1>1
    <3> QED  BY <3>1, <3>2
  <2> QED  BY <2>1, <2>2, <2>3, <2>4, KeepsServices
<1> QED  BY <1>2, <1>3

LEMMA EnterHttpKeeps ==
    ASSUME IInv, NEW host \in Hosts, NEW port \in Ports, EnterHttp(host, port)
    PROVE  IInv'
<1> DEFINE service == Process(host, "http", port, 0)
<1>1. /\ service \in Procs /\ service[1] = host /\ service[2] = "http"
      /\ service[3] = port /\ service[4] = ops
  BY ProcessOf DEF PROCESSES, Keys
<1>2. StartHttpService(service).adds = {service} /\ StartHttpService(service).removes = {}
  BY DEF StartHttpService, Call
<1>3. PICK n \in 0..1, raised \in BOOLEAN :
         /\ (~raised => n = Len(<<StartHttpService(service)>>))
         /\ facts' = After(Made(<<StartHttpService(service)>>, n)) /\ ops' = ops + 1
         /\ open' = (IF raised THEN open ELSE Append(open, service))
         /\ (n = 1 => ~\E f \in Matching(host, "http") : f[3] = port)
         /\ MayLose({service}, raised)
         /\ UNCHANGED <<held, stuck>>
  BY DEF EnterHttp, Perform
<1>5. Len(<<StartHttpService(service)>>) = 1
  OBVIOUS
<1>4. n = 1 => \A f \in facts : ~(f[2] = "http" /\ f[1] = host /\ f[3] = port)
  BY <1>3 DEF Matching
<1> HIDE DEF service
<1> QED  BY <1>1, <1>2, <1>3, <1>4, <1>5, StartsBracket

LEMMA EnterTcpdumpKeeps ==
    ASSUME IInv, NEW host \in Hosts, EnterTcpdump(host, "eth0")
    PROVE  IInv'
<1> DEFINE capture == Process(host, "tcpdump", "eth0", 0)
<1>1. capture \in Procs /\ capture[2] = "tcpdump" /\ capture[4] = ops
  BY ProcessOf DEF PROCESSES, Keys
<1>2. StartTcpdump(capture).adds = {capture} /\ StartTcpdump(capture).removes = {}
  BY DEF StartTcpdump, Call
<1>3. PICK n \in 0..1, raised \in BOOLEAN :
         /\ (~raised => n = Len(<<StartTcpdump(capture)>>))
         /\ facts' = After(Made(<<StartTcpdump(capture)>>, n)) /\ ops' = ops + 1
         /\ open' = (IF raised THEN open ELSE Append(open, capture))
         /\ MayLose({capture}, raised)
         /\ UNCHANGED <<held, stuck>>
  BY DEF EnterTcpdump, Perform
<1>4. Len(<<StartTcpdump(capture)>>) = 1
  OBVIOUS
<1> HIDE DEF capture
<1> QED  BY <1>1, <1>2, <1>3, <1>4, StartsBracket

----------------------------------------------------------------------------
\* The operations that start no process and stop no service and no capture.

LEMMA QuietOne ==
    ASSUME IInv, NEW c, NEW n \in 0..1, facts' = After(Made(<<c>>, n)), ops' = ops + 1,
           UNCHANGED <<open, held, stuck, partial>>,
           \A x \in c.adds : x[2] \notin PROCESSES,
           \A x \in c.removes : x[2] \notin {"http", "tcpdump"}
    PROVE  IInv'
<1>1. <<c>> \in Seq({c}) /\ Len(<<c>>) = 1 /\ \A i \in DOMAIN <<c>> : <<c>>[i] = c
  OBVIOUS
<1> QED  BY <1>1, Quiet

LEMMA QuietTwo ==
    ASSUME IInv, NEW c, NEW d, NEW n \in 0..2, facts' = After(Made(<<c, d>>, n)), ops' = ops + 1,
           UNCHANGED <<open, held, stuck, partial>>,
           \A x \in c.adds \cup d.adds : x[2] \notin PROCESSES,
           \A x \in c.removes \cup d.removes : x[2] \notin {"http", "tcpdump"}
    PROVE  IInv'
<1>1. /\ <<c, d>> \in Seq({c, d}) /\ Len(<<c, d>>) = 2
      /\ \A i \in DOMAIN <<c, d>> : <<c, d>>[i] = c \/ <<c, d>>[i] = d
  OBVIOUS
<1> QED  BY <1>1, Quiet

\* The caller stops what it holds, which is no service and no capture.
LEMMA StopHeldKeeps == ASSUME IInv, StopHeld PROVE IInv'
<1>1. PICK p \in held : /\ facts' = After(Made(<<StopTraffic(p)>>, 1)) /\ ops' = ops + 1
                        /\ UNCHANGED <<open, held, stuck, partial>>
  BY DEF StopHeld, Perform
<1>2. StopTraffic(p).adds = {} /\ StopTraffic(p).removes = {p}
  BY DEF StopTraffic, Call
<1>3. p[2] \notin {"http", "tcpdump"}
  BY DEF IInv, OpenOnce
<1> QED  BY <1>1, <1>2, <1>3, QuietOne

LEMMA StopAllGeneratorsKeeps ==
    ASSUME IInv, NEW h \in Hosts, NEW g \in Hosts, StopAllGenerators(<<h, g>>)
    PROVE  IInv'
<1> DEFINE gens == <<h, g>>
           calls == [i \in DOMAIN gens |-> StopAllTraffic(gens[i])]
<1>1. DOMAIN gens = 1..2 /\ Len(gens) = 2
  OBVIOUS
<1>2. PICK n \in 0..Len(calls) : /\ facts' = After(Made(calls, n)) /\ ops' = ops + 1
                                 /\ UNCHANGED <<open, held, stuck, partial>>
  <2>1. Performs("stop_all_generators", {gens[i] : i \in DOMAIN gens}, calls)
    BY DEF StopAllGenerators
  <2> HIDE DEF calls
  <2> QED  BY <2>1, PerformsOf
<1>3. calls \in Seq({calls[1], calls[2]}) /\ Len(calls) = 2 /\ DOMAIN calls = 1..2
  BY <1>1
<1>4. \A i \in DOMAIN calls : calls[i].adds = {} /\ \A x \in calls[i].removes : x[2] = "flow"
  BY DEF StopAllTraffic, Call, Matching
<1> HIDE DEF calls
<1> QED  BY <1>2, <1>3, <1>4, Quiet

LEMMA DhcpRenewKeeps == ASSUME IInv, NEW host \in Hosts, DhcpRenew(host) PROVE IInv'
<1> DEFINE lease == Process(host, "lease", "", 0)
           release == ReleaseDhcp(host)
           renew == RenewDhcp(lease)
           read == Call(host, "get_interface_addr", {}, {})
           calls == <<release, renew, read>>
<1>1. PICK n \in 0..Len(calls) : /\ facts' = After(Made(calls, n)) /\ ops' = ops + 1
                                 /\ UNCHANGED <<open, held, stuck, partial>>
  <2>1. Performs("dhcp_renew", {lease}, calls)
    BY DEF DhcpRenew
  <2> HIDE DEF calls
  <2> QED  BY <2>1, PerformsOf
<1>2. /\ release.adds = {} /\ renew.adds = {lease} /\ renew.removes = {}
      /\ read.adds = {} /\ read.removes = {} /\ lease[2] = "lease"
      /\ \A x \in release.removes : x[2] = "lease"
  BY DEF ReleaseDhcp, RenewDhcp, Call, Matching, Process
<1> HIDE DEF release, renew, read, lease
<1>3. /\ calls \in Seq({release, renew, read}) /\ Len(calls) = 3
      /\ \A i \in DOMAIN calls : calls[i] \in {release, renew, read}
  OBVIOUS
<1> HIDE DEF calls
<1>4. \A i \in DOMAIN calls : /\ \A x \in calls[i].adds : x[2] \notin PROCESSES
                              /\ \A x \in calls[i].removes : x[2] \notin {"http", "tcpdump"}
  BY <1>2, <1>3 DEF PROCESSES
<1> QED  BY <1>1, <1>3, <1>4, Quiet

LEMMA ResetKeeps == ASSUME IInv, NEW host \in Hosts, ResetToFactoryDefault(host) PROVE IInv'
<1> DEFINE num(f) == IF Matching(host, "mapping") = {f[1]} THEN 1 ELSE 2
           seq(f) == [i \in 1..num(f) |-> RemovePortMapping(f[i])]
<1>1. PICK listed \in [1..2 -> Matching(host, "mapping")] :
         Performs("reset_to_factory_default", {host}, seq(listed))
  BY DEF ResetToFactoryDefault
<1> DEFINE n == num(listed)
<1>2. PICK m \in 0..Len(seq(listed)) :
         /\ facts' = After(Made(seq(listed), m)) /\ ops' = ops + 1
         /\ UNCHANGED <<open, held, stuck, partial>>
  BY <1>1, PerformsOf
<1>6. n = 1 \/ n = 2
  OBVIOUS
<1>7. seq(listed) = [i \in 1..n |-> RemovePortMapping(listed[i])]
  OBVIOUS
<1> HIDE DEF num, n, seq
<1> DEFINE calls == [i \in 1..n |-> RemovePortMapping(listed[i])]
           T == {RemovePortMapping(listed[1]), RemovePortMapping(listed[2])}
<1>3. calls \in Seq(T) /\ Len(calls) = n /\ DOMAIN calls = 1..n
  <2>1. \A i \in 1..n : RemovePortMapping(listed[i]) \in T
    BY <1>6
  <2> HIDE DEF T
  <2> QED  BY <2>1, <1>6
<1>4. \A i \in DOMAIN calls : calls[i].adds = {} /\ \A x \in calls[i].removes : x[2] = "mapping"
  <2> SUFFICES ASSUME NEW i \in 1..n
               PROVE  calls[i].adds = {} /\ \A x \in calls[i].removes : x[2] = "mapping"
    BY <1>3
  <2>1. listed[i] \in Matching(host, "mapping")
    BY <1>6
  <2> QED  BY <2>1 DEF RemovePortMapping, Call, Matching
<1>8. facts' = After(Made(calls, m)) /\ m \in 0..Len(calls)
  BY <1>2, <1>7
<1> HIDE DEF calls, T
<1>5. \A i \in DOMAIN calls : /\ \A x \in calls[i].adds : x[2] \notin PROCESSES
                              /\ \A x \in calls[i].removes : x[2] \notin {"http", "tcpdump"}
  BY <1>4
<1> QED  BY <1>1, <1>2, <1>3, <1>5, <1>8, Quiet

LEMMA CallAPhoneKeeps == ASSUME IInv, NEW host \in Hosts, CallAPhone(host) PROVE IInv'
<1> DEFINE c == Call(host, "off_hook", {<<host, "off hook", "", 0>>}, {})
           d == Call(host, "dial", {<<host, "dialled", "", 0>>}, {})
<1>1. PICK n \in 0..2 : /\ facts' = After(Made(<<c, d>>, n)) /\ ops' = ops + 1
                        /\ UNCHANGED <<open, held, stuck, partial>>
  <2>1. Len(<<c, d>>) = 2
    OBVIOUS
  <2>2. Performs("call_a_phone", {host}, <<c, d>>)
    BY DEF CallAPhone
  <2> HIDE DEF c, d
  <2> QED  BY <2>1, <2>2, PerformsOf
<1>2. /\ \A x \in c.adds \cup d.adds : x[2] \notin PROCESSES
      /\ \A x \in c.removes \cup d.removes : x[2] \notin {"http", "tcpdump"}
  <2>1. /\ c.removes = {} /\ c.adds = {<<host, "off hook", "", 0>>}
        /\ d.removes = {} /\ d.adds = {<<host, "dialled", "", 0>>}
    BY DEF Call
  <2>2. <<host, "off hook", "", 0>>[2] = "off hook" /\ <<host, "dialled", "", 0>>[2] = "dialled"
    OBVIOUS
  <2> QED  BY <2>1, <2>2 DEF PROCESSES
<1> HIDE DEF c, d
<1> QED  BY <1>1, <1>2, QuietTwo

LEMMA ShutdownPhoneKeeps == ASSUME IInv, NEW host \in Hosts, ShutdownPhone(host) PROVE IInv'
<1> DEFINE phone == Matching(host, "off hook") \cup Matching(host, "dialled")
           c == Call(host, "on_hook", {}, phone)
           d == Call(host, "phone_kill", {}, {})
<1>1. PICK n \in 0..2 : /\ facts' = After(Made(<<c, d>>, n)) /\ ops' = ops + 1
                        /\ UNCHANGED <<open, held, stuck, partial>>
  <2>1. Len(<<c, d>>) = 2
    OBVIOUS
  <2>2. Performs("shutdown_phone", {host}, <<c, d>>)
    BY DEF ShutdownPhone
  <2> HIDE DEF c, d
  <2> QED  BY <2>1, <2>2, PerformsOf
<1>2. /\ \A x \in c.adds \cup d.adds : x[2] \notin PROCESSES
      /\ \A x \in c.removes \cup d.removes : x[2] \notin {"http", "tcpdump"}
  BY DEF Call, Matching
<1> HIDE DEF c, d
<1> QED  BY <1>1, <1>2, QuietTwo

LEMMA ConnectWifiClientKeeps ==
    ASSUME IInv, NEW client \in Hosts, NEW ap \in Hosts, ConnectWifiClient(client, ap)
    PROVE  IInv'
<1> DEFINE c == Call(ap, "get_bss_config", {}, {})
           d == WifiClientConnect(client, ap)
<1>1. PICK n \in 0..2 : /\ facts' = After(Made(<<c, d>>, n)) /\ ops' = ops + 1
                        /\ UNCHANGED <<open, held, stuck, partial>>
  <2>1. Len(<<c, d>>) = 2
    OBVIOUS
  <2>2. Performs("connect_wifi_client", {client}, <<c, d>>)
    BY DEF ConnectWifiClient
  <2> HIDE DEF c, d
  <2> QED  BY <2>1, <2>2, PerformsOf
<1>2. /\ \A x \in c.adds \cup d.adds : x[2] \notin PROCESSES
      /\ \A x \in c.removes \cup d.removes : x[2] \notin {"http", "tcpdump"}
  BY DEF WifiClientConnect, Call, Matching, PROCESSES
<1> HIDE DEF c, d
<1> QED  BY <1>1, <1>2, QuietTwo

\* The operations of one call that touch no process.
LEMMA SingleCallKeeps ==
    ASSUME IInv, NEW host \in Hosts,
           \/ AddMapping(host, "a") \/ AddMapping(host, "b") \/ IsCpeOnline(host)
           \/ ApplyPreset(host) \/ Inject(host)
    PROVE  IInv'
<1> DEFINE calm(c) == /\ \A x \in c.adds : x[2] \notin PROCESSES
                      /\ \A x \in c.removes : x[2] \notin {"http", "tcpdump"}
<1>1. ASSUME NEW name \in {"a", "b"}, AddMapping(host, name)  PROVE IInv'
  <2>1. calm(AddPortMapping(host, name))
    BY DEF AddPortMapping, Call, PROCESSES
  <2>2. /\ facts' = After(Made(<<AddPortMapping(host, name)>>, 1)) /\ ops' = ops + 1
        /\ UNCHANGED <<open, held, stuck, partial>>
    BY <1>1 DEF AddMapping, Perform
  <2> QED  BY <2>1, <2>2, QuietOne
<1>3. ASSUME IsCpeOnline(host)  PROVE IInv'
  <2>1. calm(Call(host, "GPV", {}, {}))
    BY DEF Call
  <2>2. /\ facts' = After(Made(<<Call(host, "GPV", {}, {})>>, 1)) /\ ops' = ops + 1
        /\ UNCHANGED <<open, held, stuck, partial>>
    BY <1>3 DEF IsCpeOnline, Perform
  <2> QED  BY <2>1, <2>2, QuietOne
<1>4. ASSUME ApplyPreset(host)  PROVE IInv'
  <2>1. calm(SetImpairmentProfile(host))
    <3>1. /\ SetImpairmentProfile(host).removes = {}
          /\ SetImpairmentProfile(host).adds = {<<host, "impaired", "", 0>>}
      BY DEF SetImpairmentProfile, Call
    <3>2. <<host, "impaired", "", 0>>[2] = "impaired"
      OBVIOUS
    <3> QED  BY <3>1, <3>2 DEF PROCESSES
  <2>2. PICK n \in 0..1 :
           /\ facts' = After(Made(<<SetImpairmentProfile(host)>>, n)) /\ ops' = ops + 1
           /\ UNCHANGED <<open, held, stuck, partial>>
    <3>1. Len(<<SetImpairmentProfile(host)>>) = 1
      OBVIOUS
    <3> QED  BY <3>1, <1>4, PerformsOf DEF ApplyPreset
  <2> QED  BY <2>1, <2>2, QuietOne
<1>5. ASSUME Inject(host)  PROVE IInv'
  <2>1. calm(InjectEvent(host))
    <3>1. /\ InjectEvent(host).removes = {}
          /\ InjectEvent(host).adds = {<<host, "impaired", "", 0>>}
      BY DEF InjectEvent, Call
    <3>2. <<host, "impaired", "", 0>>[2] = "impaired"
      OBVIOUS
    <3> QED  BY <3>1, <3>2 DEF PROCESSES
  <2>2. PICK n \in 0..1 :
           /\ facts' = After(Made(<<InjectEvent(host)>>, n)) /\ ops' = ops + 1
           /\ UNCHANGED <<open, held, stuck, partial>>
    <3>1. Len(<<InjectEvent(host)>>) = 1
      OBVIOUS
    <3> QED  BY <3>1, <1>5, PerformsOf DEF Inject
  <2> QED  BY <2>1, <2>2, QuietOne
<1> QED  BY <1>1, <1>3, <1>4, <1>5

\* What is refused has changed nothing.
LEMMA RefuseKeeps == ASSUME IInv, Refuse PROVE IInv'
<1>1. facts' = After(Made(<<>>, 0)) /\ ops' = ops + 1 /\ UNCHANGED <<open, held, stuck, partial>>
  BY DEF Refuse, Perform
<1>2. facts' = facts
  BY <1>1, AfterNone
<1>3. \A i \in DOMAIN open : open[i] \in facts'
  BY <1>2 DEF IInv, OpenOnce
<1> QED  BY <1>1, <1>2, <1>3, Keeps

----------------------------------------------------------------------------
LEMMA IInvAtStart == Init => IInv
<1> SUFFICES ASSUME Init  PROVE IInv
  OBVIOUS
<1>1. ops = 0 /\ facts = {} /\ open = <<>> /\ held = {}
  BY DEF Init
<1>2. Numbered
  BY <1>1 DEF Numbered
<1>3. OpenOnce
  <2>1. open \in Seq(Procs) /\ DOMAIN open = {}
    BY <1>1
  <2> QED  BY <1>1, <2>1 DEF OpenOnce
<1>4. OneService /\ NoneLost
  BY <1>1 DEF OneService, NoneLost, Running
<1> QED  BY <1>2, <1>3, <1>4 DEF IInv

LEMMA IInvKept == IInv /\ [Next]_vars => IInv'
<1> SUFFICES ASSUME IInv, [Next]_vars  PROVE IInv'
  OBVIOUS
<1>1. CASE StopHeld
  BY <1>1, StopHeldKeeps
<1>2. CASE Leave
  BY <1>2, Leaves
<1>3. ASSUME NEW h \in Hosts, NEW g \in Hosts, NEW p \in Ports, StartIperf(h, g, p)  PROVE IInv'
  BY <1>3, StartIperfKeeps
<1>4. ASSUME NEW h \in Hosts, NEW g \in Hosts, SaturateLink(h, g)  PROVE IInv'
  BY <1>4, SaturateLinkKeeps
<1>5. ASSUME NEW h \in Hosts, NEW g \in Hosts, ConnectWifiClient(h, g)  PROVE IInv'
  BY <1>5, ConnectWifiClientKeeps
<1>6. ASSUME NEW h \in Hosts, NEW g \in Hosts, StopAllGenerators(<<h, g>>)  PROVE IInv'
  BY <1>6, StopAllGeneratorsKeeps
<1>7. ASSUME NEW h \in Hosts, NEW p \in Ports, EnterHttp(h, p)  PROVE IInv'
  BY <1>7, EnterHttpKeeps
<1>8. ASSUME NEW h \in Hosts, NEW p \in Ports, MeasureExternalFlow(h, p)  PROVE IInv'
  BY <1>8, MeasureExternalFlowKeeps
<1>9. ASSUME NEW h \in Hosts, EnterTcpdump(h, "eth0")  PROVE IInv'
  BY <1>9, EnterTcpdumpKeeps
<1>10. ASSUME NEW h \in Hosts, DhcpRenew(h)  PROVE IInv'
  BY <1>10, DhcpRenewKeeps
<1>11. ASSUME NEW h \in Hosts, ResetToFactoryDefault(h)  PROVE IInv'
  BY <1>11, ResetKeeps
<1>12. ASSUME NEW h \in Hosts, CallAPhone(h)  PROVE IInv'
  BY <1>12, CallAPhoneKeeps
<1>13. ASSUME NEW h \in Hosts, ShutdownPhone(h)  PROVE IInv'
  BY <1>13, ShutdownPhoneKeeps
<1>14. ASSUME NEW h \in Hosts,
              \/ AddMapping(h, "a") \/ AddMapping(h, "b") \/ IsCpeOnline(h)
              \/ ApplyPreset(h) \/ Inject(h)
       PROVE  IInv'
  BY <1>14, SingleCallKeeps
<1>16. CASE Refuse
  BY <1>16, RefuseKeeps
<1>15. CASE UNCHANGED vars
  BY <1>15 DEF vars, IInv, Numbered, OpenOnce, OneService, NoneLost, Running, Opened
<1> QED  BY <1>1, <1>2, <1>3, <1>4, <1>5, <1>6, <1>7, <1>8, <1>9, <1>10, <1>11, <1>12,
            <1>13, <1>14, <1>15, <1>16 DEF Next

\* The processes left behind are exactly those of a stop that raised, or started
\* by a call that then raised: on any hosts and ports, whichever drivers have the new names,
\* after any number of operations.
THEOREM EveryProcessAccountedFor == Spec => []Accounted
BY IInvAtStart, IInvKept, StrongerThanAccounted, PTL DEF Spec

----------------------------------------------------------------------------
\* That an operation which returns has done the whole of what it is for. What it
\* needs of the past is that a lease has a number below the count of the
\* operations, so that the one a renewal gets is not among those released.
Leases ==
    /\ ops \in Nat
    /\ \A f \in facts : f[2] = "lease" => f[4] \in Nat /\ f[4] < ops
DoneInv == IInv /\ Leases /\ ReturnedMeansDone

\* The leases that are new after an operation have its number.
LEMMA LeasesKept ==
    ASSUME Leases, ops' = ops + 1,
           \A f \in facts' : f \in facts \/ (f[2] = "lease" => f[4] = ops)
    PROVE  Leases'
<1>1. ops \in Nat /\ ops' \in Nat
  BY DEF Leases
<1>2. ASSUME NEW f \in facts', f[2] = "lease"  PROVE f[4] \in Nat /\ f[4] < ops'
  <2>1. f[4] \in Nat /\ (f[4] < ops \/ f[4] = ops)
    BY <1>2, <1>1 DEF Leases
  <2> QED  BY <2>1, <1>1
<1> QED  BY <1>1, <1>2 DEF Leases

\* One call, two calls, and any number of them, none of which gives a lease.
LEMMA NoLeaseOne ==
    ASSUME Leases, NEW c, NEW n \in 0..1, facts' = After(Made(<<c>>, n)), ops' = ops + 1,
           \A x \in c.adds : x[2] # "lease"
    PROVE  Leases'
BY AfterOne, LeasesKept

LEMMA NoLeaseTwo ==
    ASSUME Leases, NEW c, NEW d, NEW n \in 0..2, facts' = After(Made(<<c, d>>, n)), ops' = ops + 1,
           \A x \in c.adds \cup d.adds : x[2] # "lease"
    PROVE  Leases'
<1>1. \A f \in facts' : f \in facts \/ f \in c.adds \/ f \in d.adds
  <2> SUFFICES ASSUME NEW f \in facts'  PROVE f \in facts \/ f \in c.adds \/ f \in d.adds
    OBVIOUS
  <2>1. CASE n = 0
    BY <2>1, AfterTwo
  <2>2. CASE n = 1
    BY <2>2, AfterTwo
  <2>3. CASE n = 2
    BY <2>3, AfterTwo
  <2> QED  BY <2>1, <2>2, <2>3
<1> QED  BY <1>1, LeasesKept

LEMMA NoLeaseAny ==
    ASSUME Leases, NEW T, NEW calls \in Seq(T), NEW n \in 0..Len(calls),
           facts' = After(Made(calls, n)), ops' = ops + 1,
           \A i \in DOMAIN calls : \A x \in calls[i].adds : x[2] # "lease"
    PROVE  Leases'
<1>1. \A f \in facts' : f \in facts \/ \E i \in DOMAIN calls : f \in calls[i].adds
  BY AfterAny
<1> QED  BY <1>1, LeasesKept

\* Nothing that a list of calls removes is left when each of them returned.
LEMMA RemovedIsGone ==
    ASSUME NEW T, NEW calls \in Seq(T), NEW x, NEW i \in DOMAIN calls, x \in calls[i].removes
    PROVE  x \notin After(Made(calls, Len(calls)))
<1>1. Made(calls, Len(calls)) = calls
  BY DEF Made
<1> QED  BY <1>1, AfterOf

----------------------------------------------------------------------------
\* Operation by operation: the leases are numbered, and the promise is kept.

\* Two starts: both run when the call returned.
LEMMA TwoStartsReturn ==
    ASSUME Leases, NEW p, NEW q, NEW c, NEW d, c.adds = {p}, d.adds = {q}, c.removes = {}, d.removes = {},
           p[2] # "lease", q[2] # "lease",
           NEW n \in 0..2, facts' = After(Made(<<c, d>>, n)), ops' = ops + 1, ~last'.raised => n = 2,
           last'.op \in {"start_iperf", "saturate_link"}, last'.about = {p, q}
    PROVE  Leases' /\ ReturnedMeansDone'
<1>1. Leases'
  BY NoLeaseTwo
<1>2. n = 2 => p \in facts' /\ q \in facts'
  BY AfterTwo
<1> QED  BY <1>1, <1>2 DEF ReturnedMeansDone

LEMMA StartIperfReturns ==
    ASSUME Leases, NEW client \in Hosts, NEW server \in Hosts, NEW port \in Ports,
           StartIperf(client, server, port)
    PROVE  Leases' /\ ReturnedMeansDone'
<1> DEFINE receiver == Process(server, "receiver", port, 0)
           sender == Process(client, "sender", port, 0)
           c == StartReceiver(receiver)
           d == StartSender(sender)
<1>1. receiver[2] # "lease" /\ sender[2] # "lease"
  BY DEF Process
<1>2. c.adds = {receiver} /\ c.removes = {} /\ d.adds = {sender} /\ d.removes = {}
  BY DEF StartReceiver, StartSender, Call
<1>3. PICK n \in 0..2, raised \in BOOLEAN : Perform("start_iperf", {receiver, sender}, <<c, d>>, n, raised)
  BY DEF StartIperf
<1>4. /\ facts' = After(Made(<<c, d>>, n)) /\ ops' = ops + 1
      /\ last'.op = "start_iperf" /\ last'.about = {receiver, sender} /\ (~last'.raised => n = 2)
  <2>1. Len(<<c, d>>) = 2
    OBVIOUS
  <2> QED  BY <1>3, <2>1 DEF Perform
<1> HIDE DEF receiver, sender, c, d
<1> QED  BY <1>1, <1>2, <1>4, TwoStartsReturn

LEMMA SaturateLinkReturns ==
    ASSUME Leases, NEW a \in Hosts, NEW b \in Hosts, SaturateLink(a, b)
    PROVE  Leases' /\ ReturnedMeansDone'
<1> DEFINE ab == Process(a, "flow", b, 0)
           ba == Process(b, "flow", a, 0)
           c == StartTraffic(ab)
           d == StartTraffic(ba)
<1>1. ab[2] # "lease" /\ ba[2] # "lease"
  BY DEF Process
<1>2. c.adds = {ab} /\ c.removes = {} /\ d.adds = {ba} /\ d.removes = {}
  BY DEF StartTraffic, Call
<1>3. PICK n \in 0..2, raised \in BOOLEAN : Perform("saturate_link", {ab, ba}, <<c, d>>, n, raised)
  BY DEF SaturateLink
<1>4. /\ facts' = After(Made(<<c, d>>, n)) /\ ops' = ops + 1
      /\ last'.op = "saturate_link" /\ last'.about = {ab, ba} /\ (~last'.raised => n = 2)
  <2>1. Len(<<c, d>>) = 2
    OBVIOUS
  <2> QED  BY <1>3, <2>1 DEF Perform
<1> HIDE DEF ab, ba, c, d
<1> QED  BY <1>1, <1>2, <1>4, TwoStartsReturn

\* A bracket that was entered: what it opened runs.
LEMMA BracketReturns ==
    ASSUME Leases, NEW p, NEW c, c.adds = {p}, c.removes = {}, p[2] # "lease",
           NEW n \in 0..1, facts' = After(Made(<<c>>, n)), ops' = ops + 1, ~last'.raised => n = 1,
           last'.op \in {"start_http_server", "tcpdump"}, last'.about = {p}
    PROVE  Leases' /\ ReturnedMeansDone'
<1>1. Leases'
  BY NoLeaseOne
<1>2. n = 1 => p \in facts'
  BY AfterOne
<1> QED  BY <1>1, <1>2 DEF ReturnedMeansDone

LEMMA EnterReturns ==
    ASSUME Leases, NEW host \in Hosts,
           (\E port \in Ports : EnterHttp(host, port)) \/ EnterTcpdump(host, "eth0")
    PROVE  Leases' /\ ReturnedMeansDone'
<1>1. ASSUME NEW port \in Ports, EnterHttp(host, port)  PROVE Leases' /\ ReturnedMeansDone'
  <2> DEFINE p == Process(host, "http", port, 0)
             c == StartHttpService(p)
  <2>1. p[2] # "lease" /\ c.adds = {p} /\ c.removes = {}
    BY DEF Process, StartHttpService, Call
  <2>2. PICK n \in 0..1, raised \in BOOLEAN : Perform("start_http_server", {p}, <<c>>, n, raised)
    BY <1>1 DEF EnterHttp
  <2>3. /\ facts' = After(Made(<<c>>, n)) /\ ops' = ops + 1
        /\ last'.op = "start_http_server" /\ last'.about = {p} /\ (~last'.raised => n = 1)
    <3>1. Len(<<c>>) = 1
      OBVIOUS
    <3> QED  BY <2>2, <3>1 DEF Perform
  <2> HIDE DEF p, c
  <2> QED  BY <2>1, <2>3, BracketReturns
<1>2. ASSUME EnterTcpdump(host, "eth0")  PROVE Leases' /\ ReturnedMeansDone'
  <2> DEFINE p == Process(host, "tcpdump", "eth0", 0)
             c == StartTcpdump(p)
  <2>1. p[2] # "lease" /\ c.adds = {p} /\ c.removes = {}
    BY DEF Process, StartTcpdump, Call
  <2>2. PICK n \in 0..1, raised \in BOOLEAN : Perform("tcpdump", {p}, <<c>>, n, raised)
    BY <1>2 DEF EnterTcpdump
  <2>3. /\ facts' = After(Made(<<c>>, n)) /\ ops' = ops + 1
        /\ last'.op = "tcpdump" /\ last'.about = {p} /\ (~last'.raised => n = 1)
    <3>1. Len(<<c>>) = 1
      OBVIOUS
    <3> QED  BY <2>2, <3>1 DEF Perform
  <2> HIDE DEF p, c
  <2> QED  BY <2>1, <2>3, BracketReturns
<1> QED  BY <1>1, <1>2

\* The exit: the process it stops is gone, found by its port or its identifier.
LEMMA LeaveReturns == ASSUME Leases, Leave PROVE Leases' /\ ReturnedMeansDone'
<1> DEFINE p == open[Len(open)]
           stop == IF p[2] = "http" THEN StopHttpService(p[1], p[3]) ELSE StopTcpdump(p)
<1>1. PICK n \in 0..1, raised \in BOOLEAN : Perform("exit", {p}, <<stop>>, n, raised)
  BY DEF Leave
<1>2. /\ facts' = After(Made(<<stop>>, n)) /\ ops' = ops + 1
      /\ last'.op = "exit" /\ last'.about = {p} /\ (~last'.raised => n = 1)
  <2>1. Len(<<stop>>) = 1
    OBVIOUS
  <2> QED  BY <1>1, <2>1 DEF Perform
<1>3. stop.adds = {} /\ (p \in facts => p \in stop.removes)
  BY DEF StopHttpService, StopTcpdump, Call, Matching
<1> HIDE DEF p, stop
<1>4. Leases'
  BY <1>2, <1>3, NoLeaseOne
<1>5. n = 1 => p \notin facts'
  BY <1>2, <1>3, AfterOne
<1> QED  BY <1>2, <1>4, <1>5 DEF ReturnedMeansDone

\* However measure_external_flow ends, its sender is gone unless the stop raised,
\* or the start did and had started it: before the start it was not there.
LEMMA MeasureExternalFlowReturns ==
    ASSUME IInv, Leases, NEW client \in Hosts, NEW port \in Ports, MeasureExternalFlow(client, port)
    PROVE  Leases' /\ ReturnedMeansDone'
<1> DEFINE sender == Process(client, "sender", port, 0)
           start == StartSender(sender)
           stop == StopTraffic(sender)
<1>1. sender[2] # "lease" /\ sender \notin facts
  <2>1. sender[2] = "sender" /\ sender[4] = ops
    BY ProcessOf DEF PROCESSES, Keys
  <2> QED  BY <2>1 DEF IInv, Numbered, PROCESSES
<1>2. start.adds = {sender} /\ start.removes = {} /\ stop.adds = {} /\ stop.removes = {sender}
  BY DEF StartSender, StopTraffic, Call
<1>3. \/ \E n \in 0..1 :
            /\ facts' = After(Made(<<start>>, n)) /\ ops' = ops + 1
            /\ MayLose({sender}, TRUE)
            /\ last'.op = "measure_external_flow" /\ last'.about = {sender} /\ last'.raised
      \/ \E n \in 1..2, dropped \in BOOLEAN :
            /\ (~dropped => n = 2)
            /\ facts' = After(Made(<<start, stop>>, n)) /\ ops' = ops + 1
            /\ stuck' = (IF dropped THEN stuck \cup {sender} ELSE stuck)
            /\ last'.op = "measure_external_flow" /\ last'.about = {sender}
  <2>1. \/ /\ \E n \in 0..1 : Perform("measure_external_flow", {sender}, <<start>>, n, TRUE)
           /\ MayLose({sender}, TRUE)
        \/ \E wait \in AWAITED, n \in 1..2, dropped \in BOOLEAN :
             /\ ~dropped => n = 2
             /\ ops' = ops + 1
             /\ facts' = After(Made(<<start, stop>>, n))
             /\ last' = [ op |-> "measure_external_flow", about |-> {sender},
                          raised |-> wait # "session",
                          calls |-> << <<client, start.member>>, <<client, stop.member>> >> ]
             /\ stuck' = IF dropped THEN stuck \cup {sender} ELSE stuck
    BY DEF MeasureExternalFlow
  <2> HIDE DEF sender, start, stop
  <2>2. CASE /\ \E n \in 0..1 : Perform("measure_external_flow", {sender}, <<start>>, n, TRUE)
             /\ MayLose({sender}, TRUE)
    <3>1. PICK n \in 0..1 : Perform("measure_external_flow", {sender}, <<start>>, n, TRUE)
      BY <2>2
    <3>2. /\ facts' = After(Made(<<start>>, n)) /\ ops' = ops + 1
          /\ last'.op = "measure_external_flow" /\ last'.about = {sender} /\ last'.raised = TRUE
      BY <3>1 DEF Perform
    <3> QED  BY <2>2, <3>2
  <2>3. CASE \E wait \in AWAITED, n \in 1..2, dropped \in BOOLEAN :
                /\ ~dropped => n = 2
                /\ ops' = ops + 1
                /\ facts' = After(Made(<<start, stop>>, n))
                /\ last' = [ op |-> "measure_external_flow", about |-> {sender},
                             raised |-> wait # "session",
                             calls |-> << <<client, start.member>>, <<client, stop.member>> >> ]
                /\ stuck' = IF dropped THEN stuck \cup {sender} ELSE stuck
    <3>1. last'.op = "measure_external_flow" /\ last'.about = {sender}
      BY <2>3
    <3> QED  BY <2>3, <3>1
  <2> QED  BY <2>1, <2>2, <2>3
<1> HIDE DEF sender, start, stop
<1>4. ASSUME NEW n \in 0..1, facts' = After(Made(<<start>>, n)), ops' = ops + 1,
             MayLose({sender}, TRUE),
             last'.op = "measure_external_flow", last'.about = {sender}
      PROVE  Leases' /\ ReturnedMeansDone'
  <2>1. Leases'
    BY <1>4, <1>1, <1>2, NoLeaseOne
  <2>2. {sender} \cap facts' \subseteq partial'
    BY <1>4 DEF MayLose
  <2> QED  BY <1>4, <2>1, <2>2 DEF ReturnedMeansDone
<1>5. ASSUME NEW n \in 1..2, NEW dropped \in BOOLEAN, ~dropped => n = 2,
             facts' = After(Made(<<start, stop>>, n)), ops' = ops + 1,
             stuck' = (IF dropped THEN stuck \cup {sender} ELSE stuck),
             last'.op = "measure_external_flow", last'.about = {sender}
      PROVE  Leases' /\ ReturnedMeansDone'
  <2>1. Leases'
    <3>1. n \in 0..2
      OBVIOUS
    <3> QED  BY <1>5, <3>1, <1>1, <1>2, NoLeaseTwo
  <2>2. n = 2 => sender \notin facts'
    BY <1>2, <1>5, AfterTwo
  <2>3. {sender} \cap facts' \subseteq stuck'
    BY <1>5, <2>2
  <2> QED  BY <1>5, <2>1, <2>3 DEF ReturnedMeansDone
<1> QED  BY <1>3, <1>4, <1>5

\* A renewal that returned leaves the new lease and no other.
LEMMA DhcpRenewReturns ==
    ASSUME Leases, NEW host \in Hosts, DhcpRenew(host)
    PROVE  Leases' /\ ReturnedMeansDone'
<1> DEFINE lease == Process(host, "lease", "", 0)
           release == ReleaseDhcp(host)
           renew == RenewDhcp(lease)
           read == Call(host, "get_interface_addr", {}, {})
           calls == <<release, renew, read>>
<1>1. Performs("dhcp_renew", {lease}, calls)
  BY DEF DhcpRenew
<1>2. PICK n \in 0..Len(calls) :
         /\ facts' = After(Made(calls, n)) /\ ops' = ops + 1 /\ (~last'.raised => n = Len(calls))
         /\ last'.op = "dhcp_renew" /\ last'.about = {lease}
  <2> HIDE DEF calls
  <2> QED  BY <1>1, PerformsOf
<1>3. lease[1] = host /\ lease[2] = "lease" /\ lease[4] = ops
  BY DEF Process, Leases
<1>4. /\ release.adds = {} /\ renew.adds = {lease} /\ renew.removes = {}
      /\ read.adds = {} /\ read.removes = {} /\ release.removes = Matching(host, "lease")
  BY DEF ReleaseDhcp, RenewDhcp, Call, Process
<1> HIDE DEF release, renew, read, lease
<1>5. /\ calls \in Seq({release, renew, read}) /\ Len(calls) = 3 /\ DOMAIN calls = {1, 2, 3}
      /\ calls[1] = release /\ calls[2] = renew /\ calls[3] = read
  OBVIOUS
<1> HIDE DEF calls
<1>6. \A f \in facts' : f \in facts \/ f = lease
  <2>1. \A f \in facts' : f \in facts \/ \E i \in DOMAIN calls : f \in calls[i].adds
    BY <1>2, <1>5, AfterAny
  <2> QED  BY <2>1, <1>4, <1>5
<1>7. Leases'
  BY <1>2, <1>3, <1>6, LeasesKept
<1>8. ASSUME n = Len(calls)  PROVE {f \in facts' : f[1] = host /\ f[2] = "lease"} = {lease}
  <2>1. Made(calls, n) = calls
    BY <1>5, <1>8 DEF Made
  <2>2. \A x : x \in facts' <=> /\ x \in facts \/ \E i \in DOMAIN calls : x \in calls[i].adds
                                /\ \A i \in DOMAIN calls : x \notin calls[i].removes
    BY <1>2, <2>1, AfterOf
  <2>3. \A x : x \in facts' <=> (x \in facts \/ x = lease) /\ x \notin Matching(host, "lease")
    BY <2>2, <1>4, <1>5
  <2>4. lease \notin Matching(host, "lease")
    BY <1>3 DEF Matching, Leases
  <2>5. lease \in facts'
    BY <2>3, <2>4
  <2>6. \A x \in facts' : x[1] = host /\ x[2] = "lease" => x = lease
    BY <2>3 DEF Matching
  <2> QED  BY <1>3, <2>5, <2>6
<1>9. n = Len(calls) => \A f \in last'.about : {g \in facts' : g[1] = f[1] /\ g[2] = "lease"} = {f}
  BY <1>2, <1>3, <1>8
<1> QED  BY <1>2, <1>7, <1>9 DEF ReturnedMeansDone, Matching

\* The walk over the generators that returned has stopped the flows of each.
LEMMA StopAllGeneratorsReturns ==
    ASSUME Leases, NEW h \in Hosts, NEW g \in Hosts, StopAllGenerators(<<h, g>>)
    PROVE  Leases' /\ ReturnedMeansDone'
<1> DEFINE gens == <<h, g>>
           calls == [i \in DOMAIN gens |-> StopAllTraffic(gens[i])]
<1>1. DOMAIN gens = {1, 2} /\ Len(gens) = 2 /\ gens[1] = h /\ gens[2] = g
  OBVIOUS
<1>2. Performs("stop_all_generators", {gens[i] : i \in DOMAIN gens}, calls)
  BY <1>1 DEF StopAllGenerators
<1>3. PICK n \in 0..Len(calls) :
         /\ facts' = After(Made(calls, n)) /\ ops' = ops + 1 /\ (~last'.raised => n = Len(calls))
         /\ last'.op = "stop_all_generators" /\ last'.about = {h, g}
  <2>1. {gens[i] : i \in DOMAIN gens} = {h, g}
    BY <1>1
  <2> HIDE DEF calls
  <2> QED  BY <2>1, <1>2, PerformsOf
<1>4. /\ calls \in Seq({calls[1], calls[2]}) /\ Len(calls) = 2 /\ DOMAIN calls = {1, 2}
      /\ calls[1] = StopAllTraffic(h) /\ calls[2] = StopAllTraffic(g)
  <2>1. calls = <<StopAllTraffic(h), StopAllTraffic(g)>>
    BY <1>1
  <2> HIDE DEF calls
  <2> QED  BY <2>1
<1>5. /\ calls[1].adds = {} /\ calls[1].removes = Matching(h, "flow")
      /\ calls[2].adds = {} /\ calls[2].removes = Matching(g, "flow")
  BY <1>4 DEF StopAllTraffic, Call
<1> HIDE DEF calls
<1>6. Leases'
  BY <1>3, <1>4, <1>5, NoLeaseAny
<1>7. ASSUME n = Len(calls)  PROVE \A x \in facts' : ~(x[2] = "flow" /\ x[1] \in {h, g})
  <2>1. \A x \in facts' : x \in facts
    BY <1>3, <1>4, <1>5, AfterAny
  <2>2. \A x \in facts' : x \notin calls[1].removes /\ x \notin calls[2].removes
    BY <1>3, <1>4, <1>7, RemovedIsGone
  <2> QED  BY <2>1, <2>2, <1>5 DEF Matching
<1> QED  BY <1>3, <1>6, <1>7 DEF ReturnedMeansDone, Ended, Matching

\* A reset that returned has removed every mapping that it had listed.
LEMMA ResetReturns ==
    ASSUME Leases, NEW host \in Hosts, ResetToFactoryDefault(host)
    PROVE  Leases' /\ ReturnedMeansDone'
<1> DEFINE num(f) == IF Matching(host, "mapping") = {f[1]} THEN 1 ELSE 2
           seq(f) == [i \in 1..num(f) |-> RemovePortMapping(f[i])]
<1>1. PICK listed \in [1..2 -> Matching(host, "mapping")] :
         /\ {listed[1], listed[2]} = Matching(host, "mapping")
         /\ Performs("reset_to_factory_default", {host}, seq(listed))
  BY DEF ResetToFactoryDefault
<1> DEFINE n == num(listed)
           calls == [i \in 1..n |-> RemovePortMapping(listed[i])]
           T == {RemovePortMapping(listed[1]), RemovePortMapping(listed[2])}
<1>2. Performs("reset_to_factory_default", {host}, calls)
  BY <1>1
<1>3. PICK m \in 0..Len(calls) :
         /\ facts' = After(Made(calls, m)) /\ ops' = ops + 1 /\ (~last'.raised => m = Len(calls))
         /\ last'.op = "reset_to_factory_default" /\ last'.about = {host}
  BY <1>2, PerformsOf
<1>4. n \in 1..2 /\ Matching(host, "mapping") = {listed[i] : i \in 1..n}
  <2>1. CASE Matching(host, "mapping") = {listed[1]}
    <3>1. n = 1 /\ 1..1 = {1}
      BY <2>1
    <3> QED  BY <2>1, <3>1
  <2>2. CASE Matching(host, "mapping") # {listed[1]}
    <3>1. n = 2 /\ 1..2 = {1, 2}
      BY <2>2
    <3> QED  BY <1>1, <3>1
  <2> QED  BY <2>1, <2>2
<1> HIDE DEF num, n
<1>5. calls \in Seq(T) /\ Len(calls) = n /\ DOMAIN calls = 1..n
  <2>1. \A i \in 1..n : RemovePortMapping(listed[i]) \in T
    BY <1>4
  <2> HIDE DEF T
  <2> QED  BY <2>1, <1>4
<1>6. \A i \in DOMAIN calls : calls[i].adds = {} /\ calls[i].removes = {listed[i]}
  BY <1>5 DEF RemovePortMapping, Call
<1> HIDE DEF calls, T
<1>7. Leases'
  BY <1>3, <1>5, <1>6, NoLeaseAny
<1>8. ASSUME m = Len(calls)  PROVE \A x \in facts' : ~(x[2] = "mapping" /\ x[1] = host)
  <2>1. \A x \in facts' : x \in facts
    BY <1>3, <1>5, <1>6, AfterAny
  <2>2. \A x \in facts' : \A i \in 1..n : x # listed[i]
    <3>1. \A x \in facts' : \A i \in DOMAIN calls : x \notin calls[i].removes
      BY <1>3, <1>5, <1>8, RemovedIsGone
    <3> QED  BY <3>1, <1>5, <1>6
  <2>3. \A x \in facts' : x \notin Matching(host, "mapping")
    BY <2>2, <1>4
  <2> QED  BY <2>1, <2>3 DEF Matching
<1> QED  BY <1>3, <1>7, <1>8 DEF ReturnedMeansDone, Ended, Matching

\* A phone that was shut down is on the hook and dials nobody.
LEMMA ShutdownPhoneReturns ==
    ASSUME Leases, NEW host \in Hosts, ShutdownPhone(host)
    PROVE  Leases' /\ ReturnedMeansDone'
<1> DEFINE phone == Matching(host, "off hook") \cup Matching(host, "dialled")
           c == Call(host, "on_hook", {}, phone)
           d == Call(host, "phone_kill", {}, {})
<1>1. Performs("shutdown_phone", {host}, <<c, d>>) /\ Len(<<c, d>>) = 2
  BY DEF ShutdownPhone
<1>2. PICK n \in 0..2 :
         /\ facts' = After(Made(<<c, d>>, n)) /\ ops' = ops + 1 /\ (~last'.raised => n = 2)
         /\ last'.op = "shutdown_phone" /\ last'.about = {host}
  BY <1>1, PerformsOf
<1>3. c.adds = {} /\ d.adds = {} /\ c.removes = phone /\ d.removes = {}
  BY DEF Call
<1> HIDE DEF c, d
<1>4. Leases'
  BY <1>2, <1>3, NoLeaseTwo
<1>5. n = 2 => \A x \in facts' : x \in facts /\ x \notin phone
  BY <1>2, <1>3, AfterTwo
<1>6. n = 2 => \A x \in facts' : ~(x[1] = host /\ x[2] \in {"off hook", "dialled"})
  BY <1>5 DEF Matching
<1> QED  BY <1>2, <1>4, <1>6 DEF ReturnedMeansDone, Ended, Matching

\* The operations that promise nothing by returning.
LEMMA OthersReturn ==
    ASSUME Leases,
           \/ StopHeld \/ Refuse
           \/ \E client \in Hosts, ap \in Hosts : ConnectWifiClient(client, ap)
           \/ \E host \in Hosts :
                 \/ AddMapping(host, "a") \/ AddMapping(host, "b") \/ CallAPhone(host)
                 \/ IsCpeOnline(host) \/ ApplyPreset(host) \/ Inject(host)
    PROVE  Leases' /\ ReturnedMeansDone'
<1> DEFINE quiet(op) == op \in {"stop", "connect_wifi_client", "add", "call_a_phone", "refused",
                                "is_cpe_online", "apply_preset", "inject"}
<1>1. ASSUME NEW op, quiet(op), last'.op = op  PROVE ReturnedMeansDone'
  BY <1>1 DEF ReturnedMeansDone
<1>2. ASSUME NEW op, NEW c, NEW n \in 0..1, facts' = After(Made(<<c>>, n)), ops' = ops + 1,
             last'.op = op, quiet(op), \A x \in c.adds : x[2] # "lease"
      PROVE  Leases' /\ ReturnedMeansDone'
  <2> HIDE DEF quiet
  <2> QED  BY <1>1, <1>2, NoLeaseOne
<1>10. ASSUME NEW op, NEW about, NEW c, Performs(op, about, <<c>>), quiet(op),
              \A x \in c.adds : x[2] # "lease"
       PROVE  Leases' /\ ReturnedMeansDone'
  <2>1. Len(<<c>>) = 1
    OBVIOUS
  <2>2. PICK n \in 0..1 : facts' = After(Made(<<c>>, n)) /\ ops' = ops + 1 /\ last'.op = op
    BY <1>10, <2>1, PerformsOf
  <2> HIDE DEF quiet
  <2> QED  BY <1>2, <1>10, <2>2
<1>3. ASSUME NEW op, NEW about, NEW c, NEW d, Performs(op, about, <<c, d>>), quiet(op),
             \A x \in c.adds \cup d.adds : x[2] # "lease"
      PROVE  Leases' /\ ReturnedMeansDone'
  <2>1. Len(<<c, d>>) = 2
    OBVIOUS
  <2>2. PICK n \in 0..2 : facts' = After(Made(<<c, d>>, n)) /\ ops' = ops + 1 /\ last'.op = op
    BY <1>3, <2>1, PerformsOf
  <2> HIDE DEF quiet
  <2> QED  BY <1>1, <1>3, <2>2, NoLeaseTwo
<1>4. CASE StopHeld
  <2>1. PICK p : facts' = After(Made(<<StopTraffic(p)>>, 1)) /\ ops' = ops + 1 /\ last'.op = "stop"
    BY <1>4 DEF StopHeld, Perform
  <2>2. \A x \in StopTraffic(p).adds : x[2] # "lease"
    BY DEF StopTraffic, Call
  <2> QED  BY <2>1, <2>2, <1>2
<1>5. ASSUME NEW client \in Hosts, NEW ap \in Hosts, ConnectWifiClient(client, ap)
      PROVE  Leases' /\ ReturnedMeansDone'
  <2> DEFINE c == Call(ap, "get_bss_config", {}, {})
             d == WifiClientConnect(client, ap)
  <2>1. Performs("connect_wifi_client", {client}, <<c, d>>)
    BY <1>5 DEF ConnectWifiClient
  <2>2. \A x \in c.adds \cup d.adds : x[2] # "lease"
    BY DEF Call, WifiClientConnect
  <2> HIDE DEF c, d
  <2> QED  BY <2>1, <2>2, <1>3
<1>6. ASSUME NEW host \in Hosts, CallAPhone(host)  PROVE Leases' /\ ReturnedMeansDone'
  <2> DEFINE c == Call(host, "off_hook", {<<host, "off hook", "", 0>>}, {})
             d == Call(host, "dial", {<<host, "dialled", "", 0>>}, {})
  <2>1. Performs("call_a_phone", {host}, <<c, d>>)
    BY <1>6 DEF CallAPhone
  <2>2. \A x \in c.adds \cup d.adds : x[2] # "lease"
    <3>1. c.adds = {<<host, "off hook", "", 0>>} /\ d.adds = {<<host, "dialled", "", 0>>}
      BY DEF Call
    <3>2. <<host, "off hook", "", 0>>[2] = "off hook" /\ <<host, "dialled", "", 0>>[2] = "dialled"
      OBVIOUS
    <3> QED  BY <3>1, <3>2
  <2> HIDE DEF c, d
  <2> QED  BY <2>1, <2>2, <1>3
<1>7. ASSUME NEW host \in Hosts, NEW name \in {"a", "b"}, AddMapping(host, name)
      PROVE  Leases' /\ ReturnedMeansDone'
  <2>1. \A x \in AddPortMapping(host, name).adds : x[2] # "lease"
    BY DEF AddPortMapping, Call
  <2>2. facts' = After(Made(<<AddPortMapping(host, name)>>, 1)) /\ ops' = ops + 1 /\ last'.op = "add"
    BY <1>7 DEF AddMapping, Perform
  <2> QED  BY <2>1, <2>2, <1>2
<1>8. ASSUME NEW host \in Hosts, IsCpeOnline(host)
      PROVE  Leases' /\ ReturnedMeansDone'
  <2>1. Call(host, "GPV", {}, {}).adds = {}
    BY DEF Call
  <2>2. /\ facts' = After(Made(<<Call(host, "GPV", {}, {})>>, 1)) /\ ops' = ops + 1
        /\ last'.op = "is_cpe_online"
    BY <1>8 DEF IsCpeOnline, Perform
  <2> QED  BY <2>1, <2>2, <1>2
<1>9. ASSUME NEW host \in Hosts, ApplyPreset(host) \/ Inject(host)
      PROVE  Leases' /\ ReturnedMeansDone'
  <2>1. /\ SetImpairmentProfile(host).adds = {<<host, "impaired", "", 0>>}
        /\ InjectEvent(host).adds = {<<host, "impaired", "", 0>>}
        /\ <<host, "impaired", "", 0>>[2] = "impaired"
    BY DEF SetImpairmentProfile, InjectEvent, Call
  <2>2. \/ Performs("apply_preset", {host}, <<SetImpairmentProfile(host)>>)
        \/ Performs("inject", {host}, <<InjectEvent(host)>>)
    BY <1>9 DEF ApplyPreset, Inject
  <2> QED  BY <2>1, <2>2, <1>10
<1>11. ASSUME Refuse  PROVE Leases' /\ ReturnedMeansDone'
  <2>1. facts' = After(Made(<<>>, 0)) /\ ops' = ops + 1 /\ last'.op = "refused"
    BY <1>11 DEF Refuse, Perform
  <2>2. facts' = facts
    BY <2>1, AfterNone
  <2>3. Leases'
    BY <2>1, <2>2, LeasesKept
  <2> QED  BY <1>1, <2>1, <2>3
<1> QED  BY <1>4, <1>5, <1>6, <1>7, <1>8, <1>9, <1>11

\* An operation that returned has done the whole of what it is for, whatever was
\* called before it and whatever of that had raised (iperf_client.py,
\* iperf_generator.py, http_server.py, pcap_capture.py, dhcp_client.py,
\* firewall.py, sip_phone.py); and measure_external_flow leaves its sender behind
\* only by a stop that raised, or a start that did and had started it.
THEOREM ReturningMeansDone == Spec => []ReturnedMeansDone
<1>1. Init => Leases /\ ReturnedMeansDone
  BY DEF Init, Leases, ReturnedMeansDone
<1>2. DoneInv /\ [Next]_vars => (Leases /\ ReturnedMeansDone)'
  <2> SUFFICES ASSUME IInv, Leases, ReturnedMeansDone, [Next]_vars
               PROVE  Leases' /\ ReturnedMeansDone'
    BY DEF DoneInv
  <2>1. CASE Leave
    BY <2>1, LeaveReturns
  <2>2. ASSUME NEW h \in Hosts, NEW g \in Hosts,
               \/ \E p \in Ports : StartIperf(h, g, p)
               \/ SaturateLink(h, g) \/ StopAllGenerators(<<h, g>>)
        PROVE  Leases' /\ ReturnedMeansDone'
    BY <2>2, StartIperfReturns, SaturateLinkReturns, StopAllGeneratorsReturns
  <2>3. ASSUME NEW h \in Hosts,
               \/ \E p \in Ports : EnterHttp(h, p) \/ MeasureExternalFlow(h, p)
               \/ EnterTcpdump(h, "eth0")
        PROVE  Leases' /\ ReturnedMeansDone'
    BY <2>3, EnterReturns, MeasureExternalFlowReturns
  <2>4. ASSUME NEW h \in Hosts, DhcpRenew(h) \/ ResetToFactoryDefault(h) \/ ShutdownPhone(h)
        PROVE  Leases' /\ ReturnedMeansDone'
    BY <2>4, DhcpRenewReturns, ResetReturns, ShutdownPhoneReturns
  <2>5. CASE \/ StopHeld \/ Refuse
             \/ \E h \in Hosts, g \in Hosts : ConnectWifiClient(h, g)
             \/ \E h \in Hosts :
                   \/ AddMapping(h, "a") \/ AddMapping(h, "b") \/ CallAPhone(h)
                   \/ IsCpeOnline(h) \/ ApplyPreset(h) \/ Inject(h)
    BY <2>5, OthersReturn
  <2>6. CASE UNCHANGED vars
    BY <2>6 DEF vars, Leases, ReturnedMeansDone, Ended, Matching
  <2> QED  BY <2>1, <2>2, <2>3, <2>4, <2>5, <2>6 DEF Next
<1>3. DoneInv /\ [Next]_vars => DoneInv'
  BY <1>2, IInvKept DEF DoneInv
<1>4. Init => DoneInv
  BY <1>1, IInvAtStart DEF DoneInv
<1>5. DoneInv => ReturnedMeansDone
  BY DEF DoneInv
<1> QED  BY <1>3, <1>4, <1>5, PTL DEF Spec

----------------------------------------------------------------------------
(* The readers, for questions of any size.                                 *)

LEMMA Units == /\ SIZE_UNITS["none"] = 1 /\ SIZE_UNITS["k"] = 1024
               /\ SIZE_UNITS["m"] = 1024 * 1024
  BY SMT DEF SIZE_UNITS

\* A size says the same in every unit, whatever the number.
THEOREM SizesAgreeForAll == \A quarters \in Int : SizesAgree(quarters)
<1> SUFFICES ASSUME NEW q \in Int PROVE SizesAgree(q)
  OBVIOUS
<1> DEFINE Size(n, s) == ParseWindowSize([quarters |-> n, suffix |-> s])
           kilo == q * 1024
           mega == kilo * 1024
<1>1. CASE q <= 0
  <2>1. \A u \in {"none", "k", "m"} : (q * SIZE_UNITS[u]) \div 4 <= 0
    BY <1>1, Units, SMT
  <2>2. \A u \in {"none", "k", "m"} : Size(q, u) = RAISES
    BY <2>1, SMT DEF ParseWindowSize
  <2> QED  BY <1>1, <2>2 DEF SizesAgree
<1>2. CASE q > 0
  <2>1. /\ kilo \in Int /\ kilo > 0 /\ kilo \div 4 \in Int /\ kilo \div 4 > 0
        /\ mega \in Int /\ mega \div 4 \in Int /\ mega \div 4 > 0
        /\ mega = q * (1024 * 1024) /\ q \div 4 \in Int
        /\ q \div 4 <= 0 <=> q < 4
    BY <1>2, SMT
  <2>2. Size(q, "m") = Ok(mega \div 4)
    <3>1. mega = q * SIZE_UNITS["m"]
      BY <2>1, Units, SMT
    <3>2. Size(q, "m") = IF (q * SIZE_UNITS["m"]) \div 4 <= 0 THEN RAISES
                         ELSE Ok((q * SIZE_UNITS["m"]) \div 4)
      BY <1>2, <2>1, SMT DEF ParseWindowSize
    <3> HIDE DEF Size, kilo, mega
    <3> QED  BY <2>1, <3>1, <3>2, SMT
  <2>3. Size(kilo, "k") = Ok(mega \div 4)
    <3>1. mega = kilo * SIZE_UNITS["k"]
      BY <2>1, Units, SMT
    <3>2. Size(kilo, "k") = IF (kilo * SIZE_UNITS["k"]) \div 4 <= 0 THEN RAISES
                         ELSE Ok((kilo * SIZE_UNITS["k"]) \div 4)
      BY <1>2, <2>1, SMT DEF ParseWindowSize
    <3> HIDE DEF Size, kilo, mega
    <3> QED  BY <2>1, <3>1, <3>2, SMT
  <2>4. Size(q, "k") = Ok(kilo \div 4)
    <3>1. kilo = q * SIZE_UNITS["k"]
      BY <2>1, Units, SMT
    <3>2. Size(q, "k") = IF (q * SIZE_UNITS["k"]) \div 4 <= 0 THEN RAISES
                         ELSE Ok((q * SIZE_UNITS["k"]) \div 4)
      BY <1>2, <2>1, SMT DEF ParseWindowSize
    <3> HIDE DEF Size, kilo, mega
    <3> QED  BY <2>1, <3>1, <3>2, SMT
  <2>5. Size(kilo, "none") = Ok(kilo \div 4)
    <3>1. kilo = kilo * SIZE_UNITS["none"]
      BY <2>1, Units, SMT
    <3>2. Size(kilo, "none") = IF (kilo * SIZE_UNITS["none"]) \div 4 <= 0 THEN RAISES
                         ELSE Ok((kilo * SIZE_UNITS["none"]) \div 4)
      BY <1>2, <2>1, SMT DEF ParseWindowSize
    <3> HIDE DEF Size, kilo, mega
    <3> QED  BY <2>1, <3>1, <3>2, SMT
  <2>6. Size(q, "none") = IF q < 4 THEN RAISES ELSE Ok(q \div 4)
    <3>1. q = q * SIZE_UNITS["none"]
      BY <2>1, Units, SMT
    <3>2. Size(q, "none") = IF (q * SIZE_UNITS["none"]) \div 4 <= 0 THEN RAISES
                         ELSE Ok((q * SIZE_UNITS["none"]) \div 4)
      BY <1>2, <2>1, SMT DEF ParseWindowSize
    <3> HIDE DEF Size, kilo, mega
    <3> QED  BY <2>1, <3>1, <3>2, SMT
  <2>7. (q \div 4) * 4 <= q /\ q < (q \div 4) * 4 + 4
    BY <1>2, SMT
  <2>8. Ok(q \div 4)[2] = q \div 4
    BY DEF Ok
  <2> QED
    BY <1>2, <2>2, <2>3, <2>4, <2>5, <2>6, <2>7, <2>8, SMT DEF SizesAgree
<1> QED  BY <1>1, <1>2, SMT

----------------------------------------------------------------------------
Network == [family : {"4", "6", "malformed"}, low : Int, high : Int]

\* No decoy that shares an address with a network in use passes, nor any beside a
\* network that cannot be read.
THEOREM DecoyIsCheckedForAll ==
    \A inUse \in SUBSET Network, decoy \in Network : DecoyIsChecked(inUse, decoy)
<1> SUFFICES ASSUME NEW inUse \in SUBSET Network, NEW decoy \in Network,
                    DeriveDecoyTarget(inUse, decoy) = Ok({}),
                    NEW n \in inUse
             PROVE  n.family # "malformed"
                    /\ ~(n.family = "4" /\ (n.low..n.high) \cap (decoy.low..decoy.high) # {})
  BY DEF DecoyIsChecked
<1>1. \A m \in inUse : m.family # "malformed"
  BY DEF DeriveDecoyTarget, Ok, RAISES
<1>2. {m \in inUse : m.family = "4" /\ Overlap(m, decoy)} = {}
  BY <1>1 DEF DeriveDecoyTarget, Ok
<1>3. ~(n.family = "4" /\ Overlap(n, decoy))
  BY <1>2
<1>4. n.low \in Int /\ n.high \in Int /\ decoy.low \in Int /\ decoy.high \in Int
  BY DEF Network
<1>5. (n.low..n.high) \cap (decoy.low..decoy.high) # {} => Overlap(n, decoy)
  BY <1>4 DEF Overlap
<1> QED  BY <1>1, <1>3, <1>5

----------------------------------------------------------------------------
\* The least element of a set of indices is there, by the well-foundedness of
\* strict inclusion among the sets of smaller ones.
LEMMA LeastExists ==
    ASSUME NEW n \in Nat, NEW S \in SUBSET (1..n), S # {}
    PROVE  Min(S) \in S /\ Min(S) # 0 /\ \A k \in S : Min(S) <= k
<1> DEFINE Below(m) == {k \in S : k < m}
           B == {Below(m) : m \in S}
<1>1. IsFiniteSet(1..n)
  BY FS_Interval
<1>2. IsWellFoundedOn(StrictSubsetOrdering(1..n), SUBSET (1..n))
  BY <1>1, FS_StrictSubsetOrderingWellFounded, FS_FiniteSubsetsOfFinite
<1>3. B \subseteq SUBSET (1..n) /\ B # {}
  OBVIOUS
<1>4. PICK b \in B : \A s \in B : <<s, b>> \notin StrictSubsetOrdering(1..n)
  <2> HIDE DEF B
  <2> QED BY <1>2, <1>3, WFMin
<1>5. PICK m \in S : b = Below(m)
  OBVIOUS
<1>6. \A k \in S : m <= k
  <2> SUFFICES ASSUME NEW k \in S, k < m PROVE FALSE
    BY SMT
  <2>0. k \in Int /\ m \in Int /\ S \subseteq Int
    OBVIOUS
  <2>1. k \in Below(m) /\ k \notin Below(k)
    BY <2>0
  <2>3. Below(k) \subseteq Below(m)
    <3>1. \A j \in S : j < k => j < m
      BY <2>0
    <3> QED  BY <3>1
  <2>2. <<Below(k), Below(m)>> \in StrictSubsetOrdering(1..n)
    BY <2>1, <2>3, Zenon DEF StrictSubsetOrdering
  <2> QED  BY <1>4, <1>5, <2>2
<1>7. Min(S) \in S /\ \A k \in S : Min(S) <= k
  BY <1>6 DEF Min
<1> QED  BY <1>7

----------------------------------------------------------------------------
\* Of elements of any kind.
IsSequence(s) == \E S : s \in Seq(S)

\* Policies: rules of five fields, of any actions, protocols, networks and ports.
Policies(A, P, N, Q) ==
    Seq([action : A, protocol : P, ports : Q, src : N, dst : N])

\* The first place of a list at which something holds.
LEMMA FirstPlace ==
    ASSUME NEW n \in Nat, NEW I, I \subseteq 1..n
    PROVE  LET at == IF I # {} THEN Min(I) ELSE 0
           IN /\ at = 0 => I = {}
              /\ at # 0 => at \in I /\ \A i \in 1..(at - 1) : i \notin I
<1>1. CASE I = {}
  BY <1>1
<1>2. CASE I # {}
  <2>1. Min(I) \in I /\ \A k \in I : Min(I) <= k
    BY <1>2, LeastExists
  <2> DEFINE least == Min(I)
  <2>2. least \in I /\ \A k \in I : least <= k
    BY <2>1
  <2> HIDE DEF least
  <2>3. least \in 1..n
    BY <2>2
  <2>4. \A i \in 1..(least - 1) : i \notin I
    BY <2>2, <2>3
  <2> QED  BY <1>2, <2>2, <2>3, <2>4 DEF least
<1> QED  BY <1>1, <1>2

\* In a policy of any length a deny rule is found wherever it stands, and what is
\* found is the first that denies the same between the same two, of some ports at
\* least; the search compares four fields of the five (find_matching_deny).
THEOREM DenyIsFoundForAll ==
    ASSUME NEW A, NEW P, NEW N, NEW Q, NEW policy \in Policies(A, P, N, Q),
           NEW scope, NEW spokes
    PROVE  DenyIsFound(policy, scope, spokes)
<1> DEFINE rule == BuildDenyRule(scope, "icmp", spokes[1], spokes[2])
           Matches(r) == /\ r.action = "deny" /\ r.protocol = rule.protocol
                         /\ r.src = rule.src /\ r.dst = rule.dst
           Denies(r) == [r EXCEPT !.ports = ANY] = rule
           I == {i \in 1..Len(policy) : Matches(policy[i])}
           at == FindMatchingDeny(policy, rule)
<1>1. /\ Len(policy) \in Nat /\ DOMAIN policy = 1..Len(policy)
      /\ \A i \in DOMAIN policy :
            policy[i] \in [action : A, protocol : P, ports : Q, src : N, dst : N]
  <2> DEFINE R == [action : A, protocol : P, ports : Q, src : N, dst : N]
  <2>1. policy \in Seq(R)
    BY DEF Policies
  <2> HIDE DEF R
  <2>2. /\ Len(policy) \in Nat /\ DOMAIN policy = 1..Len(policy)
        /\ \A i \in DOMAIN policy : policy[i] \in R
    BY <2>1
  <2> QED  BY <2>2 DEF R
<1>2. rule = [ action |-> "deny", protocol |-> rule.protocol, ports |-> ANY,
               src |-> rule.src, dst |-> rule.dst ]
  BY DEF BuildDenyRule
<1> HIDE DEF rule
\* Four equal fields are equality but for the ports.
<1>3. \A i \in DOMAIN policy : Matches(policy[i]) <=> Denies(policy[i])
  <2> SUFFICES ASSUME NEW r \in [action : A, protocol : P, ports : Q, src : N, dst : N]
               PROVE  Matches(r) <=> Denies(r)
    BY <1>1
  <2>1. [r EXCEPT !.ports = ANY] = [ action |-> r.action, protocol |-> r.protocol, ports |-> ANY,
                                    src |-> r.src, dst |-> r.dst ]
    OBVIOUS
  <2> QED  BY <2>1, <1>2
<1>4. \A i \in DOMAIN policy : Denies(policy[i]) /\ policy[i].ports = ANY => policy[i] = rule
  <2> SUFFICES ASSUME NEW r \in [action : A, protocol : P, ports : Q, src : N, dst : N],
                      r.ports = ANY
               PROVE  [r EXCEPT !.ports = ANY] = r
    BY <1>1
  <2> QED  OBVIOUS
<1>5. rule \in ToSet(policy) => \E i \in DOMAIN policy : policy[i] = rule /\ Matches(policy[i])
  <2>1. Matches(rule)
    BY <1>2
  <2> QED  BY <2>1 DEF ToSet
<1>6. at = IF I # {} THEN Min(I) ELSE 0
  BY DEF FindMatchingDeny, SelectInSeq
<1>7. I \subseteq 1..Len(policy)
  OBVIOUS
<1>8. \A i : i \in I <=> i \in DOMAIN policy /\ Denies(policy[i])
  BY <1>1, <1>3
<1>9. rule \in ToSet(policy) => I # {}
  BY <1>1, <1>5
<1> HIDE DEF I, Matches, Denies, at
<1>10. /\ at = 0 => I = {}
       /\ at # 0 => at \in I /\ \A i \in 1..(at - 1) : i \notin I
  BY <1>1, <1>6, <1>7, FirstPlace
<1>11. at # 0 => /\ Denies(policy[at]) /\ \A i \in 1..(at - 1) : ~Denies(policy[i])
                 /\ policy[at] = rule \/ policy[at].ports # ANY
  <2> SUFFICES ASSUME at # 0
               PROVE  /\ Denies(policy[at]) /\ \A i \in 1..(at - 1) : ~Denies(policy[i])
                      /\ policy[at] = rule \/ policy[at].ports # ANY
    OBVIOUS
  <2>1. at \in 1..Len(policy) /\ Denies(policy[at])
    BY <1>1, <1>8, <1>10
  <2>2. \A i \in 1..(at - 1) : i \in DOMAIN policy
    BY <1>1, <2>1
  <2> QED  BY <1>4, <1>8, <1>10, <2>1, <2>2
<1>12. at = 0 => \A i \in DOMAIN policy : ~Denies(policy[i])
  BY <1>8, <1>10
<1> QED  BY <1>9, <1>10, <1>11, <1>12 DEF DenyIsFound, rule, at, Denies

\* A candidate has no mismatch exactly if it meets every criterion.
LEMMA NoMismatch ==
    ASSUME NEW criteria, IsSequence(criteria), NEW candidate
    PROVE  FirstMismatch(candidate, criteria) = 0 <=>
             \A j \in DOMAIN criteria :
                CriterionMatches(criteria[j], candidate[criteria[j].attribute])
<1> DEFINE I == {j \in 1..Len(criteria) :
                    ~CriterionMatches(criteria[j], candidate[criteria[j].attribute])}
<1>1. Len(criteria) \in Nat /\ DOMAIN criteria = 1..Len(criteria)
  BY DEF IsSequence
<1>2. FirstMismatch(candidate, criteria) = IF I # {} THEN Min(I) ELSE 0
  BY DEF FirstMismatch, SelectInSeq
<1>3. I # {} => Min(I) # 0
  <2>1. I \subseteq 1..Len(criteria)
    OBVIOUS
  <2> HIDE DEF I
  <2> QED  BY <1>1, <2>1, LeastExists
<1>4. I = {} <=> \A j \in DOMAIN criteria :
                    CriterionMatches(criteria[j], candidate[criteria[j].attribute])
  BY <1>1
<1> QED
  <2> HIDE DEF I
  <2> QED  BY <1>2, <1>3, <1>4

\* The selection is the first candidate that meets every criterion, or none does
\* and the answer says of each one where it fails.
THEOREM OneCandidateForAll ==
    ASSUME NEW candidates, IsSequence(candidates), NEW criteria, IsSequence(criteria),
           NEW vocabulary
    PROVE  OneCandidate(candidates, criteria, vocabulary)
<1> DEFINE answer == SelectOne(candidates, criteria, vocabulary)
           Meets(i) == \A j \in DOMAIN criteria :
                          CriterionMatches(criteria[j], candidates[i][criteria[j].attribute])
           I == {i \in 1..Len(candidates) : FirstMismatch(candidates[i], criteria) = 0}
           at == IF I # {} THEN Min(I) ELSE 0
<1>1. Len(candidates) \in Nat /\ DOMAIN candidates = 1..Len(candidates)
  BY DEF IsSequence
<1>2. \A i : FirstMismatch(candidates[i], criteria) = 0 <=> Meets(i)
  BY NoMismatch
<1>3. answer # RAISES =>
        answer = <<at, IF at # 0 THEN <<>>
                       ELSE [i \in DOMAIN candidates |-> FirstMismatch(candidates[i], criteria)]>>
  BY DEF SelectOne, SelectInSeq
<1>4. I \subseteq 1..Len(candidates) /\ \A i \in 1..Len(candidates) : i \in I <=> Meets(i)
  BY <1>2
<1>5. /\ at = 0 => \A i \in DOMAIN candidates : ~Meets(i)
      /\ at # 0 => Meets(at) /\ \A i \in 1..(at - 1) : ~Meets(i)
  <2> HIDE DEF I, Meets
  <2>1. CASE I = {}
    BY <1>1, <1>4, <2>1
  <2>2. CASE I # {}
    <3>1. at \in I /\ \A k \in I : at <= k
      BY <1>1, <1>4, <2>2, LeastExists
    <3> HIDE DEF at
    <3>2. at \in 1..Len(candidates) /\ Meets(at)
      BY <1>4, <3>1
    <3>3. \A i \in 1..(at - 1) : i \in 1..Len(candidates) /\ ~(at <= i)
      BY <1>1, <3>2
    <3> QED  BY <1>4, <3>1, <3>2, <3>3
  <2> QED  BY <2>1, <2>2
<1>6. Len([i \in DOMAIN candidates |-> FirstMismatch(candidates[i], criteria)])
        = Len(candidates)
  BY <1>1
<1> QED
  <2>1. CASE answer = RAISES
    BY <2>1 DEF OneCandidate
  <2>2. CASE answer # RAISES
    <3>1. /\ answer[1] = at
          /\ at = 0 => Len(answer[2]) = Len(candidates)
      <4> HIDE DEF I, at, answer
      <4> QED  BY <1>3, <1>6, <2>2
    <3>2. IF answer[1] = 0 THEN /\ Len(answer[2]) = Len(candidates)
                                /\ \A i \in DOMAIN candidates : ~Meets(i)
          ELSE Meets(answer[1]) /\ \A i \in 1..(answer[1] - 1) : ~Meets(i)
      <4> HIDE DEF I, at, answer, Meets
      <4> QED  BY <1>5, <3>1
    <3> QED  BY <3>2 DEF OneCandidate
  <2> QED  BY <2>1, <2>2

----------------------------------------------------------------------------
\* The records that replaced a released dict, over any pids, logs, flows, facts,
\* definitions and peers.
Session(Pid, Log) ==
    {IperfSession(a, b) : a \in [pid : Pid, log : Log], b \in [pid : Pid, log : Log]}
Pair(Side) == {FlowPair(a, b) : a \in Side, b \in Side}
Verification(Facts, Defined, Peers) ==
    {HomeVerification(f, d) :
        f \in Facts, d \in [defined : Defined, peer_states : [Peers -> DOMAIN VPN_PEER_STATES]]}

LEMMA SessionTold ==
    ASSUME NEW Pid, NEW Log, NEW r \in Session(Pid, Log)
    PROVE  /\ r.fields \in [sender : [pid : Pid, log : Log], receiver : [pid : Pid, log : Log]]
           /\ Released(r).sender_pid = r.fields.sender.pid
           /\ Released(r).sender_log = r.fields.sender.log
           /\ Released(r).receiver_pid = r.fields.receiver.pid
           /\ Released(r).receiver_log = r.fields.receiver.log
  BY DEF Session, IperfSession, Released

LEMMA SessionsReleased ==
    ASSUME NEW Pid, NEW Log, NEW a \in Session(Pid, Log), NEW b \in Session(Pid, Log),
           Released(a) = Released(b)
    PROVE  a.fields = b.fields
<1>1. /\ a.fields.sender.pid = b.fields.sender.pid
      /\ a.fields.sender.log = b.fields.sender.log
      /\ a.fields.receiver.pid = b.fields.receiver.pid
      /\ a.fields.receiver.log = b.fields.receiver.log
  BY SessionTold
<1>2. a.fields.sender = b.fields.sender /\ a.fields.receiver = b.fields.receiver
  BY <1>1, SessionTold
<1> QED  BY <1>2, SessionTold

LEMMA StatesTold ==
    \A s, t \in DOMAIN VPN_PEER_STATES : VPN_PEER_STATES[s] = VPN_PEER_STATES[t] => s = t
  BY DEF VPN_PEER_STATES

LEMMA VerificationTold ==
    ASSUME NEW Facts, NEW Defined, NEW Peers, NEW r \in Verification(Facts, Defined, Peers)
    PROVE  /\ r.fields \in [facts : Facts, details :
                   [defined : Defined, peer_states : [Peers -> DOMAIN VPN_PEER_STATES]]]
           /\ Released(r).facts = r.fields.facts
           /\ Released(r).details.defined = r.fields.details.defined
           /\ \A p \in Peers : Released(r).details.peer_states[p]
                                 = VPN_PEER_STATES[r.fields.details.peer_states[p]]
  BY DEF Verification, HomeVerification, Released, HomeDetails

LEMMA VerificationsReleased ==
    ASSUME NEW Facts, NEW Defined, NEW Peers,
           NEW a \in Verification(Facts, Defined, Peers),
           NEW b \in Verification(Facts, Defined, Peers),
           Released(a) = Released(b)
    PROVE  a.fields = b.fields
<1> DEFINE c == a.fields.details
           d == b.fields.details
<1>1. a.fields.facts = b.fields.facts /\ c.defined = d.defined
  BY VerificationTold
<1>2. \A p \in Peers :
         VPN_PEER_STATES[c.peer_states[p]] = VPN_PEER_STATES[d.peer_states[p]]
  BY VerificationTold
<1>3. /\ c \in [defined : Defined, peer_states : [Peers -> DOMAIN VPN_PEER_STATES]]
      /\ d \in [defined : Defined, peer_states : [Peers -> DOMAIN VPN_PEER_STATES]]
  BY VerificationTold
<1>4. \A p \in Peers : c.peer_states[p] = d.peer_states[p]
  BY <1>2, <1>3, StatesTold
<1>5. c = d
  BY <1>1, <1>3, <1>4
<1> QED  BY <1>1, <1>5, VerificationTold

LEMMA PairsReleased ==
    ASSUME NEW Side, NEW a \in Pair(Side), NEW b \in Pair(Side), Released(a) = Released(b)
    PROVE  a.fields = b.fields
  BY DEF Pair, FlowPair, Released

\* A record is equal to the dict it replaced, and two records of a type are
\* equal exactly when their dicts are.
THEOREM RecordsAreDictsForAll ==
    ASSUME NEW Pid, NEW Log, NEW Side, NEW Facts, NEW Defined, NEW Peers,
           NEW a \in Session(Pid, Log) \cup Pair(Side) \cup Verification(Facts, Defined, Peers),
           NEW b \in Session(Pid, Log) \cup Pair(Side) \cup Verification(Facts, Defined, Peers)
    PROVE  RecordsAreDicts(a, b)
<1> DEFINE dict(r) == [type |-> "dict", items |-> Released(r)]
<1>1. /\ \A r \in Session(Pid, Log) : r.type = "IperfSession"
      /\ \A r \in Pair(Side) : r.type = "FlowPair"
      /\ \A r \in Verification(Facts, Defined, Peers) : r.type = "HomeVerification"
  BY DEF Session, Pair, Verification, IperfSession, FlowPair, HomeVerification
<1>2. a.type # "dict" /\ b.type # "dict"
  BY <1>1
<1>3. \A r, s : Equals(r, dict(s)) <=> Released(r) = Released(s)
  BY DEF Equals
<1>4. Equals(a, b) <=> a.type = b.type /\ a.fields = b.fields
  BY <1>2 DEF Equals
<1>5. Equals(b, a) <=> a.type = b.type /\ a.fields = b.fields
  BY <1>2 DEF Equals
<1>6. ASSUME a.type = b.type, a.fields = b.fields
      PROVE  Released(a) = Released(b)
  BY <1>6 DEF Released
<1>7. ASSUME a.type = b.type, Released(a) = Released(b)
      PROVE  a.fields = b.fields
  BY <1>1, <1>7, SessionsReleased, PairsReleased, VerificationsReleased
<1> QED
  BY <1>3, <1>4, <1>5, <1>6, <1>7 DEF RecordsAreDicts

----------------------------------------------------------------------------
\* A class of a test bed's own, whatever it declares and whatever is registered:
\* it is refused when it drifts, and displaces no other name.
THEOREM ClassIsGatedForAll ==
    ASSUME NEW before, NEW name, NEW class, NEW members,
           class.declares \in [members -> FORMS]
    PROVE  ClassIsGated(before, class, name)
<1> DEFINE inherited == Members(class.extends)
           registry == RegisterDeviceType(before, name, class)
           Drifts == {m \in DOMAIN class.declares \ IDENTITY :
                        \/ class.declares[m] = "scalar"
                        \/ class.declares[m] = "property" /\ m \notin inherited}
<1>1. NonCapabilityMembers(class) = Drifts
  <2>1. \A m : m \in NonCapabilityMembers(class) <=>
                 /\ m \in (inherited \cup DOMAIN class.declares) \ IDENTITY
                 /\ AnnotatedAs(class, m) # "capability"
    BY DEF NonCapabilityMembers
  <2>2. \A m : AnnotatedAs(class, m) =
                 IF m \in DOMAIN class.declares /\ class.declares[m] # "property"
                 THEN class.declares[m]
                 ELSE IF m \in inherited THEN "capability" ELSE "none"
    BY DEF AnnotatedAs
  <2>3. \A m \in DOMAIN class.declares : class.declares[m] \in FORMS
    OBVIOUS
  <2> HIDE DEF inherited
  <2>4. \A m : m \in NonCapabilityMembers(class) <=> m \in Drifts
    BY <2>1, <2>2, <2>3 DEF FORMS
  <2> QED  BY <2>4
<1>2. CASE Drifts # {}
  <2>1. registry = before
    BY <1>1, <1>2 DEF RegisterDeviceType
  <2> QED  BY <1>2, <2>1 DEF ClassIsGated
<1>3. CASE Drifts = {}
  <2>1. registry = [ n \in DOMAIN before \cup {name} |->
                       IF n = name THEN inherited \cup DOMAIN class.declares ELSE before[n] ]
    BY <1>1, <1>3 DEF RegisterDeviceType
  <2>2. GetDeviceType(registry, name) = <<inherited \cup DOMAIN class.declares>>
    <3> HIDE DEF registry, inherited
    <3> QED  BY <2>1 DEF GetDeviceType
  <2>3. inherited \subseteq GetDeviceType(registry, name)[1]
    <3> HIDE DEF registry, inherited
    <3> QED  BY <2>2
  <2>4. \A n \in DOMAIN before \ {name} :
           GetDeviceType(registry, n) = GetDeviceType(before, n)
    <3> HIDE DEF registry, inherited
    <3> QED  BY <2>1 DEF GetDeviceType
  <2> QED  BY <1>3, <2>3, <2>4 DEF ClassIsGated
<1> QED  BY <1>2, <1>3

----------------------------------------------------------------------------
\* A configuration of any length, with repeated entries too, is set as asked.
THEOREM SubnetIsSetForAll ==
    ASSUME NEW Subnet, NEW Role, NEW advertise \in BOOLEAN, NEW vlan, vlan.subnet \in Subnet,
           NEW vlans, NEW peers,
           NEW cfg \in [role : Role, subnets : Seq([subnet : Subnet, advertise : BOOLEAN])]
    PROVE  SubnetIsSet(vlan, vlans, cfg, peers, advertise)
<1> DEFINE Entry == [subnet : Subnet, advertise : BOOLEAN]
           own == VpnSubnet(vlan.subnet, advertise)
           flipped(c) == [i \in DOMAIN c.subnets |->
                            IF c.subnets[i].subnet = vlan.subnet THEN own ELSE c.subnets[i]]
           more(c) == IF advertise /\ ~Has(c, vlan.subnet) THEN <<own>> ELSE <<>>
           rebuilt(c) == [c EXCEPT !.subnets = flipped(c) \o more(c)]
           changed == rebuilt(cfg)
           n == Len(cfg.subnets)
           Facts(c) == VerifyHome(vlan, vlans, c, peers).fields.facts
<1>1. own \in Entry /\ own.subnet = vlan.subnet /\ own.advertise = advertise
  BY DEF VpnSubnet
<1>2. \A c : ChangeSubnet(c, vlan.subnet, advertise) =
               IF rebuilt(c) = c THEN <<>> ELSE <<rebuilt(c)>>
  BY DEF ChangeSubnet, VpnSubnet
<1>3. Written(cfg, ChangeSubnet(cfg, vlan.subnet, advertise)) = changed
  <2> HIDE DEF rebuilt
  <2>1. CASE changed = cfg
    BY <1>2, <2>1 DEF Written
  <2>2. CASE changed # cfg
    <3>1. ChangeSubnet(cfg, vlan.subnet, advertise) = <<changed>>
      BY <1>2, <2>2
    <3> HIDE DEF changed
    <3> QED  BY <3>1 DEF Written
  <2> QED  BY <2>1, <2>2
<1>4. n \in Nat /\ cfg.subnets \in Seq(Entry) /\ DOMAIN cfg.subnets = 1..n
  OBVIOUS
<1>5. flipped(cfg) \in Seq(Entry) /\ Len(flipped(cfg)) = n /\ more(cfg) \in Seq(Entry)
  <2> HIDE DEF own, Entry
  <2> QED  BY <1>1, <1>4
<1>6. changed = [role |-> cfg.role, subnets |-> flipped(cfg) \o more(cfg)]
  <2>1. \A s : [cfg EXCEPT !.subnets = s] = [role |-> cfg.role, subnets |-> s]
    <3> HIDE DEF flipped, more
    <3> QED  OBVIOUS
  <2> HIDE DEF flipped, more
  <2> QED  BY <2>1
<1>7. \A i \in 1..n : changed.subnets[i] = flipped(cfg)[i]
  <2> HIDE DEF flipped, more
  <2> QED  BY <1>5, <1>6
<1>8. /\ Len(changed.subnets) = n + IF advertise /\ ~Has(cfg, vlan.subnet) THEN 1 ELSE 0
      /\ changed.subnets \in Seq(Entry)
      /\ advertise /\ ~Has(cfg, vlan.subnet) => changed.subnets[n + 1] = own
  <2>1. Len(more(cfg)) = (IF advertise /\ ~Has(cfg, vlan.subnet) THEN 1 ELSE 0)
        /\ (advertise /\ ~Has(cfg, vlan.subnet) => more(cfg)[1] = own)
    <3> HIDE DEF own
    <3> QED  OBVIOUS
  <2>2. changed.subnets = flipped(cfg) \o more(cfg)
    <3> HIDE DEF flipped, more
    <3> QED  BY <1>6
  <2> HIDE DEF flipped, more, own, changed, Entry
  <2>3. /\ changed.subnets \in Seq(Entry) /\ Len(changed.subnets) = n + Len(more(cfg))
        /\ \A i \in 1..(n + Len(more(cfg))) :
              changed.subnets[i] = IF i <= n THEN flipped(cfg)[i] ELSE more(cfg)[i - n]
    <3> DEFINE s == flipped(cfg)
               m == more(cfg)
    <3> HIDE DEF s, m, n
    <3>1. s \in Seq(Entry) /\ m \in Seq(Entry) /\ Len(s) = n
      BY <1>5 DEF s, m
    <3>2. /\ s \o m \in Seq(Entry) /\ Len(s \o m) = Len(s) + Len(m)
          /\ \A i \in 1..(Len(s) + Len(m)) :
                (s \o m)[i] = IF i <= Len(s) THEN s[i] ELSE m[i - Len(s)]
      BY <3>1, ConcatProperties, Zenon
    <3>3. changed.subnets = s \o m
      BY <2>2 DEF s, m
    <3>4. /\ changed.subnets \in Seq(Entry) /\ Len(changed.subnets) = n + Len(m)
          /\ \A i \in 1..(n + Len(m)) :
                changed.subnets[i] = IF i <= n THEN s[i] ELSE m[i - n]
      BY <3>1, <3>2, <3>3
    <3> QED  BY <3>4 DEF s, m
  <2>4. Len(more(cfg)) = 1 => changed.subnets[n + 1] = more(cfg)[1]
    <3> HIDE DEF n
    <3> QED  BY <1>4, <2>3
  <2> QED  BY <2>1, <2>3, <2>4
<1>9. \A i \in 1..n : /\ changed.subnets[i].subnet = cfg.subnets[i].subnet
                      /\ cfg.subnets[i].subnet = vlan.subnet => changed.subnets[i] = own
                      /\ cfg.subnets[i].subnet # vlan.subnet => changed.subnets[i] = cfg.subnets[i]
  <2> HIDE DEF own, changed
  <2> QED  BY <1>1, <1>4, <1>7
<1>10. \A i \in 1..Len(changed.subnets) :
          changed.subnets[i].subnet = vlan.subnet => changed.subnets[i] = own
  <2> HIDE DEF own, changed
  <2>1. \A i \in 1..Len(changed.subnets) :
           i \in 1..n \/ (i = n + 1 /\ advertise /\ ~Has(cfg, vlan.subnet))
    BY <1>4, <1>8
  <2> QED  BY <1>8, <1>9, <2>1
<1>11. advertise => \E i \in 1..Len(changed.subnets) : changed.subnets[i] = own
  <2> SUFFICES ASSUME advertise
               PROVE  \E i \in 1..Len(changed.subnets) : changed.subnets[i] = own
    OBVIOUS
  <2> HIDE DEF own, changed
  <2>1. CASE Has(cfg, vlan.subnet)
    <3>1. PICK i \in 1..n : cfg.subnets[i].subnet = vlan.subnet
      BY <1>4, <2>1 DEF Has, ToSet
    <3> QED  BY <1>4, <1>8, <1>9, <3>1
  <2>2. CASE ~Has(cfg, vlan.subnet)
    BY <1>4, <1>8, <2>2
  <2> QED  BY <2>1, <2>2
<1>12. DOMAIN changed.subnets = 1..Len(changed.subnets)
  BY <1>8
<1>13. Facts(changed) = [Facts(cfg) EXCEPT !.subnet_advertised = advertise]
  <2>1. \A c : Facts(c) =
          [ vlan_defined |-> Facts(cfg).vlan_defined,
            subnet_advertised |-> \E s \in ToSet(c.subnets) : s.subnet = vlan.subnet /\ s.advertise,
            peers_reachable |-> Facts(cfg).peers_reachable ]
    BY DEF VerifyHome, HomeVerification
  <2>2. (\E s \in ToSet(changed.subnets) : s.subnet = vlan.subnet /\ s.advertise) <=> advertise
    <3> HIDE DEF own, changed
    <3> QED  BY <1>1, <1>10, <1>11, <1>12 DEF ToSet
  <2>3. Facts(changed) = [ vlan_defined |-> Facts(cfg).vlan_defined,
                           subnet_advertised |-> advertise,
                           peers_reachable |-> Facts(cfg).peers_reachable ]
    <3> HIDE DEF Facts, changed
    <3> QED  BY <2>1, <2>2
  <2>4. \E known \in BOOLEAN :
           Facts(cfg) = [ vlan_defined |-> Facts(cfg).vlan_defined,
                          subnet_advertised |-> known,
                          peers_reachable |-> Facts(cfg).peers_reachable ]
    <3> HIDE DEF Facts
    <3> QED  BY <2>1
  <2> HIDE DEF Facts, changed
  <2> QED  BY <2>3, <2>4
<1>14. rebuilt(changed) = changed
  <2>1. flipped(changed) = changed.subnets
    <3> HIDE DEF own, changed, Entry
    <3>1. \A i \in 1..Len(changed.subnets) : flipped(changed)[i] = changed.subnets[i]
      BY <1>10, <1>12
    <3>2. DOMAIN flipped(changed) = 1..Len(changed.subnets)
      BY <1>12
    <3>3. changed.subnets = [i \in 1..Len(changed.subnets) |-> changed.subnets[i]]
      BY <1>8, <1>12
    <3>4. flipped(changed) = [i \in 1..Len(changed.subnets) |-> flipped(changed)[i]]
      BY <3>2
    <3> HIDE DEF flipped
    <3> QED  BY <3>1, <3>3, <3>4
  <2>2. more(changed) = <<>>
    <3>1. advertise => Has(changed, vlan.subnet)
      <4> HIDE DEF own, changed
      <4> QED  BY <1>1, <1>11, <1>12 DEF Has, ToSet
    <3> HIDE DEF own, changed
    <3> QED  BY <3>1
  <2>3. changed.subnets \o <<>> = changed.subnets
    <3> HIDE DEF changed, Entry
    <3> QED  BY <1>8
  <2>4. [changed EXCEPT !.subnets = changed.subnets] = changed
    <3> HIDE DEF flipped, more
    <3> QED  BY <1>6
  <2> HIDE DEF flipped, more, changed
  <2> QED  BY <2>1, <2>2, <2>3, <2>4
<1>15. ChangeSubnet(changed, vlan.subnet, advertise) = <<>>
  <2> HIDE DEF rebuilt, changed
  <2> QED  BY <1>2, <1>14
<1> QED
  <2>1. changed.role = cfg.role
    BY <1>6
  <2> HIDE DEF changed
  <2> QED  BY <1>3, <1>4, <1>8, <1>9, <1>13, <1>15, <2>1 DEF SubnetIsSet

----------------------------------------------------------------------------
(* The questions of five kinds, of any size, that a test may ask first.    *)

ReleasedRecord(Pid, Log, Side, Facts, Defined, Peers) ==
    Session(Pid, Log) \cup Pair(Side) \cup Verification(Facts, Defined, Peers)

Unbounded(q) ==
    \/ q.about = "size" /\ q.quarters \in Int
    \/ q.about = "decoy" /\ q.inUse \in SUBSET Network /\ q.decoy \in Network
    \/ q.about = "deny" /\ \E A, P, N, Q : q.policy \in Policies(A, P, N, Q)
    \/ q.about = "candidates" /\ IsSequence(q.candidates) /\ IsSequence(q.criteria)
    \/ /\ q.about = "records"
       /\ \E Pid, Log, Side, Facts, Defined, Peers :
             /\ q.a \in ReleasedRecord(Pid, Log, Side, Facts, Defined, Peers)
             /\ q.b \in ReleasedRecord(Pid, Log, Side, Facts, Defined, Peers)

LEMMA UnboundedIsRight ==
    ASSUME Unbounded(asked)
    PROVE  ChoicesAreRight /\ OutputsAreRead /\ RecordsReadAlike
<1>1. CASE asked.about = "size" /\ asked.quarters \in Int
  <2>1. SizesAgree(asked.quarters)
    BY <1>1, SizesAgreeForAll
  <2> QED  BY <1>1, <2>1 DEF ChoicesAreRight, OutputsAreRead, RecordsReadAlike, Asked
<1>2. CASE asked.about = "decoy" /\ asked.inUse \in SUBSET Network /\ asked.decoy \in Network
  <2>1. DecoyIsChecked(asked.inUse, asked.decoy)
    BY <1>2, DecoyIsCheckedForAll
  <2> QED  BY <1>2, <2>1 DEF ChoicesAreRight, OutputsAreRead, RecordsReadAlike, Asked
<1>3. ASSUME asked.about = "deny", NEW A, NEW P, NEW N, NEW Q, asked.policy \in Policies(A, P, N, Q)
      PROVE  ChoicesAreRight /\ OutputsAreRead /\ RecordsReadAlike
  <2>1. DenyIsFound(asked.policy, asked.scope, asked.spokes)
    BY <1>3, DenyIsFoundForAll
  <2> QED  BY <1>3, <2>1 DEF ChoicesAreRight, OutputsAreRead, RecordsReadAlike, Asked
<1>4. CASE /\ asked.about = "candidates"
           /\ IsSequence(asked.candidates) /\ IsSequence(asked.criteria)
  <2>1. OneCandidate(asked.candidates, asked.criteria, asked.vocabulary)
    BY <1>4, OneCandidateForAll
  <2> QED  BY <1>4, <2>1 DEF ChoicesAreRight, OutputsAreRead, RecordsReadAlike, Asked
<1>5. ASSUME asked.about = "records",
             NEW Pid, NEW Log, NEW Side, NEW Facts, NEW Defined, NEW Peers,
             asked.a \in ReleasedRecord(Pid, Log, Side, Facts, Defined, Peers),
             asked.b \in ReleasedRecord(Pid, Log, Side, Facts, Defined, Peers)
      PROVE  ChoicesAreRight /\ OutputsAreRead /\ RecordsReadAlike
  <2>1. RecordsAreDicts(asked.a, asked.b)
    BY <1>5, RecordsAreDictsForAll DEF ReleasedRecord
  <2> QED  BY <1>5, <2>1 DEF ChoicesAreRight, OutputsAreRead, RecordsReadAlike, Asked
<1> QED  BY <1>1, <1>2, <1>3, <1>4, <1>5 DEF Unbounded

\* A question changes nothing on the devices, so that what is proved of Spec above
\* holds of the operations with a question before them.
LEMMA AskingMovesNothing == OpsSpec => Spec
<1>1. OpsInit => Init
  BY DEF OpsInit
<1>2. [OpsNext]_<<vars, asked>> => [Next]_vars
  BY DEF OpsNext, Ask, vars
<1> QED  BY <1>1, <1>2, PTL DEF OpsSpec, Spec

\* Whatever of these is asked, and whatever the operations then do.
THEOREM AnswersOfAnySize ==
    ASSUME \A q \in Questions : Unbounded(q)
    PROVE  OpsSpec => [](ChoicesAreRight /\ OutputsAreRead /\ RecordsReadAlike)
<1> DEFINE Seen == asked = NoQuestion \/ Unbounded(asked)
<1>1. OpsInit => Seen
  BY DEF OpsInit
<1>2. Seen /\ [OpsNext]_<<vars, asked>> => Seen'
  <2> SUFFICES ASSUME Seen, [OpsNext]_<<vars, asked>> PROVE Seen'
    OBVIOUS
  <2>1. CASE asked' = asked
    BY <2>1
  <2>2. CASE Ask
    BY <2>2 DEF Ask
  <2> QED  BY <2>1, <2>2 DEF OpsNext
<1>3. Seen => ChoicesAreRight /\ OutputsAreRead /\ RecordsReadAlike
  BY UnboundedIsRight DEF ChoicesAreRight, OutputsAreRead, RecordsReadAlike, Asked
<1> QED  BY <1>1, <1>2, <1>3, PTL DEF OpsSpec
====
