---- MODULE Sessions ----
(***************************************************************************)
(* The operations that start, stop or change something on a device by a    *)
(* few driver calls in a row, any of which may raise: iperf_client.py,     *)
(* iperf_generator.py, http_server.py, pcap_capture.py, the external flow  *)
(* of throughput.py, dhcp_client.py, firewall.py, sip_phone.py,            *)
(* wifi_client.py, netem_controller.py, and the renamed members behind     *)
(* them (_renamed.py). A test calls them one after another; two brackets   *)
(* may be open at once, the last one opened is the first to exit.          *)
(*                                                                         *)
(* What holds on the devices is a set of facts <<host, what, key, number>>;*)
(* the processes among them are told apart by their number (a pid).        *)
(***************************************************************************)
EXTENDS Integers, Sequences

CONSTANTS Hosts, Ports,
          Renamed,     \* the hosts whose driver has the new member names
          MaxOps       \* bound of the exploration

ASSUME SessionsAssumption == Renamed \subseteq Hosts /\ MaxOps \in Nat

VARIABLES facts,
          open,      \* the brackets being in, innermost last: the process of each
          held,      \* the processes whose pid or id a caller was given
          stuck,     \* the processes whose stop raised
          partial,   \* the processes started by a call that then raised
          ops,       \* operations so far
          last       \* the last operation: [op, raised, calls], its arguments in `about`

vars == <<facts, open, held, stuck, partial, ops, last>>

PROCESSES == {"http", "tcpdump", "receiver", "sender", "flow"}
Running == {f \in facts : f[2] \in PROCESSES}
Opened == {open[i] : i \in DOMAIN open}

----------------------------------------------------------------------------
\* A driver call: what it makes true and what it ends. An operation makes its
\* calls in order; when one raises, with its effect or without, those after it
\* are not made: the first n of the calls have had their effect.
Call(host, member, adds, removes) ==
    [host |-> host, member |-> member, adds |-> adds, removes |-> removes]
Made(calls, n) == SubSeq(calls, 1, n)
After(made) ==
    (facts \cup UNION {made[i].adds : i \in DOMAIN made})
       \ UNION {made[i].removes : i \in DOMAIN made}

Perform(op, about, calls, n, raised) ==
    /\ ops < MaxOps
    /\ ~raised => n = Len(calls)
    /\ ops' = ops + 1
    /\ facts' = After(Made(calls, n))
    /\ last' = [ op |-> op, about |-> about, raised |-> raised,
                 calls |-> [i \in 1..n |-> <<calls[i].host, calls[i].member>>] ]
\* An operation that keeps nothing between its calls.
Performs(op, about, calls) ==
    /\ \E n \in 0..Len(calls), raised \in BOOLEAN : Perform(op, about, calls, n, raised)
    /\ UNCHANGED <<open, held, stuck, partial>>
\* What a call that raised has started runs, and its pid is gone with the raise.
MayLose(started, raised) ==
    partial' = IF raised THEN partial \cup (started \cap facts') ELSE partial

\* The new name when the driver has it; a migrated driver's alias is not called.
Member(host, new, old) == IF host \in Renamed THEN new ELSE old

Process(host, what, key, n) == <<host, what, key, ops + n>>
Matching(host, what) == {f \in facts : f[1] = host /\ f[2] = what}

\* The members of the drivers, by what each does to its device.
StartSender(p) ==
    Call(p[1], Member(p[1], "start_sender_session", "start_traffic_sender"), {p}, {})
StartReceiver(p) ==
    Call(p[1], Member(p[1], "start_receiver_session", "start_traffic_receiver"), {p}, {})
StopTraffic(p) == Call(p[1], "stop_traffic", {}, {p})
StartTraffic(p) == Call(p[1], "start_traffic", {p}, {})
StopAllTraffic(host) == Call(host, "stop_all_traffic", {}, Matching(host, "flow"))
StartHttpService(p) == Call(p[1], "start_http_service", {p}, {})
StopHttpService(host, port) ==
    Call(host, "stop_http_service", {}, {f \in Matching(host, "http") : f[3] = port})
StartTcpdump(p) == Call(p[1], "start_tcpdump", {p}, {})
StopTcpdump(p) == Call(p[1], "stop_tcpdump", {}, {p})
ReleaseDhcp(host) == Call(host, "release_dhcp", {}, Matching(host, "lease"))
RenewDhcp(lease) == Call(lease[1], "renew_dhcp", {lease}, {})
AddPortMapping(host, name) == Call(host, "add_port_mapping", {<<host, "mapping", name, 0>>}, {})
RemovePortMapping(mapping) == Call(mapping[1], "remove_port_mapping", {}, {mapping})
WifiClientConnect(client, ap) ==
    Call(client, "wifi_client_connect", {<<client, "associated", ap, 0>>},
         Matching(client, "associated") \ {<<client, "associated", ap, 0>>})
SetImpairmentProfile(host) == Call(host, "set_impairment_profile", {<<host, "impaired", "", 0>>}, {})
InjectEvent(host) ==
    Call(host, Member(host, "inject_event", "inject_transient"), {<<host, "impaired", "", 0>>}, {})

----------------------------------------------------------------------------
\* iperf_client.py and iperf_generator.py

StartIperf(client, server, port) ==
    LET receiver == Process(server, "receiver", port, 0)
        sender == Process(client, "sender", port, 0)
    IN \E n \in 0..2, raised \in BOOLEAN :
          /\ Perform("start_iperf", {receiver, sender},
                     <<StartReceiver(receiver), StartSender(sender)>>, n, raised)
          /\ held' = IF raised THEN held ELSE held \cup {receiver, sender}
          /\ MayLose({receiver, sender}, raised)
          /\ UNCHANGED <<open, stuck>>

\* A plain value that names no member of the enum it stands for, or a window
\* text that is no size (_compat.py), is refused before anything starts; so are
\* two peers at one address.
Refuse ==
    /\ Perform("refused", {}, <<>>, 0, TRUE)
    /\ UNCHANGED <<open, held, stuck, partial>>

SaturateLink(a, b) ==
    LET ab == Process(a, "flow", b, 0)
        ba == Process(b, "flow", a, 0)
    IN /\ a # b
       /\ \E n \in 0..2, raised \in BOOLEAN :
             /\ Perform("saturate_link", {ab, ba}, <<StartTraffic(ab), StartTraffic(ba)>>,
                        n, raised)
             /\ held' = IF raised THEN held ELSE held \cup {ab, ba}
             /\ MayLose({ab, ba}, raised)
             /\ UNCHANGED <<open, stuck>>

StopAllGenerators_Tolerant(gens) ==
    \E answering \in SUBSET DOMAIN gens :
       /\ Perform("stop_all_generators", {gens[i] : i \in DOMAIN gens},
                  [i \in DOMAIN gens |-> IF i \in answering THEN StopAllTraffic(gens[i])
                                         ELSE Call(gens[i], "stop_all_traffic", {}, {})],
                  Len(gens), FALSE)
       /\ UNCHANGED <<open, held, stuck, partial>>

\* One after the other; the first that raises ends the walk, and the results of
\* those before it are lost with it.
StopAllGenerators(gens) ==
    Performs("stop_all_generators", {gens[i] : i \in DOMAIN gens},
             [i \in DOMAIN gens |-> StopAllTraffic(gens[i])])

\* The caller stops a process by the pid it holds, or the run ends by itself.
StopHeld ==
    /\ \E p \in held \cap Running :
          /\ p[2] # "flow"
          /\ Perform("stop", {p}, <<StopTraffic(p)>>, 1, FALSE)
    /\ UNCHANGED <<open, held, stuck, partial>>

----------------------------------------------------------------------------
\* http_server.py and pcap_capture.py: the start stands before the `try`. A
\* service on a port that is taken does not start.

EnterHttp_InTry(host, port) ==
    LET service == Process(host, "http", port, 0)
        taken == \E f \in Matching(host, "http") : f[3] = port
    IN \/ /\ ~taken
          /\ Perform("start_http_server", {service}, <<StartHttpService(service)>>, 1, FALSE)
          /\ open' = Append(open, service)
          /\ UNCHANGED <<held, stuck, partial>>
       \/ /\ Perform("refused", {}, <<StopHttpService(host, port)>>, 1, TRUE)
          /\ UNCHANGED <<open, held, stuck, partial>>

EnterHttp(host, port) ==
    LET service == Process(host, "http", port, 0)
        taken == \E f \in Matching(host, "http") : f[3] = port
    IN \E n \in 0..1, raised \in BOOLEAN :
          /\ n = 1 => ~taken
          /\ Perform("start_http_server", {service}, <<StartHttpService(service)>>, n, raised)
          /\ open' = IF raised THEN open ELSE Append(open, service)
          /\ MayLose({service}, raised)
          /\ UNCHANGED <<held, stuck>>

EnterTcpdump(host, interface) ==
    LET capture == Process(host, "tcpdump", interface, 0)
    IN \E n \in 0..1, raised \in BOOLEAN :
          /\ Perform("tcpdump", {capture}, <<StartTcpdump(capture)>>, n, raised)
          /\ open' = IF raised THEN open ELSE Append(open, capture)
          /\ MayLose({capture}, raised)
          /\ UNCHANGED <<held, stuck>>

\* The body has ended or raised: a service is stopped by its port, a capture by
\* the identifier its start returned.
Leave ==
    /\ open # <<>>
    /\ LET p == open[Len(open)]
           stop == IF p[2] = "http" THEN StopHttpService(p[1], p[3]) ELSE StopTcpdump(p)
       IN \E n \in 0..1, raised \in BOOLEAN :
             /\ Perform("exit", {p}, <<stop>>, n, raised)
             /\ open' = SubSeq(open, 1, Len(open) - 1)
             /\ stuck' = IF raised THEN stuck \cup {p} ELSE stuck
    /\ UNCHANGED <<held, partial>>

----------------------------------------------------------------------------
\* throughput.py, measure_external_flow: start, sleep, poll the client's log,
\* stop. What comes of the wait: a session, an error document or no session by
\* the deadline (a read that raises is as either); the stop runs in every case
\* and what it raises is dropped. The start stands before the `try`.

AWAITED == {"session", "error document", "no completed session"}

MeasureExternalFlow(client, port) ==
    LET sender == Process(client, "sender", port, 0)
        start == StartSender(sender)
        stop == StopTraffic(sender)
    IN \/ /\ \E n \in 0..1 : Perform("measure_external_flow", {sender}, <<start>>, n, TRUE)
          /\ MayLose({sender}, TRUE)
          /\ UNCHANGED <<open, held, stuck>>
       \/ \E wait \in AWAITED, n \in 1..2, dropped \in BOOLEAN :
             /\ ~dropped => n = 2
             /\ ops < MaxOps /\ ops' = ops + 1
             /\ facts' = After(Made(<<start, stop>>, n))
             /\ last' = [ op |-> "measure_external_flow", about |-> {sender},
                          raised |-> wait # "session",
                          calls |-> << <<client, start.member>>, <<client, stop.member>> >> ]
             /\ stuck' = IF dropped THEN stuck \cup {sender} ELSE stuck
             /\ UNCHANGED <<open, held, partial>>

----------------------------------------------------------------------------
\* Short sequences that keep nothing between calls.

\* Release, renew, read the address: a renew that raises may leave no lease.
DhcpRenew(host) ==
    LET lease == Process(host, "lease", "", 0)
    IN Performs("dhcp_renew", {lease},
                <<ReleaseDhcp(host), RenewDhcp(lease), Call(host, "get_interface_addr", {}, {})>>)

\* The walk goes over the mappings as they were listed; chain rules stay.
AddMapping(host, name) ==
    /\ Perform("add", {}, <<AddPortMapping(host, name)>>, 1, FALSE)
    /\ UNCHANGED <<open, held, stuck, partial>>
ResetToFactoryDefault(host) ==
    \E listed \in [1..2 -> Matching(host, "mapping")] :
       LET n == IF Matching(host, "mapping") = {listed[1]} THEN 1 ELSE 2
       IN /\ {listed[1], listed[2]} = Matching(host, "mapping")
          /\ Performs("reset_to_factory_default", {host},
                      [i \in 1..n |-> RemovePortMapping(listed[i])])

CallAPhone(host) ==
    Performs("call_a_phone", {host}, << Call(host, "off_hook", {<<host, "off hook", "", 0>>}, {}),
                                        Call(host, "dial", {<<host, "dialled", "", 0>>}, {}) >>)
ShutdownPhone(host) ==
    LET phone == Matching(host, "off hook") \cup Matching(host, "dialled")
    IN Performs("shutdown_phone", {host}, << Call(host, "on_hook", {}, phone),
                                             Call(host, "phone_kill", {}, {}) >>)

\* The client associates to the network name that the access point reports.
ConnectWifiClient(client, ap) ==
    Performs("connect_wifi_client", {client},
             <<Call(ap, "get_bss_config", {}, {}), WifiClientConnect(client, ap)>>)

\* Whatever the probe raises is an answer: the device is offline.
IsCpeOnline(host) ==
    /\ Perform("is_cpe_online", {}, << Call(host, "GPV", {}, {}) >>, 1, FALSE)
    /\ UNCHANGED <<open, held, stuck, partial>>

\* apply_preset replaces the impairment; a transient event is the typed one or
\* the released text.
ApplyPreset(host) == Performs("apply_preset", {host}, <<SetImpairmentProfile(host)>>)
Inject(host) == Performs("inject", {host}, <<InjectEvent(host)>>)

----------------------------------------------------------------------------
Init ==
    /\ facts = {} /\ open = <<>> /\ held = {} /\ stuck = {} /\ partial = {}
    /\ ops = 0
    /\ last = [op |-> "none", about |-> {}, raised |-> FALSE, calls |-> <<>>]

Next ==
    \/ StopHeld \/ Leave \/ Refuse
    \/ \E h \in Hosts, g \in Hosts, p \in Ports : StartIperf(h, g, p)
    \/ \E h \in Hosts, g \in Hosts : SaturateLink(h, g) \/ ConnectWifiClient(h, g)
    \/ \E h \in Hosts, g \in Hosts : h # g /\ StopAllGenerators(<<h, g>>)
    \/ \E h \in Hosts, p \in Ports : EnterHttp(h, p) \/ MeasureExternalFlow(h, p)
    \/ \E h \in Hosts : \/ EnterTcpdump(h, "eth0") \/ DhcpRenew(h)
                         \/ AddMapping(h, "a") \/ AddMapping(h, "b") \/ ResetToFactoryDefault(h)
                         \/ CallAPhone(h) \/ ShutdownPhone(h)
                         \/ IsCpeOnline(h) \/ ApplyPreset(h) \/ Inject(h)

Spec == Init /\ [][Next]_vars

----------------------------------------------------------------------------
TypeOK ==
    /\ ops \in 0..MaxOps
    /\ Opened \cup held \cup stuck \cup partial
          \subseteq Hosts \X PROCESSES \X (Hosts \cup Ports \cup {"eth0"}) \X (0..MaxOps)

\* What a bracket started runs until it exits, whatever was started or failed to
\* start meanwhile; and a process that runs is one whose pid somebody holds, or
\* is left by a stop that raised, or was started by a call that then raised,
\* which takes the pid with it ("The sender is stopped in a finally so no iperf
\* process outlives the call", measure_external_flow).
Accounted ==
    /\ Opened \subseteq Running
    /\ Running \subseteq Opened \cup held \cup stuck \cup partial

\* An operation that returns has done the whole of what it is for, and the walk
\* of stop_all_generators (iperf_generator.py) has not gone past the one that
\* raised; the external flow's sender is gone however the call ended, unless
\* its stop raised, or its start did and had started it.
Ended(what, hosts) == \A h \in hosts : Matching(h, what) = {}
ReturnedMeansDone ==
    /\ last.op = "measure_external_flow" => last.about \cap facts \subseteq stuck \cup partial
    /\ last.raised \/
       CASE last.op \in {"start_iperf", "saturate_link", "start_http_server", "tcpdump"} ->
              last.about \subseteq facts
         [] last.op = "exit" -> last.about \cap facts = {}
         [] last.op = "dhcp_renew" ->
              \A f \in last.about : Matching(f[1], "lease") = {f}
         [] last.op = "stop_all_generators" -> Ended("flow", last.about)
         [] last.op = "reset_to_factory_default" -> Ended("mapping", last.about)
         [] last.op = "shutdown_phone" ->
              Ended("off hook", last.about) /\ Ended("dialled", last.about)
         [] OTHER -> TRUE
====
