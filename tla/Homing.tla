------------------------------- MODULE Homing -------------------------------
(***************************************************************************)
(* Homing clients on the appliances of an overlay                          *)
(* (packages/testoperations/src/testoperations/homing.py): realize,        *)
(* home_client and set_subnet_advertised, one driver operation at a time,  *)
(* over appliances whose overlay configuration is replaced whole.          *)
(*                                                                         *)
(* A call is a sequence of driver operations; any of them may raise before *)
(* or after it took effect, and the exception ends the call where it       *)
(* stands.  Calls follow one another on whatever the last one left.        *)
(*                                                                         *)
(* A client stands for its fixed VLAN and its subnet.  A configuration is  *)
(* the entry it has for each subnet; role, hubs and the order of the       *)
(* entries are left out.                                                   *)
(***************************************************************************)
EXTENDS Naturals, Sequences, FiniteSets

CONSTANTS
    Clients,        \* clients with a fixed VLAN and subnet
    Statics,        \* subnets local to an appliance by a static route
    Appliances,
    List,           \* all_appliances, in the caller's order
    Assignments,    \* the assignment lists realize may be given
    None,           \* no previous appliance
    MaxCalls        \* bound: how many calls follow one another

ASSUME ListAssumption == /\ List \in Seq(Appliances)
                         /\ \A a \in Appliances : \E n \in 1..Len(List) : List[n] = a
Assignment == [client : Clients, target : Appliances]
ASSUME AssignmentsAssumption == Assignments \subseteq Seq(Assignment)
ASSUME NoneAssumption == None \notin Appliances
ASSUME StaticsAssumption == Statics \cap Clients = {}
ASSUME CallsAssumption == MaxCalls \in Nat

Subnets == Clients \cup Statics
\* Where a client is withdrawn from: a LAN side and an overlay side, or neither.
Former == [lan : Appliances \cup {None}, vpn : Appliances \cup {None}]
Entry == {"absent", "on", "off"}
Realized == "realize"

VARIABLES
    defined,    \* the clients whose VLAN each appliance defines
    entry,      \* each appliance's overlay entry for each subnet
    pc,         \* the driver operation the call is at
    op,         \* the last call made
    assigns,    \* its assignments
    sweep,      \* the appliances it withdraws from
    k,          \* the assignment it is at
    j,          \* the appliance it is at
    last,       \* how the last call ended
    calls,      \* how many calls were made
    settledAt   \* the topology was already realized when this realize began

vars == <<defined, entry, pc, op, assigns, sweep, k, j, last, calls, settledAt>>
call == <<op, assigns, sweep, calls, settledAt>>

Definers(c) == {a \in Appliances : c \in defined[a]}
Advertisers(c) == {a \in Appliances : entry[a][c] = "on"}

Client == assigns[k].client
Target == assigns[k].target

\* The assignments whose client no later one moves again.
Final(as) == {m \in 1..Len(as) : \A n \in (m + 1)..Len(as) : as[n].client # as[m].client}

SettledOn(c, t) ==
    /\ Definers(c) = {t}
    /\ \A a \in Appliances : entry[a][c] = IF a = t THEN "on" ELSE "absent"

Settled(as) == \A m \in Final(as) : SettledOn(as[m].client, as[m].target)
-----------------------------------------------------------------------------
\* Clients start at home somewhere, nowhere, or on every appliance at once.
Init ==
    /\ \E home \in [Clients -> SUBSET Appliances] :
          /\ \A c \in Clients : Cardinality(home[c]) <= 1 \/ home[c] = Appliances
          /\ defined = [a \in Appliances |-> {c \in Clients : a \in home[c]}]
          /\ entry = [a \in Appliances |->
                [s \in Subnets |-> IF s \in Clients /\ a \in home[s]
                                   THEN "on" ELSE "absent"]]
    /\ pc = "idle" /\ op = "none" /\ last = "none"
    /\ assigns = <<>> /\ sweep = <<>>
    /\ k = 1 /\ j = 1 /\ calls = 0
    /\ settledAt = FALSE

Begin(name) ==
    /\ pc = "idle" /\ calls < MaxCalls
    /\ calls' = calls + 1
    /\ op' = name
    /\ k' = 1 /\ j' = 1
    /\ UNCHANGED <<defined, entry>>

\* realize(assignments, all_appliances)
Realize(as) ==
    /\ Begin(Realized)
    /\ assigns' = as
    /\ sweep' = [n \in 1..Len(List) |-> [lan |-> List[n], vpn |-> List[n]]]
    /\ settledAt' = (Settled(as) /\ Final(as) = 1..Len(as))
    /\ IF as = <<>> THEN pc' = "idle" /\ last' = "ok"
                    ELSE pc' = "sweep" /\ last' = last

\* The appliances with an entry for a client's subnet, advertised or not.
Holders(c) == {a \in Appliances : entry[a][c] # "absent"}

\* home_client: the caller names where a VLAN and where an entry is left, each or neither.
HomeClient(c, t, lan, vpn) ==
    /\ Begin("home_client")
    /\ Definers(c) \ {t} \subseteq {lan} /\ Holders(c) \ {t} \subseteq {vpn}
    /\ assigns' = <<[client |-> c, target |-> t]>>
    /\ sweep' = <<[lan |-> lan, vpn |-> vpn]>>
    /\ settledAt' = FALSE
    /\ pc' = "sweep" /\ last' = last

\* Flip one local subnet: an entry keeps its place, an absent one is only added.
Flip(old, advertise) ==
    IF advertise THEN "on" ELSE IF old = "absent" THEN "absent" ELSE "off"

\* set_subnet_advertised, for a subnet that stays local to the appliance.
SetSubnetAdvertised(a, s, advertise) ==
    /\ pc = "idle" /\ calls < MaxCalls
    /\ s \in Clients => Definers(s) = {a} /\ Advertisers(s) \subseteq {a}
    /\ entry' = [entry EXCEPT ![a][s] = Flip(@, advertise)]
    /\ calls' = calls + 1 /\ op' = "set_subnet_advertised" /\ last' = "ok"
    /\ assigns' = <<>> /\ sweep' = <<>> /\ settledAt' = FALSE
    /\ k' = 1 /\ j' = 1
    /\ UNCHANGED <<defined, pc>>
-----------------------------------------------------------------------------
(* The driver operations of realize and home_client.                       *)

\* An operation of the call runs and the call goes on as `then` says ...
Goes(then) == then /\ last' = last

\* ... or it raises, with or without its effect, and ends the call.
Raises(effect) ==
    /\ effect \/ UNCHANGED <<defined, entry>>
    /\ pc' = "idle" /\ last' = "failed"
    /\ UNCHANGED <<k, j>>

\* `if ap is a.target: continue` -- realize's sweep only.
SkipTarget ==
    /\ pc = "sweep" /\ j <= Len(sweep)
    /\ op = Realized /\ sweep[j].lan = Target
    /\ j' = j + 1
    /\ UNCHANGED <<defined, entry, pc, k, last, call>>

\* `if previous_lan is not None`, `if previous_vpn is not None` -- home_client's only.
NoPrevious ==
    /\ j <= Len(sweep)
    /\ \/ pc = "sweep" /\ sweep[j].lan = None /\ pc' = "withdraw" /\ j' = j
       \/ pc = "withdraw" /\ sweep[j].vpn = None /\ pc' = "sweep" /\ j' = j + 1
    /\ UNCHANGED <<defined, entry, k, last, call>>

\* Mutant: the target's own VLAN is deleted with the others'.
Swept_All == j <= Len(sweep)

Swept == j <= Len(sweep) /\ ~(op = Realized /\ sweep[j].lan = Target)

\* _delete_if_present
DeleteVlan ==
    /\ defined' = [defined EXCEPT ![sweep[j].lan] = @ \ {Client}]
    /\ UNCHANGED entry

Delete ==
    /\ pc = "sweep" /\ Swept /\ sweep[j].lan # None
    /\ \/ DeleteVlan /\ Goes(pc' = "withdraw" /\ UNCHANGED <<k, j>>)
       \/ Raises(DeleteVlan)
    /\ UNCHANGED call

\* Mutant: withdrawing keeps the entry of a VLAN that is gone.
DropEntry_Kept ==
    /\ entry' = [entry EXCEPT ![sweep[j].vpn][Client] =
                    IF @ = "absent" THEN "absent" ELSE "off"]
    /\ UNCHANGED defined

\* _set_advertise(..., False) drops the entry.
DropEntry ==
    /\ entry' = [entry EXCEPT ![sweep[j].vpn][Client] = "absent"]
    /\ UNCHANGED defined

Withdraw ==
    /\ pc = "withdraw" /\ sweep[j].vpn # None
    /\ \/ DropEntry /\ Goes(pc' = "sweep" /\ j' = j + 1 /\ k' = k)
       \/ Raises(DropEntry)
    /\ UNCHANGED call

SetVlan ==
    /\ defined' = [defined EXCEPT ![Target] = @ \cup {Client}]
    /\ UNCHANGED entry

\* Mutant: the target is defined before the last appliance is swept.
Define_Early ==
    /\ pc = "sweep" /\ j >= Len(sweep)
    /\ \/ SetVlan /\ Goes(pc' = "advertise" /\ UNCHANGED <<k, j>>)
       \/ Raises(SetVlan)
    /\ UNCHANGED call

Define ==
    /\ pc = "sweep" /\ j > Len(sweep)
    /\ \/ SetVlan /\ Goes(pc' = "advertise" /\ UNCHANGED <<k, j>>)
       \/ Raises(SetVlan)
    /\ UNCHANGED call

\* _set_advertise(..., True) replaces the entry in one write.
AddEntry ==
    /\ entry' = [entry EXCEPT ![Target][Client] = "on"]
    /\ UNCHANGED defined

\* The next assignment, or the return.
Advance ==
    IF k < Len(assigns)
    THEN pc' = "sweep" /\ k' = k + 1 /\ j' = 1 /\ last' = last
    ELSE pc' = "idle" /\ last' = "ok" /\ UNCHANGED <<k, j>>

Advertise ==
    /\ pc = "advertise"
    /\ \/ AddEntry /\ Advance
       \/ Raises(AddEntry)
    /\ UNCHANGED call

Calls ==
    \/ \E as \in Assignments : Realize(as)
    \/ \E c \in Clients, t \in Appliances, lan, vpn \in Appliances \cup {None} :
          HomeClient(c, t, lan, vpn)
    \/ \E a \in Appliances, s \in Subnets, advertise \in BOOLEAN :
          SetSubnetAdvertised(a, s, advertise)

\* No more calls are made.
Finished == pc = "idle" /\ calls = MaxCalls /\ UNCHANGED vars

Next ==
    \/ Calls \/ SkipTarget \/ NoPrevious
    \/ Delete \/ Withdraw \/ Define \/ Advertise \/ Finished

Spec == Init /\ [][Next]_vars
-----------------------------------------------------------------------------
TypeOK ==
    /\ defined \in [Appliances -> SUBSET Clients]
    /\ entry \in [Appliances -> [Subnets -> Entry]]
    /\ pc \in {"idle", "sweep", "withdraw", "advertise"}
    /\ op \in {"none", Realized, "home_client", "set_subnet_advertised"}
    /\ assigns \in Seq(Assignment)
    /\ sweep \in Seq(Former)
    /\ k \in Nat \ {0} /\ (pc # "idle" => k <= Len(assigns))
    /\ j \in 1..(Len(sweep) + 1)
    /\ last \in {"none", "ok", "failed"}
    /\ calls \in 0..MaxCalls
    /\ settledAt \in BOOLEAN

Overlay == INSTANCE ClientHome WITH
    definers <- [c \in Clients |-> Definers(c)],
    advertisers <- [c \in Clients |-> Advertisers(c)]

\* "Withdraw-before-define", "single-definer invariant": whatever fails, and in
\* whatever order calls follow one another, every step of a call is one the
\* overlay's promise allows.
ImplementsClientHome == Overlay!Spec

\* "Apply a whole homing topology ..., enforcing single-definer.  Safe to re-run":
\* a realize that returns leaves every client defined and advertised by its target
\* alone and no trace elsewhere, also over what failed calls left behind.
RealizeSettles ==
    pc = "idle" /\ op = Realized /\ last = "ok" => Settled(assigns)

\* A re-run of a topology that is already in place disturbs nobody, not even for
\* the time between two driver calls, and not even if it is cut short.
RerunDisturbsNothing ==
    [][settledAt /\ pc # "idle" => UNCHANGED <<defined, entry>>]_vars
=============================================================================
