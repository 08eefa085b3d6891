----------------------------- MODULE ClientHome -----------------------------
(***************************************************************************)
(* What homing a client promises, seen from the overlay                    *)
(* (packages/testoperations/src/testoperations/homing.py): a client's VLAN *)
(* is defined by an appliance only when no other one defines it or still   *)
(* attracts its traffic, and its subnet is advertised only from where it   *)
(* is defined.  Withdrawing is always allowed.  From one home, or none,    *)
(* no step therefore reaches two.                                          *)
(***************************************************************************)
EXTENDS FiniteSets

CONSTANTS
    Clients,    \* clients with a fixed VLAN and subnet
    Appliances

VARIABLES
    definers,       \* the appliances that define each client's VLAN
    advertisers     \* the appliances that advertise its subnet

vars == <<definers, advertisers>>

Init ==
    /\ definers \in [Clients -> SUBSET Appliances]
    /\ advertisers \in [Clients -> SUBSET Appliances]

Undefine(c, a) ==
    /\ definers' = [definers EXCEPT ![c] = @ \ {a}]
    /\ UNCHANGED advertisers

Withdraw(c, a) ==
    /\ advertisers' = [advertisers EXCEPT ![c] = @ \ {a}]
    /\ UNCHANGED definers

Define(c, a) ==
    /\ definers[c] \subseteq {a} /\ advertisers[c] \subseteq {a}
    /\ definers' = [definers EXCEPT ![c] = {a}]
    /\ UNCHANGED advertisers

Advertise(c, a) ==
    /\ definers[c] = {a} /\ advertisers[c] \subseteq {a}
    /\ advertisers' = [advertisers EXCEPT ![c] = {a}]
    /\ UNCHANGED definers

Next == \E c \in Clients, a \in Appliances :
            Undefine(c, a) \/ Withdraw(c, a) \/ Define(c, a) \/ Advertise(c, a)

Spec == Init /\ [][Next]_vars
=============================================================================
