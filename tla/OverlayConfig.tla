---- MODULE OverlayConfig ----
(***************************************************************************)
(* The overlay configuration of an appliance as homing.py reads, changes   *)
(* and replaces it, entry by entry, and what verify_home reads of it.      *)
(* Homing keeps of a configuration what it says of each subnet; here it is *)
(* the list it is, which an operator may have left with repeated entries.  *)
(*                                                                         *)
(* A configuration is [role, subnets], role standing for the hubs too; a   *)
(* VLAN is [id, subnet, gateway]; a peer is [name, state].                 *)
(***************************************************************************)
EXTENDS Records

VpnSubnet(subnet, advertise) == [subnet |-> subnet, advertise |-> advertise]
SiteToSiteVpnConfig(role, subnets) == [role |-> role, subnets |-> subnets]
VpnPeerStatus(name, state) == [name |-> name, state |-> state]
VlanConfig(id, subnet, gateway) == [id |-> id, subnet |-> subnet, gateway |-> gateway]
Has(cfg, subnet) == \E s \in ToSet(cfg.subnets) : s.subnet = subnet

\* _set_advertise: dropped, and added again at the end to advertise it.
SetAdvertise(cfg, subnet, advertise) ==
    [cfg EXCEPT !.subnets =
        SelectSeq(@, LAMBDA s : s.subnet # subnet)
          \o IF advertise THEN <<VpnSubnet(subnet, TRUE)>> ELSE <<>>]

ChangeSubnet_AlwaysAppends(cfg, subnet, advertise) ==
    LET flipped == [i \in DOMAIN cfg.subnets |->
                      IF cfg.subnets[i].subnet = subnet THEN VpnSubnet(subnet, advertise)
                      ELSE cfg.subnets[i]]
    IN << [cfg EXCEPT !.subnets = flipped \o IF advertise THEN <<VpnSubnet(subnet, TRUE)>>
                                             ELSE <<>>] >>
\* set_subnet_advertised: the configuration written, <<>> when it is the one read.
ChangeSubnet(cfg, subnet, advertise) ==
    LET flipped == [i \in DOMAIN cfg.subnets |->
                      IF cfg.subnets[i].subnet = subnet THEN VpnSubnet(subnet, advertise)
                      ELSE cfg.subnets[i]]
        rebuilt == [cfg EXCEPT !.subnets =
                      flipped \o IF advertise /\ ~Has(cfg, subnet)
                                 THEN <<VpnSubnet(subnet, TRUE)>> ELSE <<>>]
    IN IF rebuilt = cfg THEN <<>> ELSE <<rebuilt>>
Written(cfg, write) == IF write = <<>> THEN cfg ELSE write[1]

\* verify_home: `vlans` are those the target defines, by their number.
VerifyHome(vlan, vlans, cfg, peers) ==
    LET defined == IF vlan.id \in DOMAIN vlans THEN <<vlans[vlan.id]>> ELSE <<>>
    IN HomeVerification(
         [ vlan_defined |-> defined # <<>> /\ defined[1].subnet = vlan.subnet
                                           /\ defined[1].gateway = vlan.gateway,
           subnet_advertised |->
               \E s \in ToSet(cfg.subnets) : s.subnet = vlan.subnet /\ s.advertise,
           peers_reachable |-> peers # <<>> /\ \A p \in ToSet(peers) : p.state = "REACHABLE" ],
         [ defined |-> defined,
           peer_states |-> FoldLeft(LAMBDA states, p : (p.name :> p.state) @@ states,
                                    <<>>, peers) ])
====
