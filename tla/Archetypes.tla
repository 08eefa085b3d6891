---- MODULE Archetypes ----
(***************************************************************************)
(* The device archetypes (testprotocols/devices): what a device of each    *)
(* kind must have, the registry that maps the type string of an inventory  *)
(* to an archetype, and the check of a driver against it. An archetype is  *)
(* a Protocol class: its own members, all of them capabilities, and the    *)
(* archetype that it extends; a driver is the set of the members it has.   *)
(***************************************************************************)
EXTENDS Naturals, FiniteSets, SequencesExt

----------------------------------------------------------------------------
\* devices/client.py
LanClientDevice ==
    { "ip_interface", "ip_routing", "dhcp_client", "http_client", "http_server", "dns_client",
      "iperf_client", "iperf_server", "pcap", "upnp_client", "multicast_client", "ntp_client",
      "nmap_scanner", "file_transfer", "packet_filter", "arp_client", "vlan_client",
      "network_probe", "data_plane_endpoint" }
WlanClientDevice ==
    { "wifi_client", "ip_interface", "ip_routing", "dhcp_client", "http_client", "iperf_client",
      "iperf_server", "pcap", "upnp_client", "multicast_client", "ntp_client", "nmap_scanner",
      "file_transfer" }
QoeClientDevice == {"qoe_browser", "ip_interface", "dhcp_client", "syslog"}
QoeMeasurementClientDevice ==
    { "iperf_client", "iperf_server", "network_probe", "responder", "pcap", "http_client",
      "attachment", "pipe" }

\* devices/cpe.py
CpeDevice ==
    { "tr069_client", "device_management", "device_lifecycle", "hw_console", "wifi_radio",
      "wifi_bss", "wifi_stations", "wifi_rf", "wifi_transitions", "wifi_onboarding",
      "ip_interface", "ip_routing", "firewall", "nat", "conntrack", "firewall_zones",
      "ntp_client", "network_probe", "wan_endpoint", "lan_endpoint" }

\* devices/cpe_gateway.py
CpeGatewayDevice ==
    { "wan_connection", "wan_admin", "dhcp_client", "port_status", "interface_dhcp",
      "dns_forwarder", "l2_bridge", "wifi_radio", "wifi_bss", "wifi_stations",
      "wifi_onboarding", "wifi_transitions", "firewall_zones", "firewall", "host_filter",
      "auto_port_mapping", "hosts", "info", "health", "syslog", "ntp", "device_lifecycle",
      "admin_credential", "tr069_client", "wan_endpoint", "lan_endpoint" }
CpeGatewayMeshTier == {"wifi_mesh"}
CpeGatewayUspTier == {"usp_agent"}

\* devices/infra.py
AcsDevice == {"tr069_server", "pcap", "file_transfer", "packet_filter"}
ProvisionerDevice == {"dhcp_server", "pcap", "file_transfer", "packet_filter"}
TftpDevice == {"tftp_server"}

\* devices/sdwan.py
SdwanRouterDevice ==
    { "routing", "wan_admin", "static_routes", "bgp", "sdwan_policy", "ip_interface", "pcap",
      "nat", "conntrack" }
SdwanApplianceDevice ==
    { "routing", "static_routes", "bgp", "sdwan_policy", "vpn", "traffic_shaping",
      "l3_firewall", "l7_firewall", "content_filtering", "appliance_nat", "security", "uplinks",
      "lan", "syslog", "info", "ownership", "uplink_ports" }

\* devices/switch.py
L2Switch ==
    { "switch_ports", "switch_vlans", "spanning_tree", "link_aggregation", "port_poe",
      "port_security", "radius", "first_hop_security", "storm_control", "switch_acl",
      "discovery", "mac_table", "port_status", "switch_qos", "syslog", "ntp", "placement",
      "info" }
L3Switch ==
    { "routed_interfaces", "static_routes", "routing_read", "ospf", "interface_dhcp",
      "gateway_redundancy" }
L3SwitchRouted == {"bgp"}

\* devices/traffic.py
TrafficControllerDevice == {"netem", "ip_interface", "pcap", "syslog"}
IperfTrafficGeneratorDevice == {"iperf_generator", "ip_interface"}

\* devices/voice.py
SipPhoneDevice == {"sip_phone", "ip_interface", "dhcp_client"}
SipServerDevice == {"sip_server", "pcap", "file_transfer"}

\* devices/wan.py
WanServerDevice ==
    { "ip_interface", "ip_routing", "dhcp_client", "http_client", "http_server", "dns_client",
      "iperf_client", "iperf_server", "pcap", "ntp_client", "nmap_scanner", "file_transfer",
      "snmp_client", "packet_filter", "nat", "conntrack", "network_probe", "data_plane_endpoint" }

----------------------------------------------------------------------------
OWN ==
    [ LanClientDevice |-> LanClientDevice,
      WlanClientDevice |-> WlanClientDevice,
      QoeClientDevice |-> QoeClientDevice,
      QoeMeasurementClientDevice |-> QoeMeasurementClientDevice,
      CpeDevice |-> CpeDevice,
      CpeGatewayDevice |-> CpeGatewayDevice,
      CpeGatewayMeshTier |-> CpeGatewayMeshTier,
      CpeGatewayUspTier |-> CpeGatewayUspTier,
      AcsDevice |-> AcsDevice,
      ProvisionerDevice |-> ProvisionerDevice,
      TftpDevice |-> TftpDevice,
      SdwanRouterDevice |-> SdwanRouterDevice,
      SdwanApplianceDevice |-> SdwanApplianceDevice,
      L2Switch |-> L2Switch,
      L3Switch |-> L3Switch,
      L3SwitchRouted |-> L3SwitchRouted,
      TrafficControllerDevice |-> TrafficControllerDevice,
      IperfTrafficGeneratorDevice |-> IperfTrafficGeneratorDevice,
      SipPhoneDevice |-> SipPhoneDevice,
      SipServerDevice |-> SipServerDevice,
      WanServerDevice |-> WanServerDevice ]
Archetypes == DOMAIN OWN

\* The classes that extend another archetype; the others extend the identity only.
EXTENDED == [ QoeMeasurementClientDevice |-> "QoeClientDevice",
              CpeGatewayMeshTier |-> "CpeGatewayDevice",
              CpeGatewayUspTier |-> "CpeGatewayDevice",
              L3Switch |-> "L2Switch",
              L3SwitchRouted |-> "L3Switch" ]

IDENTITY == {"device_name", "device_type"}
Ancestors(a) ==
    LET up[n \in 0..Cardinality(DOMAIN EXTENDED)] ==
            IF n = 0 THEN {a}
            ELSE up[n - 1] \cup {EXTENDED[b] : b \in up[n - 1] \cap DOMAIN EXTENDED}
    IN up[Cardinality(DOMAIN EXTENDED)]
Members(a) == IDENTITY \cup UNION {OWN[b] : b \in Ancestors(a)}

\* isinstance on a runtime-checkable Protocol looks for the members alone.
Satisfies(driver, a) == Members(a) \subseteq driver

\* A class of a test bed's own extends an archetype and declares members, each
\* in a form. The annotation of a member is the one of the class nearest to it
\* that has one: a property or a method has none.
FORMS == {"capability", "scalar", "property"}
AnnotatedAs(class, member) ==
    IF member \in DOMAIN class.declares /\ class.declares[member] # "property"
    THEN class.declares[member]
    ELSE IF member \in Members(class.extends) THEN "capability" ELSE "none"
NonCapabilityMembers_OwnOnly(class) ==
    {m \in DOMAIN class.declares \ IDENTITY : class.declares[m] # "capability"}
NonCapabilityMembers(class) ==
    {m \in (Members(class.extends) \cup DOMAIN class.declares) \ IDENTITY :
        AnnotatedAs(class, m) # "capability"}

\* The registry: the members of the class registered under each name. A class
\* that is refused leaves it as it is.
RegisterDeviceType(registry, name, class) ==
    IF NonCapabilityMembers(class) # {} THEN registry
    ELSE [ n \in DOMAIN registry \cup {name} |->
             IF n = name THEN Members(class.extends) \cup DOMAIN class.declares ELSE registry[n] ]

\* The modules in the order of the import, and the registrations of each.
REGISTRATIONS ==
    << <<"linux_lan_client", "LanClientDevice">>,
       <<"linux_wlan_client", "WlanClientDevice">>,
       <<"linux_qoe_client", "QoeClientDevice">>,
       <<"linux_qoe_measurement_client", "QoeMeasurementClientDevice">>,
       <<"linux_cpe", "CpeDevice">>,
       <<"cpe_gateway", "CpeGatewayDevice">>,
       <<"linux_acs", "AcsDevice">>,
       <<"linux_provisioner", "ProvisionerDevice">>,
       <<"linux_tftp", "TftpDevice">>,
       <<"linux_sdwan_router", "SdwanRouterDevice">>,
       <<"sdwan_appliance", "SdwanApplianceDevice">>,
       <<"managed_switch_l2", "L2Switch">>,
       <<"managed_switch_l3", "L3Switch">>,
       <<"managed_switch_l3_routed", "L3SwitchRouted">>,
       <<"linux_traffic_controller", "TrafficControllerDevice">>,
       <<"iperf_traffic_generator", "IperfTrafficGeneratorDevice">>,
       <<"linux_sip_phone", "SipPhoneDevice">>,
       <<"linux_sip_server", "SipServerDevice">>,
       <<"linux_wan_server", "WanServerDevice">> >>
Registry ==
    FoldLeft(LAMBDA registry, r :
                 RegisterDeviceType(registry, r[1], [extends |-> r[2], declares |-> <<>>]),
             <<>>, REGISTRATIONS)
GetDeviceType(registry, name) == IF name \in DOMAIN registry THEN <<registry[name]>> ELSE <<>>
====
