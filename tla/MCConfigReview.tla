--------------------------- MODULE MCConfigReview ---------------------------
(* Instances of ConfigReview: one scenario for each part of a configuration. *)
EXTENDS ConfigReview

Entry(o, fields) == {<<o, f[1], f[2]>> : f \in fields}

\* A block or a line of its own, and a line written in a block.
Block(kind, id, fields) ==
    [adds |-> Entry(<<kind, id>>, {<<"name", id>>} \cup fields), needs |-> {}, otherwise |-> {}]

Line(kind, id, fields) ==
    [adds |-> Entry(<<kind, id>>, fields), needs |-> {}, otherwise |-> {}]

In(block, kind, id, fields) ==
    [adds |-> Entry(<<kind, id>>, fields), needs |-> {<<block, "name", block[2]>>}, otherwise |-> {}]

Port(id, type, fields) ==
    Entry(<<"interface", id>>, {<<"name", id>>, <<"type", type>>} \cup fields)

On(id, fields) == Line("interface", id, fields)

VpnScenario ==
    [fixed |-> Port("ge1", "ethernet", {<<"description", "customer">>, <<"ip_address", "n1">>}),
     lines |-> {Block("vpn_instance", "A", {}),
                In(<<"vpn_instance", "A">>, "vpn_af", "A4",
                   {<<"vpn_instance", "A">>, <<"family", "ipv4">>, <<"route_distinguisher", "1:1">>}),
                In(<<"vpn_instance", "A">>, "vpn_af", "A6",
                   {<<"vpn_instance", "A">>, <<"family", "ipv6">>, <<"route_distinguisher", "1:1">>,
                    <<"vpn_targets", "1:1">>}),
                On("ge1", {<<"vpn_instance", "A">>}),
                Line("static_route", 1, {<<"network", "p">>, <<"netmask", "24">>,
                                         <<"next_hop", "n1">>, <<"vpn_instance", "A">>})}]

\* BGP routes for an instance that no line defines.
Vpnv4Scenario ==
    [fixed |-> Entry(<<"bgp", "">>, {<<"as_number", "100">>}),
     lines |-> {Block("vpn_instance", "A", {}),
                Line("bgp_vpn", "B", {<<"name", "B">>, <<"peers", "p3">>}),
                Line("vpnv4_peer", "p1", {<<"name", "p1">>}),
                In(<<"vpnv4_peer", "p1">>, "vpnv4_peer", "p1", {<<"enabled", TRUE>>}),
                Line("vpnv4_peer", "p2", {<<"name", "p2">>})}]

QosScenario ==
    [fixed |-> Port("ge1", "ethernet", {<<"description", "customer">>})
                 \cup Entry(<<"traffic_behavior", "limit">>, {<<"name", "limit">>}),
     lines |-> {Block("traffic_classifier", "gold", {<<"if_match_acl", "3001">>}),
                Line("traffic_behavior", "limit", {<<"car", "10M">>, <<"car.red_action", "pass">>}),
                Block("traffic_policy", "P", {<<"classifier", "gold">>, <<"behavior", "limit">>}),
                On("ge1", {<<"traffic_policies_applied", <<"P", "inbound">>>>}),
                On("ge1", {<<"traffic_policies_applied", <<"R", "inbound">>>>,
                           <<"traffic_policies_applied", <<"R", "outbound">>>>}),
                Line("acl", "3001", {<<"number", "3001">>, <<"rule", "any">>})}]

NatScenario ==
    [fixed |-> Port("ge1", "ethernet", {<<"has_nat", TRUE>>}),
     lines |-> {Block("nat_address_group", "1", {<<"vpn_instance", "A">>}),
                Line("nat_outbound", "o1", {<<"acl", "2000">>, <<"address_group", "1">>}),
                Line("acl", "2000", {<<"number", "2000">>}),
                Line("nat_static", "s1", {<<"global_ip", "private">>})}]

NatServerScenario ==
    [fixed |-> Port("ge1", "ethernet", {<<"has_nat", TRUE>>}),
     lines |-> {On("ge1", {<<"qos_profiles_applied", <<"Q", "inbound">>>>}),
                Line("nat_static", "s1", {<<"global_ip", "private">>}),
                Line("nat_server", "v1", {<<"global_port", 22>>}),
                Line("nat_alg", "", {<<"sip", TRUE>>})}]

BngScenario ==
    [fixed |-> Entry(<<"aaa", "">>, {<<"name", "">>})
                 \cup Port("ge1.10", "ethernet", {<<"subinterface_number", 10>>}),
     lines |-> {Block("aaa_domain", "isp", {<<"accounting_scheme", "acct">>,
                                            <<"radius_server_group", "rg">>, <<"ip_pool", "pool">>}),
                Block("accounting_scheme", "acct", {}),
                Block("ip_pool", "pool", {<<"gateway", "n1">>}),
                On("ge1.10", {<<"bas.enabled", TRUE>>, <<"bas.default_domain", "isp">>})}]

Instead(line, facts_without) == [line EXCEPT !.otherwise = facts_without]

\* The first section of the pool ends at one of two addresses.
RadiusScenario ==
    [fixed |-> Entry(<<"aaa", "">>, {<<"name", "">>}) \cup Entry(<<"ip_pool", "pool">>, {<<"name", "pool">>}),
     lines |-> {Block("aaa_domain", "isp", {<<"radius_server_group", "rg">>}),
                Block("radius_server", "rg", {<<"shared_key_type", "simple">>}),
                In(<<"radius_server", "rg">>, "radius_server", "rg",
                   {<<"authentication_servers", "10.0.0.1">>}),
                Instead(Line("ip_pool", "pool", {<<"sections", <<"a", "20">>>>}),
                        Entry(<<"ip_pool", "pool">>, {<<"sections", <<"a", "30">>>>})),
                Line("ip_pool", "pool", {<<"sections", <<"b", "90">>>>})}]

PppoeScenario ==
    [fixed |-> Port("ge1.20", "ethernet", {<<"subinterface_number", 20>>})
                 \cup Port("ge1", "ethernet", {}),
     lines |-> {On("ge1.20", {<<"pppoe.enabled", TRUE>>, <<"pppoe.virtual_template", "VT1">>}),
                On("ge1.20", {<<"bas.enabled", TRUE>>}),
                Block("interface", "VT1", {<<"type", "virtual-template">>,
                                           <<"remote_address_pool", "pool">>}),
                In(<<"interface", "VT1">>, "interface", "VT1",
                   {<<"mtu", 1500>>, <<"ppp_authentication_modes", "pap">>}),
                Block("ip_pool", "pool", {})}]

\* Every shape of list: a range first, last, alone and between numbers.
SwitchingScenario ==
    [fixed |-> Port("ge1", "ethernet", {<<"port_mode", "trunk">>})
                 \cup Port("ge2", "ethernet", {<<"port_mode", "trunk">>, <<"stp_edge_port", TRUE>>})
                 \cup Port("ge3", "ethernet", {<<"port_mode", "hybrid">>,
                                               <<"hybrid_tagged_vlans", <<30, To, 32>>>>}),
     lines |-> {Line("vlan_batch", "1", {<<"words", <<10, To, 12, 20>>>>}),
                Line("vlan_batch", "2", {<<"words", <<20, 30, To, 32>>>>}),
                On("ge1", {<<"trunk_allowed_vlans", <<10, To, 12>>>>}),
                On("ge2", {<<"trunk_allowed_vlans", <<10, To, 11, 15, 4093, To, 4094>>>>}),
                Line("vlan", 11, {<<"vlan_id", 11>>, <<"name", "office">>, <<"description", "office">>})}]

AccessScenario ==
    [fixed |-> Port("ge1", "ethernet", {<<"description", "link">>, <<"port_mode", "access">>})
                 \cup Port("Eth-Trunk1", "eth-trunk", {<<"port_mode", "trunk">>}),
     lines |-> {On("ge1", {<<"access_vlan", 10>>}),
                On("ge1", {<<"user_vlan", 10>>}),
                On("Eth-Trunk1", {<<"trunk_allowed_vlans", AllVlans>>}),
                On("Eth-Trunk1", {<<"members", "ge1">>})}]

StpScenario ==
    [fixed |-> Port("ge1", "ethernet", {<<"description", "link">>, <<"stp_edge_port", TRUE>>}),
     lines |-> {Line("stp", "", {<<"enabled", TRUE>>}),
                Line("stp_instance", "1", {<<"vlans", 31>>}),
                Line("stp_instance", "2", {<<"vlans", 32>>}),
                Instead(Line("stp", "", {<<"mode", "rstp">>}), Entry(<<"stp", "">>, {<<"mode", "mstp">>}))}]

Peer(id, fields) == Entry(<<"bgp_peer", id>>, {<<"name", id>>, <<"remote_as", "200">>} \cup fields)

\* A policy of two nodes: the prefix list is used by the first, the AS path
\* filter by the last.
PoliciesScenario ==
    [fixed |-> Peer("p1", {<<"description", "transit">>})
                 \cup Entry(<<"route_policy", "IN10">>,
                            {<<"name", "IN">>, <<"node", 10>>, <<"action", "permit">>,
                             <<"ip-prefix", "nets">>, <<"apply", "local-preference">>}),
     lines |-> {Line("route_policy", "IN20", {<<"name", "IN">>, <<"node", 20>>, <<"action", "permit">>,
                                              <<"as-path-filter", "far">>}),
                Line("prefix_list", 10, {<<"name", "nets">>, <<"permit", "0.0.0.0/0 le 32">>}),
                Block("as_path_filter", "far", {<<"permit", ".*">>}),
                Instead(Line("bgp_peer", "p1", {<<"route_policy_import", "IN">>}),
                        Entry(<<"bgp_peer", "p1">>, {<<"route_policy_import", "OLD">>}))}]

\* The policies that the first peer applies are nowhere defined.
BgpScenario ==
    [fixed |-> Peer("p1", {}),
     lines |-> {Block("community_filter", "c1", {}),
                Line("bgp_peer", "p2", {<<"name", "p2">>, <<"remote_as", "300">>}),
                Line("bgp_peer", "p1", {<<"route_policy_import", "IN">>}),
                Line("bgp_peer", "p1", {<<"route_policy_export", "OUT">>}),
                Instead(Line("bgp", "", {<<"as_number", "100">>}),
                        Entry(<<"bgp", "">>, {<<"as_number", "200">>}))}]

InProcess(kind, fields) ==
    [Line(kind, "1", fields) EXCEPT !.needs = {<<<<kind, "1">>, "process_id", "1">>}]

CoreScenario ==
    [fixed |-> Port("ge1", "ethernet", {<<"description", "core">>, <<"mpls_enabled", TRUE>>}),
     lines |-> {Line("isis", "1", {<<"process_id", "1">>}),
                InProcess("isis", {<<"network_entity", "49">>}),
                On("ge1", {<<"isis_process_id", "1">>, <<"isis_enabled", TRUE>>}),
                On("ge1", {<<"isis_cost", 10>>})}]

MplsScenario ==
    [fixed |-> Port("ge1", "ethernet", {<<"description", "core">>, <<"mpls_enabled", TRUE>>}),
     lines |-> {On("ge1", {<<"mpls_ldp_enabled", TRUE>>}),
                Line("ldp_remote_peer", "n", {<<"name", "n">>}),
                Line("mpls", "", {<<"enabled", TRUE>>, <<"lsr_id", "1.1.1.1">>}),
                Line("mpls_ldp", "", {<<"enabled", TRUE>>})}]

OspfScenario ==
    [fixed |-> Port("ge1", "ethernet", {<<"description", "core">>}),
     lines |-> {Line("ospf", "1", {<<"process_id", "1">>, <<"networks", "n1">>}),
                Line("ospf", "2", {<<"process_id", "2">>, <<"redistribute", "static">>}),
                InProcess("ospf", {<<"router_id", "1.1.1.1">>}),
                InProcess("ospf", {<<"nsr_enabled", TRUE>>})}]

HaScenario ==
    [fixed |-> Peer("p1", {<<"connect_interface", "loopback">>}),
     lines |-> {Line("bgp_peer", "p1", {<<"bfd_enabled", TRUE>>, <<"graceful_restart", TRUE>>}),
                Line("bfd", "", {<<"global_enabled", TRUE>>}),
                Line("bfd_session", "s1", {<<"name", "s1">>, <<"interface", "ge2">>,
                                           <<"min_tx_interval", 10>>}),
                In(<<"bfd_session", "s1">>, "bfd_session", "s1", {<<"committed", TRUE>>})}]

RestartScenario ==
    [fixed |-> Peer("p1", {<<"description", "transit">>}),
     lines |-> {Line("graceful_restart", "", {<<"ldp", TRUE>>}),
                Line("nsr", "", {<<"bgp", TRUE>>}),
                Line("bgp_peer", "p1", {<<"graceful_restart", TRUE>>})}]

MulticastScenario ==
    [fixed |-> Port("ge1", "ethernet", {}),
     lines |-> {Line("multicast", "", {<<"ipv4_routing_enabled", TRUE>>}),
                On("ge1", {<<"pim_enabled", TRUE>>}),
                On("ge1", {<<"igmp_enabled", TRUE>>, <<"igmp_version", 1>>}),
                On("ge1", {<<"mld_enabled", TRUE>>}),
                Line("pim", "", {<<"static_rps", "10.0.0.1">>})}]

\* An instance of PIM that comes, goes and changes.
MulticastVpnScenario ==
    [fixed |-> Port("ge1", "ethernet", {<<"pim_enabled", TRUE>>}),
     lines |-> {Block("vpn_instance", "A", {}),
                Block("pim_vpn", "A", {}),
                In(<<"pim_vpn", "A">>, "pim_vpn", "A", {<<"static_rps", "10.0.0.1">>}),
                Line("pim", "", {<<"mode", "dm">>}),
                Line("multicast", "", {<<"ipv4_routing_enabled", TRUE>>})}]

Ipv6Scenario ==
    [fixed |-> Port("ge1", "ethernet", {}),
     lines |-> {On("ge1", {<<"ipv6_enabled", TRUE>>}),
                On("ge1", {<<"ipv6_addresses", "n6">>}),
                Line("ipv6_static_route", 1, {<<"prefix", "::/0">>, <<"next_hop", "n6">>}),
                Line("ipv6_static_route", 2, {<<"prefix", "::/0">>, <<"next_hop", "m6">>}),
                Line("ospfv3", "1", {<<"process_id", "1">>})}]

\* Two routes with one key, and a prefix list of an IPv6 and an IPv4 line.
OrderScenario ==
    [fixed |-> Port("ge1", "ethernet", {<<"ip_address", "n1">>}),
     lines |-> {Line("static_route", 1, {<<"network", "p">>, <<"netmask", "24">>, <<"next_hop", "n1">>,
                                         <<"description", "first">>}),
                Line("static_route", 2, {<<"network", "p">>, <<"netmask", "24">>, <<"next_hop", "n1">>,
                                         <<"preference", 100>>}),
                Line("prefix_list", 1, {<<"name", "six">>, <<"is_ipv6", TRUE>>, <<"permit", "::/0">>}),
                Line("prefix_list", 2, {<<"name", "six">>, <<"permit", "10.0.0.0/8">>})}]

ManagementScenario ==
    [fixed |-> Entry(<<"vty", "0 4">>, {<<"protocol_inbound", "ssh">>})
                 \cup Entry(<<"ssh", "">>, {<<"enabled", TRUE>>}),
     lines |-> {Line("vty", "0 4", {<<"acl_inbound", "2001">>}),
                Line("acl", "2001", {<<"name", "2001">>}),
                Line("snmp", "", {<<"enabled", TRUE>>, <<"versions", "v2c">>})}]

LogScenario ==
    [fixed |-> Entry(<<"ssh", "">>, {<<"enabled", TRUE>>}),
     lines |-> {Line("syslog", "", {<<"enabled", TRUE>>}),
                [Line("syslog", "", {<<"log_hosts", "10.0.0.1">>}) EXCEPT
                    !.needs = Entry(<<"syslog", "">>, {<<"enabled", TRUE>>})],
                Line("ntp", "", {<<"enabled", TRUE>>})}]

TransitNets == {"n1"}

\* A subinterface that is tagged once or twice, with or without an address;
\* one that terminates QinQ; and a VSI.
CircuitsScenario ==
    [fixed |-> Port("ge1.10", "ethernet", {<<"subinterface_number", 10>>, <<"vlan_type", "dot1q">>,
                                           <<"vlan_id", 10>>}),
     lines |-> {On("ge1.10", {<<"second_vlan_id", 20>>}),
                On("ge1.10", {<<"ip_address", "n1">>}),
                On("ge1.10", {<<"description", "customer">>}),
                Line("static_route", 1, {<<"network", "p">>, <<"netmask", "24">>, <<"next_hop", "n1">>}),
                Line("static_route", 2, {<<"network", "0.0.0.0">>, <<"netmask", "0.0.0.0">>,
                                         <<"next_hop", "n1">>})}]

TransportScenario ==
    [fixed |-> Port("ge1.30", "ethernet", {<<"subinterface_number", 30>>})
                 \cup Port("ge1.40", "ethernet", {<<"subinterface_number", 40>>, <<"vlan_id", 40>>}),
     lines |-> {On("ge1.30", {<<"vlan_type", "qinq_termination">>, <<"pe_vid", 30>>, <<"ce_vid", 31>>}),
                Instead(On("ge1.40", {<<"vsi_name", "V">>, <<"vlan_type", "l2binding">>}),
                        Entry(<<"interface", "ge1.40">>, {<<"vlan_type", "dot1q">>})),
                Block("vsi", "V", {}),
                Block("vsi", "W", {}),
                Line("evpn_vxlan", "", {<<"evpn_enabled", TRUE>>})}]

OltScenario ==
    [fixed |-> Entry(<<"device", "">>, {<<"vendor", "zte">>})
                 \cup Entry(<<"zte_olt", "">>, {<<"enabled", TRUE>>})
                 \cup Entry(<<"zte_pon", "1/1">>, {<<"name", "1/1">>}),
     lines |-> {Line("zte_pon", "1/1", {<<"onu_count", 1>>}),
                Line("zte_onu", "1/1:1", {<<"name", "1/1:1">>, <<"service_ports", 1>>}),
                In(<<"zte_onu", "1/1:1">>, "zte_onu", "1/1:1", {<<"alias", "customer">>}),
                Line("zte_service_port", "1", {<<"name", "1">>, <<"onu", "1/1:1">>, <<"user_vlan", 50>>}),
                In(<<"zte_service_port", "1">>, "zte_service_port", "1", {<<"vlan", 60>>})}]

AllScenarios ==
    {VpnScenario, Vpnv4Scenario, QosScenario, NatScenario, NatServerScenario, BngScenario,
     RadiusScenario, PppoeScenario, SwitchingScenario, AccessScenario, StpScenario, PoliciesScenario, BgpScenario,
     CoreScenario, MplsScenario, OspfScenario, HaScenario, RestartScenario, MulticastScenario, MulticastVpnScenario,
     Ipv6Scenario, OrderScenario, ManagementScenario, LogScenario, CircuitsScenario, TransportScenario,
     OltScenario}
=============================================================================
