-------------------------- MODULE ServiceDetection --------------------------
(***************************************************************************)
(* detect_services of analysis/services.py: the DetectedService rows it     *)
(* creates from the parsed data of a snapshot.  A row is <<type, name,      *)
(* confidence>>; the confidence is in hundredths.  The name is the object   *)
(* the service is about, or what the code's name counts ("VRF (2)" is 2).   *)
(* Metadata repeats parsed fields and is left out.                          *)
(***************************************************************************)
EXTENDS ParsedData

Service(type, name, confidence) == {<<type, name, confidence>>}

\* One service if the condition holds, named for the number of its subjects.
Counted(type, subjects, condition, confidence) ==
    IF condition THEN Service(type, Cardinality(subjects), confidence) ELSE {}

\* One service for each of the subjects.
Each(type, names, confidence) == {<<type, n, confidence>> : n \in names}

Grade(condition, high, low) == IF condition THEN high ELSE low

InterfacesWith(c, field) == {i \in Interfaces(c) : Has(c, i, field)}

-----------------------------------------------------------------------------
(* Subscriber access                                                        *)

keywords_found(c) == All(c, "bng_indicator", "keyword")

has_bas(c) == Objects(c, "bas_block") # {} \/ "bas_block" \in keywords_found(c)

has_aaa(c) == Objects(c, "aaa") # {}

has_radius(c) == Objects(c, "radius_server") # {}

\* The domains the parser finds in the text, inside an aaa block or not.
has_domains(c) == Objects(c, "aaa_domains") # {}

subscriber_domains(c) == Names(c, "aaa_domains") \cup Names(c, "aaa_domain")

detect_bng(c) ==
    LET found(confidence) == Service("bng", "BNG/BAS", confidence)
    IN  IF has_bas(c) /\ has_aaa(c) /\ has_radius(c) THEN found(90)
        ELSE IF has_bas(c) /\ has_aaa(c) THEN found(80)
        ELSE IF has_bas(c) \/ (has_aaa(c) /\ has_radius(c) /\ has_domains(c)) THEN found(70)
        ELSE IF Cardinality(keywords_found(c)) >= 4 THEN found(50)
        ELSE {}

detect_aaa(c) ==
    LET schemes == Objects(c, "authentication_scheme") \cup Objects(c, "accounting_scheme")
    IN  IF ~has_aaa(c) THEN IF has_domains(c) THEN Service("aaa", "AAA", 50) ELSE {}
        ELSE Service("aaa", "AAA",
                     IF has_domains(c) THEN Grade(schemes # {}, 85, 75) ELSE 60)

detect_radius_servers(c) == Each("radius", Names(c, "radius_server"), 85)

detect_ip_pools(c) == Each("ip_pool", Names(c, "ip_pool"), 85)

\* Without a bas block, an interface whose text speaks of subscribers or BAS.
detect_subscriber_access(c) ==
    IF Objects(c, "bas_block") # {} THEN Service("subscriber_access", "BAS", 85)
    ELSE IF InterfacesWith(c, "bas.enabled") \cup InterfacesWith(c, "raw.subscriber") # {}
         THEN Service("subscriber_access", "interfaces", 60)
         ELSE {}

\* The schemes and servers that complete the AAA of a BNG.
complete_aaa(c) ==
    /\ Objects(c, "authentication_scheme") # {}
    /\ Objects(c, "accounting_scheme") # {}
    /\ \E field \in {"authentication_servers", "accounting_servers"} :
          All(c, "radius_server", field) # {}

detect_bng_advanced(c) ==
    Counted("bng_advanced", subscriber_domains(c), has_aaa(c) /\ subscriber_domains(c) # {},
            Grade(complete_aaa(c), 90, 80))

detect_bas_interfaces(c) == Each("bas_interface", InterfacesWith(c, "bas.enabled"), 90)

detect_subscriber_domains(c) == Each("subscriber_domain", subscriber_domains(c), 85)

detect_aaa_scheme(c) ==
    LET schemes == UNION {Objects(c, kind) : kind \in {"authentication_scheme",
                                  "accounting_scheme", "authorization_scheme"}}
    IN  Counted("aaa_scheme", schemes, schemes # {}, 85)

detect_radius_groups(c) ==
    LET grade(r) == Grade(Has(c, r, "authentication_servers"), 90, 70)
    IN  UNION {Each("radius_group", Values(c, r, "name"), grade(r)) : r \in Objects(c, "radius_server")}

-----------------------------------------------------------------------------
(* PPPoE                                                                    *)

pppoe_interfaces(c) == InterfacesWith(c, "pppoe.enabled")

template_interfaces(c) == {i \in Interfaces(c) : Is(c, i, "type", "virtual-template")}

detect_pppoe_server(c) ==
    Counted("pppoe", pppoe_interfaces(c), pppoe_interfaces(c) # {}, 90)

detect_virtual_templates(c) == Each("virtual_template", template_interfaces(c), 90)

detect_ppp_access(c) ==
    IF pppoe_interfaces(c) # {} /\ template_interfaces(c) # {}
    THEN Service("ppp_access", "PPP",
                 Grade(pppoe_interfaces(c) \cap InterfacesWith(c, "bas.enabled") # {}, 95, 80))
    ELSE {}

-----------------------------------------------------------------------------
(* Management plane                                                         *)

\* The dictionary of a feature is there with "enabled" False when the
\* configuration does not use it.
detect_snmp(c) ==
    IF ~Flag(c, "snmp", "enabled") THEN {}
    ELSE Service("snmp", Values(c, <<"snmp", "">>, "versions"),
                 Grade(Is(c, <<"snmp", "">>, "versions", "v3") /\ Flag(c, "snmp", "acl_refs"), 85, 80))

detect_ntp(c) ==
    Counted("ntp", Values(c, <<"ntp", "">>, "servers"), Flag(c, "ntp", "enabled"),
            Grade(Flag(c, "ntp", "servers"), 85, 60))

detect_syslog(c) ==
    Counted("syslog", Values(c, <<"syslog", "">>, "log_hosts"), Flag(c, "syslog", "enabled"),
            Grade(Flag(c, "syslog", "log_hosts"), 85, 50))

detect_management_access(c) ==
    LET has_acl == All(c, "vty", "acl_inbound") # {}
    IN  IF Objects(c, "vty") = {} THEN {}
        ELSE Service("management_access", "VTY",
                     Grade(Flag(c, "ssh", "enabled") /\ has_acl, 90, 85))

detect_local_users(c) ==
    UNION {Each("local_user", Values(c, u, "name"), Grade(Has(c, u, "has_password"), 90, 70)) :
              u \in Objects(c, "local_user")}

-----------------------------------------------------------------------------
(* L2 switching                                                             *)

\* The parser's flag for a port of one of the three L2 modes.
is_l2_port(c, i) == Values(c, i, "port_mode") \cap {"access", "trunk", "hybrid"} # {}

detect_l2_switching(c) ==
    IF \E i \in Interfaces(c) : is_l2_port(c, i) THEN Service("l2_switching", "L2", 85) ELSE {}

detect_vlan_service(c) ==
    Counted("vlan_service", Objects(c, "vlan"), Objects(c, "vlan") # {},
            Grade(All(c, "vlan", "description") # {}, 85, 70))

detect_stp_service(c) ==
    IF ~Flag(c, "stp", "enabled") THEN {}
    ELSE Service("stp", Values(c, <<"stp", "">>, "mode"), Grade(Objects(c, "stp_instance") # {}, 85, 80))

-----------------------------------------------------------------------------
(* Routing and routing policy                                               *)

get_policy_service_info(c) ==
    (IF Objects(c, "route_policy") \cup Objects(c, "prefix_list") # {}
     THEN Service("route_policy", "policies", 85) ELSE {})
      \cup (IF Objects(c, "acl") # {} THEN Service("acl_policy", "ACL", 85) ELSE {})

detect_ospf(c) ==
    IF Objects(c, "ospf") = {} THEN {}
    ELSE Service("ospf", Objects(c, "ospf"), Grade(All(c, "ospf", "router_id") # {}, 85, 75))

detect_isis(c) == Counted("isis", Objects(c, "isis"), Objects(c, "isis") # {}, 90)

detect_mpls(c) ==
    IF Flag(c, "mpls", "enabled") THEN Service("mpls", Values(c, <<"mpls", "">>, "lsr_id"), 90) ELSE {}

detect_mpls_ldp(c) ==
    Counted("mpls_ldp", Objects(c, "ldp_remote_peer"), Flag(c, "mpls_ldp", "enabled"), 90)

-----------------------------------------------------------------------------
(* VPN instances                                                            *)

\* Faulty: an RD counts in the IPv4 family only.
detect_vrf_ipv4(c) ==
    Counted("vrf", Objects(c, "vpn_instance"), Objects(c, "vpn_instance") # {},
            Grade(\E af \in Objects(c, "vpn_af") :
                     Is(c, af, "family", "ipv4") /\ Has(c, af, "route_distinguisher"), 90, 70))

detect_vrf(c) ==
    Counted("vrf", Objects(c, "vpn_instance"), Objects(c, "vpn_instance") # {},
            Grade(All(c, "vpn_af", "route_distinguisher") # {}, 90, 70))

\* An RD of the IPv4 family: one of the IPv6 family alone does not count here.
has_rd(c) ==
    \E af \in Objects(c, "vpn_af") : Is(c, af, "family", "ipv4") /\ Has(c, af, "route_distinguisher")

detect_l3vpn(c) ==
    LET complete == Objects(c, "bgp_vpn") # {} /\ Objects(c, "vpnv4_peer") # {}
    IN  Counted("l3vpn", Objects(c, "vpn_instance"), Objects(c, "vpn_instance") # {},
                IF complete THEN 90 ELSE Grade(has_rd(c), 80, 60))

detect_vpnv4(c) ==
    Counted("vpnv4", Objects(c, "vpnv4_peer"), Objects(c, "vpnv4_peer") # {},
            Grade(All(c, "vpnv4_peer", "enabled") # {}, 85, 50))

-----------------------------------------------------------------------------
(* IPv6                                                                     *)

bgp_ipv6_routes(c) == Objects(c, "bgp_ipv6_peer") \cup Objects(c, "bgp_ipv6_network")

detect_ipv6(c) ==
    LET enabled == InterfacesWith(c, "ipv6_enabled")
        routes == Objects(c, "ipv6_static_route")
    IN  Counted("ipv6", enabled, enabled \cup routes # {},
                Grade(enabled # {} /\ routes \cup bgp_ipv6_routes(c) # {}, 90, 75))

detect_bgp_ipv6(c) ==
    Counted("bgp_ipv6", Objects(c, "bgp_ipv6_peer"), bgp_ipv6_routes(c) # {},
            Grade(All(c, "bgp_ipv6_peer", "enabled") # {}, 85, 60))

detect_vpnv6(c) ==
    Counted("vpnv6", Objects(c, "vpnv6_peer"),
            Objects(c, "vpnv6_peer") \cup Objects(c, "bgp_vpn_ipv6") # {},
            Grade(All(c, "vpnv6_peer", "enabled") # {}, 85, 60))

detect_ospfv3(c) ==
    IF Objects(c, "ospfv3") \cup InterfacesWith(c, "ospfv3_enabled") = {} THEN {}
    ELSE Service("ospfv3", Objects(c, "ospfv3"), Grade(All(c, "ospfv3", "router_id") # {}, 85, 75))

detect_isis_ipv6(c) ==
    LET enabled == InterfacesWith(c, "isis_ipv6_enabled")
    IN  Counted("isis_ipv6", enabled, enabled # {}, 85)

-----------------------------------------------------------------------------
(* QoS and NAT                                                              *)

detect_qos(c) ==
    LET policies == Objects(c, "traffic_policy")
    IN  Counted("qos", policies,
                policies \cup Objects(c, "traffic_classifier") \cup Objects(c, "traffic_behavior") # {},
                Grade(policies # {}, 85, 70))

detect_traffic_policy(c) ==
    Counted("traffic_policy", Objects(c, "traffic_policy"), Objects(c, "traffic_policy") # {},
            Grade(InterfacesWith(c, "traffic_policies_applied") # {}, 85, 70))

detect_qos_car(c) ==
    LET rules == {b \in Objects(c, "traffic_behavior") : Has(c, b, "car")}
                   \cup InterfacesWith(c, "qos_car")
    IN  Counted("qos_car", rules, rules # {}, 85)

nat_rules(c) == Objects(c, "nat_outbound") \cup Objects(c, "nat_static") \cup Objects(c, "nat_server")

detect_nat(c) ==
    Counted("nat", nat_rules(c), nat_rules(c) \cup Objects(c, "nat_address_group") # {},
            Grade(nat_rules(c) # {}, 90, 70))

detect_nat_outbound(c) ==
    Counted("nat_outbound", Objects(c, "nat_outbound"), Objects(c, "nat_outbound") # {}, 85)

detect_nat_static(c) ==
    Counted("nat_static", Objects(c, "nat_static"), Objects(c, "nat_static") # {}, 85)

detect_nat_server(c) ==
    Counted("nat_server", Objects(c, "nat_server"), Objects(c, "nat_server") # {}, 85)

-----------------------------------------------------------------------------
(* Multicast                                                                *)

detect_multicast(c) ==
    IF Flag(c, "multicast", "ipv4_routing_enabled") \/ Flag(c, "multicast", "ipv6_routing_enabled")
    THEN Service("multicast", "routing", 90) ELSE {}

detect_pim(c) ==
    LET ports == InterfacesWith(c, "pim_enabled")
    IN  Counted("pim", ports, ports # {} \/ Flag(c, "pim", "static_rps"), 85)

detect_igmp(c) ==
    LET ports == InterfacesWith(c, "igmp_enabled") IN Counted("igmp", ports, ports # {}, 90)

detect_igmp_snooping(c) ==
    LET vlans == Objects(c, "igmp_snooping_vlan")
    IN  Counted("igmp_snooping", vlans, vlans # {} \/ Flag(c, "igmp_snooping", "global_enabled"), 85)

detect_mld(c) ==
    LET ports == InterfacesWith(c, "mld_enabled") IN Counted("mld", ports, ports # {}, 85)

-----------------------------------------------------------------------------
(* High availability                                                        *)

detect_bfd(c) ==
    LET sessions == Objects(c, "bfd_session")
    IN  Counted("bfd", sessions, sessions # {} \/ Flag(c, "bfd", "global_enabled"), 90)

\* The protocols a summary marks with True.
protocols(c, kind) == {f[2] : f \in {g \in c : g[1] = <<kind, "">>}}

detect_graceful_restart(c) ==
    IF protocols(c, "graceful_restart") = {} THEN {}
    ELSE Service("graceful_restart", protocols(c, "graceful_restart"), 85)

detect_nsr(c) ==
    IF protocols(c, "nsr") = {} THEN {} ELSE Service("nsr", protocols(c, "nsr"), 85)

-----------------------------------------------------------------------------
(* Huawei overlays and ZTE OLTs                                             *)

\* The parser turns a feature on with the first line that belongs to it: EVPN
\* and VXLAN share one feature, and SRv6 is part of segment routing.
advanced_enabled(c, feature) ==
    \E field \in {"enabled", "evpn_enabled", "vxlan_enabled", "srv6_enabled"} :
       Flag(c, feature, field)

detect_huawei_advanced_services(c) ==
    (UNION {IF advanced_enabled(c, s[1]) THEN Service(s[1], "", s[2]) ELSE {} :
               s \in {<<"evpn_vxlan", 90>>, <<"segment_routing", 90>>, <<"mpls_te", 90>>,
                      <<"cgnat", 85>>, <<"msdp", 90>>}})
      \cup (IF \E field \in {"enabled", "grpc_enabled", "netstream_enabled", "sflow_enabled"} :
                  Flag(c, "telemetry", field)
            THEN Service("telemetry", "", 85) ELSE {})

detect_zte_olt_services(c) ==
    IF Is(c, <<"device", "">>, "vendor", "zte") /\ Flag(c, "zte_olt", "enabled")
    THEN Service("gpon_olt", "ZTE OLT GPON", 95) ELSE {}

-----------------------------------------------------------------------------

\* Subscribers, management, switching and policies.
detect_access_services(c) ==
    detect_bng(c) \cup detect_aaa(c) \cup detect_radius_servers(c) \cup detect_ip_pools(c)
      \cup detect_subscriber_access(c) \cup detect_snmp(c) \cup detect_ntp(c)
      \cup detect_syslog(c) \cup detect_management_access(c) \cup detect_local_users(c)
      \cup detect_l2_switching(c) \cup detect_vlan_service(c) \cup detect_stp_service(c)
      \cup get_policy_service_info(c)

\* Routing, VPNs, QoS, NAT and IPv6.
detect_network_services(c) ==
    detect_ospf(c) \cup detect_isis(c) \cup detect_mpls(c) \cup detect_mpls_ldp(c)
      \cup detect_vrf(c) \cup detect_l3vpn(c) \cup detect_vpnv4(c) \cup detect_qos(c)
      \cup detect_traffic_policy(c) \cup detect_qos_car(c) \cup detect_nat(c)
      \cup detect_nat_outbound(c) \cup detect_nat_static(c) \cup detect_nat_server(c)
      \cup detect_ipv6(c) \cup detect_bgp_ipv6(c) \cup detect_vpnv6(c)
      \cup detect_ospfv3(c) \cup detect_isis_ipv6(c)

\* The features that were added to the detector later.
detect_feature_services(c) ==
    detect_bng_advanced(c) \cup detect_bas_interfaces(c) \cup detect_subscriber_domains(c)
      \cup detect_aaa_scheme(c) \cup detect_radius_groups(c) \cup detect_bfd(c)
      \cup detect_graceful_restart(c) \cup detect_nsr(c) \cup detect_multicast(c)
      \cup detect_pim(c) \cup detect_igmp(c) \cup detect_igmp_snooping(c) \cup detect_mld(c)
      \cup detect_pppoe_server(c) \cup detect_virtual_templates(c) \cup detect_ppp_access(c)
      \cup detect_huawei_advanced_services(c) \cup detect_zte_olt_services(c)

detect_services(c) ==
    detect_access_services(c) \cup detect_network_services(c) \cup detect_feature_services(c)
=============================================================================
