--------------------------- MODULE IssueDetection ---------------------------
(***************************************************************************)
(* detectors/issues.py and policy_utils.py: every check detect_issues runs  *)
(* over the parsed data of a snapshot.  A check is the set of the           *)
(* AnalysisIssue rows it creates, and a row is <<code, subject>>: its code  *)
(* and the object or the name its title speaks of.  Two rows that differ    *)
(* only in wording are one.                                                 *)
(***************************************************************************)
EXTENDS VlanLists

Report(code, subjects) == {<<code, s>> : s \in subjects}

ReportIf(code, condition) == IF condition THEN {<<code, "">>} ELSE {}

-----------------------------------------------------------------------------
(* Descriptions and static routes                                           *)

detect_interface_no_description(c) ==
    Report("interface_missing_description",
           {i \in Lacking(c, "interface", "description") :
               /\ Values(c, i, "type") \cap {"loopback", "null", "nve", "vlanif"} = {}
               /\ ~Has(c, i, "subinterface_number")})

detect_subinterface_no_description(c) ==
    Report("subinterface_missing_description",
           {i \in Lacking(c, "interface", "description") : Is(c, i, "vlan_type", "dot1q")})

is_default_route(c, r) == Is(c, r, "network", "0.0.0.0") /\ Is(c, r, "netmask", "0.0.0.0")

detect_static_route_no_description(c) ==
    IF Is(c, <<"device", "">>, "vendor", "cisco") THEN {}
    ELSE Report("static_route_missing_description",
                {r \in Lacking(c, "static_route", "description") : ~is_default_route(c, r)})

detect_bgp_peer_no_description(c) ==
    Report("bgp_peer_missing_description", Lacking(c, "bgp_peer", "description"))

\* ip_str_to_network gives None for an address it cannot read.
connected_networks(c) == All(c, "interface", "ip_address") \ {"unreadable"}

NotAnAddress == {"NULL0", "an interface"}

\* The networks of every interface count, whatever VPN instance the route and
\* the interface belong to.
detect_unreachable_next_hop(c) ==
    Report("static_route_unreachable_next_hop",
           Dangling(c, "static_route", "next_hop", connected_networks(c) \cup NotAnAddress))

-----------------------------------------------------------------------------
(* Management plane                                                         *)

detect_snmp_v2c(c) ==
    ReportIf("snmp_v2c_enabled", Is(c, <<"snmp", "">>, "versions", "v2c"))

detect_snmp_write_community(c) ==
    Report("snmp_write_community",
           {o \in Objects(c, "snmp_community") : Is(c, o, "access", "write")})

detect_snmp_without_acl(c) ==
    ReportIf("snmp_without_acl", Flag(c, "snmp", "enabled") /\ ~Flag(c, "snmp", "acl_refs"))

detect_ntp_without_auth(c) ==
    ReportIf("ntp_without_authentication",
             /\ Flag(c, "ntp", "enabled")
             /\ Flag(c, "ntp", "servers")
             /\ ~Flag(c, "ntp", "authentication_enabled"))

detect_syslog_without_loghost(c) ==
    ReportIf("syslog_without_loghost",
             Flag(c, "syslog", "enabled") /\ ~Flag(c, "syslog", "log_hosts"))

\* The summary of management access that the Huawei parser derives from the
\* VTY lines.
has_telnet(c) == "telnet" \in All(c, "vty", "protocol_inbound")

has_acl_on_vty(c) == All(c, "vty", "acl_inbound") # {}

detect_telnet_enabled(c) == ReportIf("telnet_enabled", has_telnet(c))

\* A reference counts as a filter whether or not the ACL it names is defined.
detect_vty_without_acl(c) ==
    ReportIf("vty_without_acl", Objects(c, "vty") # {} /\ ~has_acl_on_vty(c))

detect_local_user_high_privilege(c) ==
    Report("local_user_high_privilege",
           {u \in Objects(c, "local_user") : \E p \in Values(c, u, "privilege_level") : p >= 15})

\* An ACL is known by its number, by its name, or by both.
get_acl_names(c) == All(c, "acl", "number") \cup All(c, "acl", "name")

\* The parser marks each reference of SNMP and of a VTY line with whether the
\* ACL exists, by number or by name; the detector asks again by number.
enrich_acl_references(c, refs) == {r \in refs : r \in get_acl_names(c)}

detect_management_acl_not_found(c) ==
    LET refs == All(c, "snmp", "acl_refs")
                  \cup All(c, "vty", "acl_inbound") \cup All(c, "vty", "acl_outbound")
    IN  Report("management_acl_reference_not_found",
               {r \in refs : /\ r \notin enrich_acl_references(c, refs)
                             /\ r \notin All(c, "acl", "number")})

-----------------------------------------------------------------------------
(* L2 switching                                                             *)

AllVlans == <<AllWord>>

detect_l2_trunk_allow_all(c) ==
    Report("l2_trunk_allow_all_vlans",
           {i \in Interfaces(c) : Is(c, i, "trunk_allowed_vlans", AllVlans)})

undescribed_ports ==
    {<<"access", "l2_access_port_missing_description">>,
     <<"trunk", "l2_trunk_port_missing_description">>,
     <<"hybrid", "l2_hybrid_port_missing_description">>}

detect_l2_port_missing_desc(c) ==
    UNION {Report(p[2], {i \in Lacking(c, "interface", "description") :
                            Is(c, i, "port_mode", p[1])}) :
              p \in undescribed_ports}

detect_l2_stp_disabled_trunk(c) ==
    Report("l2_stp_disabled_on_trunk",
           {i \in Interfaces(c) : Is(c, i, "port_mode", "trunk") /\ Has(c, i, "stp_disabled")})

detect_l2_edge_port_trunk(c) ==
    Report("l2_edge_port_on_trunk",
           {i \in Interfaces(c) : Is(c, i, "port_mode", "trunk") /\ Has(c, i, "stp_edge_port")})

\* The VLAN ids some object uses.  Of a range only the two ends count, and
\* the word "all" counts for none.
collect_vlan_usage(c) ==
    LET listed == UNION {All(c, "interface", field) :
                            field \in {"trunk_allowed_vlans", "hybrid_tagged_vlans",
                                       "hybrid_untagged_vlans"}}
        tagged == {i \in Interfaces(c) : Is(c, i, "vlan_type", "dot1q") \/ Has(c, i, "vsi_name")}
    IN  (UNION {numbers_in(words) : words \in listed})
          \cup (UNION {All(c, "interface", field) :
                          field \in {"access_vlan", "trunk_pvid", "hybrid_pvid",
                                     "pe_vid", "ce_vid", "second_vlan_id"}})
          \cup (UNION {Values(c, i, "vlan_id") : i \in tagged})
          \cup All(c, "stp_instance", "vlans")

has_local_switching(c) ==
    All(c, "vlan", "vlan_id") # {} \/ \E i \in Interfaces(c) : Has(c, i, "port_mode")

detect_l2_vlan_used_not_defined(c) ==
    IF has_local_switching(c)
    THEN Report("l2_vlan_used_not_defined",
                collect_vlan_usage(c) \ (All(c, "vlan", "vlan_id") \cup {1}))
    ELSE {}

detect_l2_vlan_defined_unused(c) ==
    Report("l2_vlan_defined_unused", All(c, "vlan", "vlan_id") \ collect_vlan_usage(c))

-----------------------------------------------------------------------------
(* Routing policy (policy_utils.py).  A route-policy is a list of nodes, one *)
(* block each; the reference map keys the blocks by name, so of a policy     *)
(* with several nodes only the last block is looked at for its references.   *)

node_of(c, o) == CHOOSE n \in Values(c, o, "node") : TRUE

last_nodes(c) ==
    {o \in Objects(c, "route_policy") :
        \A p \in Objects(c, "route_policy") :
            Values(c, p, "name") = Values(c, o, "name") => node_of(c, p) <= node_of(c, o)}

\* What the route-policies refer to, by kind of match ("ip-prefix", "acl",
\* "as-path-filter", "community-filter").
referenced_by_policies(c, type) == UNION {Values(c, o, type) : o \in last_nodes(c)}

\* The policies some BGP peer applies, in either direction.
policies_of(c, p) == Values(c, p, "route_policy_import") \cup Values(c, p, "route_policy_export")

referenced_policies(c) == UNION {policies_of(c, p) : p \in Objects(c, "bgp_peer")}

orphan_policy_issues(c) ==
    Report("route_policy_orphan", Names(c, "route_policy") \ referenced_policies(c))
      \cup Report("ip_prefix_orphan",
                  Names(c, "prefix_list") \ referenced_by_policies(c, "ip-prefix"))
      \cup Report("as_path_filter_orphan",
                  Names(c, "as_path_filter") \ referenced_by_policies(c, "as-path-filter"))
      \cup Report("community_filter_orphan",
                  Names(c, "community_filter") \ referenced_by_policies(c, "community-filter"))

\* A line of the block that the parser does not know is kept as a match too,
\* an unknown apply line included.
match_fields == {"ip-prefix", "ipv6-prefix-list", "acl", "as-path-filter",
                 "community-filter", "unknown"}

\* Unlike the references, every node is asked for its conditions and actions.
route_policy_node_issues(c) ==
    Report("route_policy_permit_without_match",
           {o \in Objects(c, "route_policy") :
               Is(c, o, "action", "permit") /\ \A field \in match_fields : ~Has(c, o, field)})
      \cup Report("route_policy_without_apply", Lacking(c, "route_policy", "apply"))
      \cup Report("route_policy_as_path_filter_not_found",
                  All(c, "route_policy", "as-path-filter") \ Names(c, "as_path_filter"))
      \cup Report("route_policy_community_filter_not_found",
                  All(c, "route_policy", "community-filter") \ Names(c, "community_filter"))

\* A rule is a record of what its line says; "any" stands for the widest match.
permit_any_issues(c) ==
    Report("ip_prefix_permit_any",
           {o \in Objects(c, "prefix_list") : Is(c, o, "permit", "0.0.0.0/0 le 32")})
      \cup Report("acl_rule_any", {o \in Objects(c, "acl") : Is(c, o, "rule", "any")})
      \cup Report("as_path_filter_permit_any",
                  {o \in Objects(c, "as_path_filter") : Is(c, o, "permit", ".*")})

find_policy_issues(c) ==
    orphan_policy_issues(c) \cup route_policy_node_issues(c) \cup permit_any_issues(c)

policy_directions == {"route_policy_import", "route_policy_export"}

\* A peer that misses a policy in both directions has two issues.
missing_policies(c) ==
    {ref \in Objects(c, "bgp_peer") \X policy_directions \X referenced_policies(c) :
        ref[3] \in Values(c, ref[1], ref[2]) \ Names(c, "route_policy")}

detect_policy_issues(c) ==
    find_policy_issues(c) \cup Report("bgp_route_policy_not_found", missing_policies(c))

-----------------------------------------------------------------------------
(* OSPF, ISIS, MPLS and LDP                                                 *)

detect_ospf_no_router_id(c) == Report("ospf_no_router_id", Lacking(c, "ospf", "router_id"))

detect_ospf_passive_missing(c) ==
    Report("ospf_passive_missing",
           {o \in Lacking(c, "ospf", "passive_interfaces") :
               Values(c, o, "networks") \ {"loopback"} # {}})

\* One import-route line of the process with a route-policy silences the
\* check for all of them: the detector searches the text of the whole block.
detect_ospf_redistribution_without_filter(c) ==
    Report("ospf_redistribution_without_filter",
           {o \in Lacking(c, "ospf", "redistribute_filtered") : Has(c, o, "redistribute")})

detect_isis_without_network_entity(c) ==
    Report("isis_without_network_entity", Lacking(c, "isis", "network_entity"))

detect_isis_interface_unknown_process(c) ==
    Report("isis_interface_unknown_process",
           Dangling(c, "interface", "isis_process_id", All(c, "isis", "process_id")))

detect_isis_plain_authentication(c) ==
    Report("isis_plain_authentication",
           {i \in Interfaces(c) : Is(c, i, "isis_authentication", "simple")})

detect_mpls_without_lsr_id(c) ==
    ReportIf("mpls_without_lsr_id", Flag(c, "mpls", "enabled") /\ ~Flag(c, "mpls", "lsr_id"))

detect_ldp_without_mpls(c) ==
    ReportIf("ldp_without_mpls", Flag(c, "mpls_ldp", "enabled") /\ ~Flag(c, "mpls", "enabled"))

detect_interface_ldp_without_mpls(c) ==
    Report("interface_ldp_without_mpls",
           {i \in Lacking(c, "interface", "mpls_enabled") : Has(c, i, "mpls_ldp_enabled")})

detect_mpls_interface_without_ldp(c) ==
    Report("mpls_interface_without_ldp",
           {i \in Lacking(c, "interface", "mpls_ldp_enabled") :
               Has(c, i, "mpls_enabled") /\ ~Is(c, i, "type", "loopback")})

detect_ldp_remote_peer_without_ip(c) ==
    Report("ldp_remote_peer_without_ip", Lacking(c, "ldp_remote_peer", "remote_ip"))

-----------------------------------------------------------------------------
(* VPN instances.  An address family of an instance is an object of its own. *)

get_vpn_instance_names(c) == Names(c, "vpn_instance")

families_with(c, field) ==
    UNION {Values(c, af, "vpn_instance") : af \in {a \in Objects(c, "vpn_af") : Has(c, a, field)}}

detect_vpn_instance_without_rd(c) ==
    Report("vpn_instance_without_rd",
           get_vpn_instance_names(c) \ families_with(c, "route_distinguisher"))

detect_vpn_instance_without_rt(c) ==
    Report("vpn_instance_without_rt",
           get_vpn_instance_names(c) \ families_with(c, "vpn_targets"))

detect_interface_vpn_instance_not_found(c) ==
    Report("interface_vpn_instance_not_found",
           Dangling(c, "interface", "vpn_instance", get_vpn_instance_names(c)))

detect_static_route_vpn_instance_not_found(c) ==
    Report("static_route_vpn_instance_not_found",
           Dangling(c, "static_route", "vpn_instance", get_vpn_instance_names(c)))

\* Faulty: the check runs only once some VPN instance is defined.
detect_bgp_vpn_instance_if_any(c) ==
    IF get_vpn_instance_names(c) = {} THEN {}
    ELSE Report("bgp_vpn_instance_not_found", Names(c, "bgp_vpn") \ get_vpn_instance_names(c))

detect_bgp_vpn_instance_not_found(c) ==
    Report("bgp_vpn_instance_not_found", Names(c, "bgp_vpn") \ get_vpn_instance_names(c))

detect_vpn_instance_without_interface(c) ==
    Report("vpn_instance_without_interface",
           get_vpn_instance_names(c) \ All(c, "interface", "vpn_instance"))

bgp_vpns_with_routes(c) ==
    UNION {Values(c, o, "name") :
              o \in {p \in Objects(c, "bgp_vpn") :
                        \E field \in {"peers", "networks", "import_routes"} : Has(c, p, field)}}

detect_vpn_instance_without_routes(c) ==
    Report("vpn_instance_without_routes",
           get_vpn_instance_names(c)
             \ (All(c, "static_route", "vpn_instance") \cup bgp_vpns_with_routes(c)))

detect_vpnv4_peer_not_enabled(c) ==
    Report("vpnv4_peer_not_enabled", Lacking(c, "vpnv4_peer", "enabled"))

\* The instances are collected once for each address family that carries the
\* RD, so an instance with the same RD in both families counts twice.
detect_duplicate_route_distinguisher(c) ==
    Report("duplicate_route_distinguisher",
           {rd \in All(c, "vpn_af", "route_distinguisher") :
               Cardinality({af \in Objects(c, "vpn_af") : Is(c, af, "route_distinguisher", rd)}) > 1})

-----------------------------------------------------------------------------
(* QoS                                                                      *)

\* A policy or a profile is applied to an interface as <<name, direction>>, and
\* each that is not defined is an issue of its own.
applied_names(c, field) == {a[1] : a \in All(c, "interface", field)}

applied_undefined(c, field, defined) ==
    {ref \in Interfaces(c) \X All(c, "interface", field) :
        ref[2] \in Values(c, ref[1], field) /\ ref[2][1] \notin defined}

detect_traffic_policy_not_found(c) ==
    Report("traffic_policy_not_found",
           applied_undefined(c, "traffic_policies_applied", Names(c, "traffic_policy")))

detect_traffic_classifier_not_found(c) ==
    Report("traffic_classifier_not_found",
           All(c, "traffic_policy", "classifier") \ Names(c, "traffic_classifier"))

detect_traffic_behavior_not_found(c) ==
    Report("traffic_behavior_not_found",
           All(c, "traffic_policy", "behavior") \ Names(c, "traffic_behavior"))

detect_qos_classifier_acl_not_found(c) ==
    Report("qos_classifier_acl_not_found",
           All(c, "traffic_classifier", "if_match_acl") \ get_acl_names(c))

detect_traffic_policy_orphan(c) ==
    Report("traffic_policy_orphan",
           Names(c, "traffic_policy") \ applied_names(c, "traffic_policies_applied"))

detect_traffic_classifier_orphan(c) ==
    Report("traffic_classifier_orphan",
           Names(c, "traffic_classifier") \ All(c, "traffic_policy", "classifier"))

detect_traffic_behavior_orphan(c) ==
    Report("traffic_behavior_orphan",
           Names(c, "traffic_behavior") \ All(c, "traffic_policy", "behavior"))

detect_qos_profile_not_found(c) ==
    Report("qos_profile_not_found",
           applied_undefined(c, "qos_profiles_applied", Names(c, "qos_profile")))

detect_qos_profile_orphan(c) ==
    Report("qos_profile_orphan",
           Names(c, "qos_profile") \ applied_names(c, "qos_profiles_applied"))

detect_qos_car_without_red_discard(c) ==
    Report("qos_car_without_red_discard",
           {b \in Objects(c, "traffic_behavior") :
               Has(c, b, "car") /\ Values(c, b, "car.red_action") \ {"discard"} # {}})

has_qos(c, i) ==
    \E field \in {"traffic_policies_applied", "qos_profiles_applied", "qos_car"} : Has(c, i, field)

detect_customer_interface_without_qos(c) ==
    Report("customer_interface_without_qos",
           {i \in Interfaces(c) :
               ~has_qos(c, i) /\ (Has(c, i, "vpn_instance") \/ Is(c, i, "description", "customer"))})

-----------------------------------------------------------------------------
(* NAT                                                                      *)

get_nat_address_group_names(c) == Names(c, "nat_address_group")

detect_nat_acl_not_found(c) ==
    Report("nat_acl_not_found", All(c, "nat_outbound", "acl") \ get_acl_names(c))

detect_nat_address_group_not_found(c) ==
    Report("nat_address_group_not_found",
           All(c, "nat_outbound", "address_group") \ get_nat_address_group_names(c))

detect_nat_address_group_orphan(c) ==
    Report("nat_address_group_orphan",
           get_nat_address_group_names(c) \ All(c, "nat_outbound", "address_group"))

detect_nat_outbound_without_address_group(c) ==
    Report("nat_outbound_without_address_group", Lacking(c, "nat_outbound", "address_group"))

is_private_ip(ip) == ip = "private"

detect_nat_static_private_global_ip(c) ==
    Report("nat_static_private_global_ip",
           {o \in Objects(c, "nat_static") : \E ip \in Values(c, o, "global_ip") : is_private_ip(ip)})

SENSITIVE_PORTS == {22, 23, 3389, 445, 139, 5900}

detect_nat_server_sensitive_port(c) ==
    Report("nat_server_sensitive_port",
           {o \in Objects(c, "nat_server") : Values(c, o, "global_port") \cap SENSITIVE_PORTS # {}})

detect_nat_server_without_protocol(c) ==
    Report("nat_server_without_protocol", Lacking(c, "nat_server", "protocol"))

detect_nat_interface_missing_description(c) ==
    Report("nat_interface_missing_description",
           {i \in Lacking(c, "interface", "description") : Has(c, i, "has_nat")})

detect_nat_vpn_instance_not_found(c) ==
    Report("nat_vpn_instance_not_found",
           UNION {Dangling(c, kind, "vpn_instance", get_vpn_instance_names(c)) :
                     kind \in {"nat_address_group", "nat_outbound"}})

detect_nat_alg_sip_enabled(c) ==
    ReportIf("nat_alg_sip_enabled", Flag(c, "nat_alg", "sip"))

-----------------------------------------------------------------------------
(* Subscriber access: BAS interfaces, AAA domains, RADIUS groups, IP pools.  *)
(* The parser finds a domain twice: in its aaa block, with what it refers to *)
(* ("aaa_domain"), and in the text, with its name alone ("aaa_domains").     *)

bas_interfaces(c) == {i \in Interfaces(c) : Has(c, i, "bas.enabled")}

domain_names(c) == Names(c, "aaa_domain") \cup Names(c, "aaa_domains")

detect_bas_issues(c) ==
    Report("bas_domain_not_found",
           {i \in bas_interfaces(c) :
               ~(Values(c, i, "bas.default_domain") \subseteq domain_names(c))})
      \cup UNION {Report(check[1], {i \in bas_interfaces(c) : ~Has(c, i, check[2])}) :
                     check \in {<<"bas_interface_without_authentication_method",
                                  "bas.authentication_method">>,
                                <<"bas_interface_without_user_vlan", "user_vlan">>,
                                <<"bas_interface_missing_description", "description">>}}

\* The references of a domain: the check's code, the field that refers, and
\* the kind it refers to.
domain_references ==
    {<<"domain_authentication_scheme_not_found", "authentication_scheme", "authentication_scheme">>,
     <<"domain_accounting_scheme_not_found", "accounting_scheme", "accounting_scheme">>,
     <<"domain_authorization_scheme_not_found", "authorization_scheme", "authorization_scheme">>,
     <<"domain_radius_group_not_found", "radius_server_group", "radius_server">>,
     <<"domain_ip_pool_not_found", "ip_pool", "ip_pool">>}

detect_domain_issues(c) ==
    (UNION {Report(ref[1], Dangling(c, "aaa_domain", ref[2], Names(c, ref[3]))) :
               ref \in domain_references})
      \cup Report("domain_without_accounting",
                  Lacking(c, "aaa_domain", "accounting_scheme")
                    \cup Lacking(c, "aaa_domains", "accounting_scheme"))

detect_radius_issues(c) ==
    Report("radius_group_without_authentication_server",
           Lacking(c, "radius_server", "authentication_servers"))
      \cup Report("radius_group_without_accounting_server",
                  Lacking(c, "radius_server", "accounting_servers"))
      \cup Report("radius_shared_key_plain",
                  {o \in Objects(c, "radius_server") : Is(c, o, "shared_key_type", "simple")})
      \cup Report("ip_pool_without_gateway", Lacking(c, "ip_pool", "gateway"))
      \cup Report("ip_pool_without_section",
                  {o \in Lacking(c, "ip_pool", "sections") : ~Is(c, o, "mode", "remote")})

detect_bng_issues(c) ==
    detect_bas_issues(c) \cup detect_domain_issues(c) \cup detect_radius_issues(c)

-----------------------------------------------------------------------------
(* PPPoE.  A Virtual-Template is an interface whose type says so.            *)

virtual_templates(c) == {i \in Interfaces(c) : Is(c, i, "type", "virtual-template")}

pppoe_servers(c) == {i \in Interfaces(c) : Has(c, i, "pppoe.enabled")}

used_vts(c) == UNION {Values(c, i, "pppoe.virtual_template") : i \in pppoe_servers(c)}

vt_names(c) == UNION {Values(c, i, "name") : i \in virtual_templates(c)}

detect_pppoe_server_issues(c) ==
    Report("pppoe_virtual_template_not_found",
           {i \in pppoe_servers(c) : ~(Values(c, i, "pppoe.virtual_template") \subseteq vt_names(c))})
      \cup Report("pppoe_interface_without_bas", pppoe_servers(c) \ bas_interfaces(c))
      \cup Report("pppoe_interface_without_domain",
                  {i \in pppoe_servers(c) \cap bas_interfaces(c) : ~Has(c, i, "bas.default_domain")})
      \cup Report("pppoe_interface_without_user_vlan",
                  {i \in pppoe_servers(c) : ~Has(c, i, "user_vlan")})
      \cup Report("pppoe_without_max_sessions",
                  {i \in pppoe_servers(c) : ~Has(c, i, "pppoe.max_sessions")})

detect_virtual_template_issues(c) ==
    Report("virtual_template_without_ppp_authentication",
           {i \in virtual_templates(c) : ~Has(c, i, "ppp_authentication_modes")})
      \cup Report("ppp_authentication_pap_enabled",
                  {i \in virtual_templates(c) : Is(c, i, "ppp_authentication_modes", "pap")})
      \cup Report("virtual_template_pool_not_found",
                  {i \in virtual_templates(c) :
                      ~(Values(c, i, "remote_address_pool") \subseteq Names(c, "ip_pool"))})
      \cup Report("virtual_template_mtu_not_1492",
                  {i \in virtual_templates(c) :
                      /\ Values(c, i, "name") \cap used_vts(c) # {}
                      /\ Values(c, i, "mtu") \ {1492} # {}})
      \cup Report("virtual_template_orphan", vt_names(c) \ used_vts(c))

detect_pppoe_issues(c) == detect_pppoe_server_issues(c) \cup detect_virtual_template_issues(c)

-----------------------------------------------------------------------------
(* High availability: BFD, graceful restart, NSR                            *)

too_aggressive(c, s) ==
    \/ \E t \in Values(c, s, "min_tx_interval") \cup Values(c, s, "min_rx_interval") : t < 50
    \/ \E m \in Values(c, s, "detect_multiplier") : m < 3

detect_bfd_session_issues(c) ==
    Report("bfd_session_without_commit", Lacking(c, "bfd_session", "committed"))
      \cup Report("bfd_session_without_discriminator",
                  Lacking(c, "bfd_session", "local_discriminator")
                    \cap Lacking(c, "bfd_session", "remote_discriminator"))
      \cup Report("bfd_session_interface_not_found",
                  Dangling(c, "bfd_session", "interface", Names(c, "interface")))
      \cup Report("bfd_timers_too_aggressive",
                  {s \in Objects(c, "bfd_session") : too_aggressive(c, s)})

has_bfd_in_protocol(c) ==
    \/ \E i \in Interfaces(c) : \E field \in {"isis_bfd_enabled", "ospf_bfd_enabled",
                                              "isis_ipv6_bfd_enabled", "mpls_ldp_bfd_enabled"} :
          Has(c, i, field)
    \/ \E p \in Objects(c, "bgp_peer") : Has(c, p, "bfd_enabled")

\* A peer of the core: reached through a loopback, or of the local AS.  Only
\* the Cisco parser fills local_as; Huawei and ZTE fill as_number.
is_core_peer(c, p) ==
    \/ Is(c, p, "connect_interface", "loopback")
    \/ Values(c, p, "remote_as") \cap Values(c, <<"bgp", "">>, "local_as") # {}

detect_bfd_coverage_issues(c) ==
    ReportIf("bfd_enabled_without_global", has_bfd_in_protocol(c) /\ ~Flag(c, "bfd", "global_enabled"))
      \cup Report("bgp_core_peer_without_bfd",
                  {p \in Lacking(c, "bgp_peer", "bfd_enabled") : is_core_peer(c, p)})

\* The LDP of the summary is False until the parser meets graceful-restart.
detect_restart_issues(c) ==
    (UNION {ReportIf("graceful_restart_without_nsr",
                     \E o \in Lacking(c, kind, "nsr_enabled") : Has(c, o, "graceful_restart")) :
               kind \in {"isis", "ospf"}})
      \cup ReportIf("ldp_without_graceful_restart",
                    Flag(c, "mpls_ldp", "enabled") /\ ~Flag(c, "graceful_restart", "ldp"))

is_core_interface(c, i) ==
    /\ Has(c, i, "isis_enabled") \/ Has(c, i, "ospfv3_enabled")
    /\ ~Has(c, i, "bas.enabled") /\ ~Has(c, i, "pppoe.enabled")

detect_igp_bfd_issues(c) ==
    IF All(c, "isis", "bfd_all_interfaces") # {} THEN {}
    ELSE Report("igp_core_interface_without_bfd",
                {i \in Interfaces(c) :
                    /\ is_core_interface(c, i)
                    /\ \A field \in {"isis_bfd_enabled", "ospf_bfd_enabled",
                                     "ospfv3_bfd_enabled", "isis_ipv6_bfd_enabled"} :
                          ~Has(c, i, field)})

detect_ha_issues(c) ==
    detect_bfd_session_issues(c) \cup detect_bfd_coverage_issues(c)
      \cup detect_restart_issues(c) \cup detect_igp_bfd_issues(c)

-----------------------------------------------------------------------------
(* Multicast                                                                *)

detect_multicast_interface_issues(c) ==
    LET with(field) == {i \in Interfaces(c) : Has(c, i, field)}
        unless(routing, subjects) == IF Flag(c, "multicast", routing) THEN {} ELSE subjects
    IN  Report("pim_without_multicast_routing",
               unless("ipv4_routing_enabled", with("pim_enabled")))
          \cup Report("igmp_without_multicast_routing",
                      unless("ipv4_routing_enabled", with("igmp_enabled")))
          \cup Report("mld_without_ipv6_multicast_routing",
                      unless("ipv6_routing_enabled", with("mld_enabled")))
          \cup Report("igmp_version_1", {i \in Interfaces(c) : Is(c, i, "igmp_version", 1)})
          \cup Report("pim_interface_missing_description",
                      with("pim_enabled") \cap Lacking(c, "interface", "description"))
          \cup Report("igmp_invalid_group_address",
                      {i \in Interfaces(c) : Is(c, i, "igmp_groups", "not multicast")})
          \cup Report("mld_invalid_group_address",
                      {i \in Interfaces(c) : Is(c, i, "mld_static_groups", "not multicast")})

\* Sparse mode is what a PIM interface without a mode runs, unless the global
\* mode says otherwise.
pim_needs_rp_or_bsr(c) ==
    \/ Is(c, <<"pim", "">>, "mode", "sm")
    \/ /\ Values(c, <<"pim", "">>, "mode") \cap {"dm", "ssm"} = {}
       /\ \E i \in Interfaces(c) : Has(c, i, "pim_enabled") /\ Values(c, i, "pim_mode") \subseteq {"sm"}

has_rp_or_bsr(c) ==
    \E field \in {"static_rps", "bsr_candidates", "rp_candidates"} : Flag(c, "pim", field)

has_pim(c) == Flag(c, "pim", "static_rps") \/ All(c, "interface", "pim_enabled") # {}

\* The parsers keep the mask in ip_address, and the check only reads addresses
\* written without one.
local_ips(c) == All(c, "interface", "ip_address_without_mask")

detect_multicast_global_issues(c) ==
    ReportIf("pim_without_rp_or_bsr", has_pim(c) /\ ~has_rp_or_bsr(c) /\ pim_needs_rp_or_bsr(c))
      \cup Report("pim_static_rp_not_local",
                  Values(c, <<"pim", "">>, "static_rps") \ local_ips(c))
      \cup Report("igmp_snooping_without_querier",
                  {o \in Lacking(c, "igmp_snooping_vlan", "querier_enabled") : Has(c, o, "enabled")})
      \cup Report("multicast_vpn_instance_not_found",
                  (Names(c, "multicast_vpn") \cup Names(c, "pim_vpn")) \ Names(c, "vpn_instance"))

detect_multicast_issues(c) ==
    detect_multicast_interface_issues(c) \cup detect_multicast_global_issues(c)

-----------------------------------------------------------------------------
(* Huawei overlays and ZTE OLTs                                             *)

detect_huawei_advanced_issues(c) ==
    LET without(code, kind, field, needed) ==
            ReportIf(code, Flag(c, kind, field) /\ ~Flag(c, needed[1], needed[2]))
    IN  without("evpn_without_vxlan", "evpn_vxlan", "evpn_enabled", <<"evpn_vxlan", "vxlan_enabled">>)
          \cup without("vxlan_without_nve_interface", "evpn_vxlan", "vxlan_enabled",
                       <<"evpn_vxlan", "nve_interfaces">>)
          \cup without("srv6_without_locator", "segment_routing", "srv6_enabled",
                       <<"segment_routing", "locators">>)
          \cup without("mpls_te_without_mpls", "mpls_te", "enabled", <<"mpls", "enabled">>)
          \cup without("cgnat_without_logging", "cgnat", "enabled", <<"cgnat", "logging_enabled">>)
          \cup without("msdp_without_multicast_routing", "msdp", "enabled",
                       <<"multicast", "ipv4_routing_enabled">>)
          \cup without("msdp_without_peer", "msdp", "enabled", <<"msdp", "peers">>)
          \cup without("telemetry_without_destination", "telemetry", "enabled",
                       <<"telemetry", "destination_groups">>)

is_olt(c) == Is(c, <<"device", "">>, "vendor", "zte") /\ Flag(c, "zte_olt", "enabled")

detect_zte_olt_issues(c) ==
    IF ~is_olt(c) THEN {}
    ELSE Report("zte_pon_without_onu", Lacking(c, "zte_pon", "onu_count"))
           \cup Report("zte_onu_without_serial", Lacking(c, "zte_onu", "serial"))
           \cup Report("zte_onu_without_description",
                       Lacking(c, "zte_onu", "description") \cap Lacking(c, "zte_onu", "alias"))
           \cup Report("zte_onu_without_service_port", Lacking(c, "zte_onu", "service_ports"))
           \cup Report("zte_service_port_without_vlan",
                       Lacking(c, "zte_service_port", "vlan")
                         \cap Lacking(c, "zte_service_port", "user_vlan"))

-----------------------------------------------------------------------------

detect_base_issues(c) ==
    detect_interface_no_description(c) \cup detect_subinterface_no_description(c)
      \cup detect_static_route_no_description(c) \cup detect_bgp_peer_no_description(c)
      \cup detect_unreachable_next_hop(c)

detect_management_issues(c) ==
    detect_snmp_v2c(c) \cup detect_snmp_write_community(c) \cup detect_snmp_without_acl(c)
      \cup detect_ntp_without_auth(c) \cup detect_syslog_without_loghost(c)
      \cup detect_telnet_enabled(c) \cup detect_vty_without_acl(c)
      \cup detect_local_user_high_privilege(c) \cup detect_management_acl_not_found(c)

detect_l2_issues(c) ==
    detect_l2_trunk_allow_all(c) \cup detect_l2_port_missing_desc(c)
      \cup detect_l2_stp_disabled_trunk(c) \cup detect_l2_edge_port_trunk(c)
      \cup detect_l2_vlan_used_not_defined(c) \cup detect_l2_vlan_defined_unused(c)

detect_core_issues(c) ==
    detect_ospf_no_router_id(c) \cup detect_ospf_passive_missing(c)
      \cup detect_ospf_redistribution_without_filter(c)
      \cup detect_isis_without_network_entity(c) \cup detect_isis_interface_unknown_process(c)
      \cup detect_isis_plain_authentication(c) \cup detect_mpls_without_lsr_id(c)
      \cup detect_ldp_without_mpls(c) \cup detect_interface_ldp_without_mpls(c)
      \cup detect_mpls_interface_without_ldp(c) \cup detect_ldp_remote_peer_without_ip(c)

detect_vpn_issues(c) ==
    detect_vpn_instance_without_rd(c) \cup detect_vpn_instance_without_rt(c)
      \cup detect_interface_vpn_instance_not_found(c)
      \cup detect_static_route_vpn_instance_not_found(c)
      \cup detect_bgp_vpn_instance_not_found(c) \cup detect_vpn_instance_without_interface(c)
      \cup detect_vpn_instance_without_routes(c) \cup detect_vpnv4_peer_not_enabled(c)
      \cup detect_duplicate_route_distinguisher(c)

detect_qos_issues(c) ==
    detect_traffic_policy_not_found(c) \cup detect_traffic_classifier_not_found(c)
      \cup detect_traffic_behavior_not_found(c) \cup detect_qos_classifier_acl_not_found(c)
      \cup detect_traffic_policy_orphan(c) \cup detect_traffic_classifier_orphan(c)
      \cup detect_traffic_behavior_orphan(c) \cup detect_qos_profile_not_found(c)
      \cup detect_qos_profile_orphan(c) \cup detect_qos_car_without_red_discard(c)
      \cup detect_customer_interface_without_qos(c)

detect_nat_issues(c) ==
    detect_nat_acl_not_found(c) \cup detect_nat_address_group_not_found(c)
      \cup detect_nat_address_group_orphan(c) \cup detect_nat_outbound_without_address_group(c)
      \cup detect_nat_static_private_global_ip(c) \cup detect_nat_server_sensitive_port(c)
      \cup detect_nat_server_without_protocol(c) \cup detect_nat_interface_missing_description(c)
      \cup detect_nat_vpn_instance_not_found(c) \cup detect_nat_alg_sip_enabled(c)

detect_issues(c) ==
    detect_base_issues(c) \cup detect_management_issues(c) \cup detect_l2_issues(c)
      \cup detect_policy_issues(c) \cup detect_core_issues(c) \cup detect_vpn_issues(c)
      \cup detect_qos_issues(c) \cup detect_nat_issues(c) \cup detect_bng_issues(c)
      \cup detect_pppoe_issues(c) \cup detect_ha_issues(c) \cup detect_multicast_issues(c)
      \cup detect_huawei_advanced_issues(c) \cup detect_zte_olt_issues(c)
=============================================================================
