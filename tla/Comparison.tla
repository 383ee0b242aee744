----------------------------- MODULE Comparison -----------------------------
(***************************************************************************)
(* comparison.py: what compare_config_snapshots stores of two snapshots, a  *)
(* base b and a target t.  The code keys the entries of a list by name, IP, *)
(* number or a combination; an object of ParsedData carries that key as its *)
(* id, but for routes and prefix lists, of which several may have one key.  *)
(* An impact, or a step of a plan, is <<what, subject>>: its wording is     *)
(* left out.                                                                *)
(***************************************************************************)
EXTENDS IssueDetection, ServiceDetection, CircuitDetection

\* Faulty: what only the base has is not looked at.
Diff_target(before, after, differing) ==
    [added |-> after \ before, removed |-> {}, changed |-> (before \cap after) \cap differing]

\* The keys of the target only, of the base only, and of both with a change.
Diff(before, after, differing) ==
    [added |-> after \ before, removed |-> before \ after,
     changed |-> (before \cap after) \cap differing]

any_change(d) == d.added # {} \/ d.removed # {} \/ d.changed # {}

\* The fields of an entry that differ: what only one of the two configurations
\* says of it.
differing(b, t) == (b \ t) \cup (t \ b)

changed_fields(b, t, o, fields) == {f[2] : f \in {g \in differing(b, t) : g[1] = o}} \cap fields

\* Lists whose entries are compared field by field, and those compared whole.
compare_fields(b, t, before, after, fields) ==
    Diff(before, after, {o \in before : changed_fields(b, t, o, fields) # {}})

whole(c, o) == {f \in c : f[1] = o}

compare_whole(b, t, before, after) ==
    Diff(before, after, {f[1] : f \in differing(b, t)})

content(c, o) == {<<f[2], f[3]>> : f \in whole(c, o)}

\* A dictionary keeps the last of the entries that have one key.  The id of a
\* route, or of a line of a prefix list, is its place in the configuration.
last(entries) == CHOOSE o \in entries : \A p \in entries : p[2] <= o[2]

compare_kind(b, t, kind) == compare_whole(b, t, Objects(b, kind), Objects(t, kind))

\* Two dictionaries that occur once differ in a field.
differ(b, t, kind, field) == changed_fields(b, t, <<kind, "">>, {field}) # {}

InterfacesOf(c, field) == {i \in Interfaces(c) : Has(c, i, field)}

compare_interface_role(b, t, role, fields) ==
    compare_fields(b, t, InterfacesOf(b, role), InterfacesOf(t, role), fields)

-----------------------------------------------------------------------------
(* Interfaces, static routes and BGP                                        *)

\* Faulty: the inner tag is not compared.
detect_iface_changes_outer(b, t, i) ==
    changed_fields(b, t, i,
        {"description", "ip_address", "vlan_id", "vsi_name", "shutdown", "port_mode",
         "access_vlan", "trunk_allowed_vlans", "trunk_pvid",
         "stp_enabled", "stp_disabled", "stp_edge_port"})

detect_iface_changes(b, t, i) ==
    changed_fields(b, t, i,
        {"description", "ip_address", "vlan_id", "second_vlan_id", "vsi_name", "shutdown",
         "port_mode", "access_vlan", "trunk_allowed_vlans", "trunk_pvid",
         "stp_enabled", "stp_disabled", "stp_edge_port"})

compare_interfaces(b, t) ==
    Diff(Interfaces(b), Interfaces(t), {i \in Interfaces(b) : detect_iface_changes(b, t, i) # {}})

route_key(c, r) ==
    [f \in {"vpn_instance", "network", "netmask", "next_hop"} |-> Values(c, r, f)]

route_keys(c) == {route_key(c, r) : r \in Objects(c, "static_route")}

routes_at(c, key) == {r \in Objects(c, "static_route") : route_key(c, r) = key}

kept_route(c, key) == last(routes_at(c, key))

\* The next hop and the VPN instance belong to the key, so a route that
\* changes them is removed and added.
detect_route_changes(b, t, key) ==
    {f \in {"next_hop", "description", "preference", "tag", "vpn_instance"} :
        Values(b, kept_route(b, key), f) # Values(t, kept_route(t, key), f)}

compare_static_routes(b, t) ==
    Diff(route_keys(b), route_keys(t),
         {k \in route_keys(b) \cap route_keys(t) : detect_route_changes(b, t, k) # {}})

bgp_fields == {"remote_as", "description", "route_policy_import", "route_policy_export",
               "connect_interface", "has_password", "enabled"}

as_number(c) == Values(c, <<"bgp", "">>, "as_number")

compare_bgp(b, t) ==
    [local_as_changed |-> as_number(b) # as_number(t) /\ as_number(b) # {} /\ as_number(t) # {},
     peers |-> compare_fields(b, t, Objects(b, "bgp_peer"), Objects(t, "bgp_peer"), bgp_fields),
     networks |-> Diff(All(b, "bgp", "networks"), All(t, "bgp", "networks"), {})]

-----------------------------------------------------------------------------
(* What the analysis stored of each snapshot: a row that keeps its key is   *)
(* never changed, whatever else differs in it.                              *)

circuit_key(c, row) ==
    <<row[1], row[2], IF row[1] = "olt" THEN {} ELSE Values(c, row[2], "vlan_id"),
      IF row[1] = "l3_transit" THEN row[3][2]
      ELSE IF row[1] = "l2vpn_vsi" THEN row[3]
      ELSE Values(c, row[2], "second_vlan_id")>>

circuit_keys(c) == {circuit_key(c, row) : row \in detect_circuits(c)}

compare_circuits(b, t) == Diff(circuit_keys(b), circuit_keys(t), {})

service_key(row) == <<row[1], row[2]>>

service_keys(c) == {service_key(row) : row \in detect_services(c)}

compare_services(b, t) == Diff(service_keys(b), service_keys(t), {})

\* The checks that write an interface, a next hop or a peer in the metadata
\* of their issues.  The issues of any other check share one key, and so do
\* those of one interface or peer where each missing policy is an issue.
keyed_by_next_hop == {"static_route_missing_description", "static_route_unreachable_next_hop",
                      "static_route_vpn_instance_not_found"}

keyed_by_owner == {"bgp_route_policy_not_found", "traffic_policy_not_found", "qos_profile_not_found"}

keyed_by_subject ==
    {"bgp_peer_missing_description", "interface_missing_description", "subinterface_missing_description",
     "nat_interface_missing_description", "l2_trunk_allow_all_vlans",
     "l2_access_port_missing_description", "l2_trunk_port_missing_description",
     "l2_hybrid_port_missing_description", "l2_stp_disabled_on_trunk",
     "l2_edge_port_on_trunk", "isis_interface_unknown_process",
     "isis_plain_authentication", "interface_ldp_without_mpls", "mpls_interface_without_ldp",
     "interface_vpn_instance_not_found", "customer_interface_without_qos"}

\* Faulty: issues are told apart by their check alone.
issue_key_by_code(c, row) == <<row[1], "">>

issue_key(c, row) ==
    IF row[1] \in keyed_by_subject THEN row
    ELSE IF row[1] \in keyed_by_owner THEN <<row[1], row[2][1]>>
    ELSE IF row[1] \in keyed_by_next_hop THEN <<row[1], Values(c, row[2], "next_hop")>>
    ELSE <<row[1], "">>

issue_keys(c) == {issue_key(c, row) : row \in detect_issues(c)}

\* "new" and "resolved" of the code are the added and the removed.
compare_issues(b, t) == Diff(issue_keys(b), issue_keys(t), {})

-----------------------------------------------------------------------------
(* Policy objects                                                           *)

kinds_of_policy == {"prefix_list", "route_policy", "acl"}

\* Here the lists are compared as they are.
has_policy_changes(b, t) ==
    \E kind \in kinds_of_policy : any_change(compare_kind(b, t, kind))

compare_as_path_filters(b, t) == compare_kind(b, t, "as_path_filter")

compare_community_filters(b, t) == compare_kind(b, t, "community_filter")

\* Every line of a prefix list is an entry of its own, so that the last line
\* stands for the list.
names_of(c, entries) == UNION {Values(c, o, "name") : o \in entries}

last_line(c, entries, name) == last({o \in entries : Is(c, o, "name", name)})

compare_last_lines(b, t, before, after) ==
    Diff(names_of(b, before), names_of(t, after),
         {n \in names_of(b, before) \cap names_of(t, after) :
             content(b, last_line(b, before, n)) # content(t, last_line(t, after, n))})

compare_ip_prefixes(b, t) ==
    compare_last_lines(b, t, Objects(b, "prefix_list"), Objects(t, "prefix_list"))

\* A node is an entry of its own.
compare_route_policies(b, t) == compare_kind(b, t, "route_policy")

compare_acls(b, t) == compare_kind(b, t, "acl")

orphan_route_policies(c) == Names(c, "route_policy") \ referenced_policies(c)

compare_policy_deps(b, t) ==
    [new |-> orphan_route_policies(t) \ orphan_route_policies(b),
     resolved |-> orphan_route_policies(b) \ orphan_route_policies(t)]

\* Only a peer that had a policy before is reported for a new one.
policy_replaced(b, t) ==
    {d \in (Objects(b, "bgp_peer") \cap Objects(t, "bgp_peer")) \X policy_directions :
        Has(b, d[1], d[2]) /\ Values(b, d[1], d[2]) # Values(t, d[1], d[2])}

build_policy_impacts(b, t) ==
    LET nodes == compare_route_policies(b, t)
    IN  Report("route_policy_added", nodes.added) \cup Report("route_policy_removed", nodes.removed)
          \cup ReportIf("route_policy_changed", nodes.changed # {})
          \cup ReportIf("prefix_lists", Names(b, "prefix_list") # Names(t, "prefix_list"))
          \cup ReportIf("as_path_filters", any_change(compare_as_path_filters(b, t)))
          \cup ReportIf("community_filters", any_change(compare_community_filters(b, t)))
          \cup Report("peer_policy", policy_replaced(b, t))

-----------------------------------------------------------------------------
(* Switching                                                                *)

compare_vlans(b, t) ==
    compare_fields(b, t, Objects(b, "vlan"), Objects(t, "vlan"), {"description", "name"})

regions(c) == {f \in c : f[1][1] = "stp_region"}

compare_stp(b, t) ==
    [enabled_changed |-> differ(b, t, "stp", "enabled"), mode_changed |-> differ(b, t, "stp", "mode"),
     region_changed |-> regions(b) # regions(t),
     instances |-> compare_fields(b, t, Objects(b, "stp_instance"), Objects(t, "stp_instance"),
                                  {"vlans"})]

eth_trunks(c) == {i \in Interfaces(c) : Is(c, i, "type", "eth-trunk")}

with_change(b, t, field) ==
    {i \in Interfaces(b) \cap Interfaces(t) : field \in detect_iface_changes(b, t, i)}

\* The members of an Eth-Trunk are no field of an interface change.
build_switching_section(b, t) ==
    [eth_trunk_members |-> {i \in eth_trunks(b) \cup eth_trunks(t) :
                              Values(b, i, "members") # Values(t, i, "members")},
     allowed_vlans |-> with_change(b, t, "trunk_allowed_vlans"),
     access_vlan |-> with_change(b, t, "access_vlan"),
     pvid |-> with_change(b, t, "trunk_pvid"), port_mode |-> with_change(b, t, "port_mode")]

\* Instances that were added or removed, and regions, raise nothing.
stp_at_risk(b, t) ==
    compare_stp(b, t).mode_changed \/ compare_stp(b, t).instances.changed # {}

build_switching_impacts(b, t) ==
    LET vlans == compare_vlans(b, t) section == build_switching_section(b, t)
    IN  Report("vlan_added", vlans.added) \cup Report("vlan_removed", vlans.removed)
          \cup Report("vlan_changed", vlans.changed)
          \cup Report("allowed_vlans", section.allowed_vlans)
          \cup Report("access_vlan", section.access_vlan) \cup Report("pvid", section.pvid)
          \cup Report("eth_trunk_members", section.eth_trunk_members)
          \cup ReportIf("stp", stp_at_risk(b, t))
          \cup ReportIf("stp_enabled",
                        ~stp_at_risk(b, t) /\ compare_stp(b, t).enabled_changed)

-----------------------------------------------------------------------------
(* ISIS, MPLS, LDP and VPN instances                                        *)

isis_interfaces(c, p) ==
    {i \in Interfaces(c) : Values(c, i, "isis_process_id") \cap Values(c, p, "process_id") # {}}

isis_process_changes(b, t, p) ==
    changed_fields(b, t, p, {"network_entity", "is_level", "cost_style", "import_routes"})

isis_interface_changes(b, t, p) ==
    compare_fields(b, t, isis_interfaces(b, p), isis_interfaces(t, p),
                   {"isis_cost", "isis_circuit_type"})

\* A process with a change of its own is listed twice: both branches end with
\* an append, and the second sees the changes of the first.
compare_isis(b, t) ==
    LET common == Objects(b, "isis") \cap Objects(t, "isis")
    IN  [processes |-> Diff(Objects(b, "isis"), Objects(t, "isis"),
                            {p \in common : \/ isis_process_changes(b, t, p) # {}
                                            \/ any_change(isis_interface_changes(b, t, p))}),
         listed_twice |-> {p \in common : isis_process_changes(b, t, p) # {}},
         network_entity |-> {p \in common : "network_entity" \in isis_process_changes(b, t, p)}]

compare_mpls(b, t) ==
    [fields |-> {f \in {"enabled", "lsr_id", "te_enabled"} : differ(b, t, "mpls", f)},
     interfaces |-> Diff(InterfacesOf(b, "mpls_enabled"), InterfacesOf(t, "mpls_enabled"), {})]

compare_mpls_ldp(b, t) ==
    [fields |-> {f \in {"enabled", "graceful_restart"} : differ(b, t, "mpls_ldp", f)},
     remote_peers |-> compare_fields(b, t, Objects(b, "ldp_remote_peer"),
                                     Objects(t, "ldp_remote_peer"), {"remote_ip"}),
     interfaces |-> Diff(InterfacesOf(b, "mpls_ldp_enabled"),
                         InterfacesOf(t, "mpls_ldp_enabled"), {})]

build_isis_mpls_impacts(b, t) ==
    ReportIf("isis", any_change(compare_isis(b, t).processes))
      \cup ReportIf("isis_network_entity", compare_isis(b, t).network_entity # {})
      \cup ReportIf("mpls_lsr_id", "lsr_id" \in compare_mpls(b, t).fields)
      \cup ReportIf("mpls_ldp_interfaces", any_change(compare_mpls_ldp(b, t).interfaces))
      \cup ReportIf("mpls_ldp_remote_peers", any_change(compare_mpls_ldp(b, t).remote_peers))

families(c, v) == {f \in c : f[1] \in {af \in Objects(c, "vpn_af") : Is(c, af, "vpn_instance", v[2])}}

compare_vpn_instances(b, t) ==
    Diff(Objects(b, "vpn_instance"), Objects(t, "vpn_instance"),
         {v \in Objects(b, "vpn_instance") :
             changed_fields(b, t, v, {"description"}) # {} \/ families(b, v) # families(t, v)})

build_vrf_impacts(b, t) ==
    Report("vpn_instance_added", compare_vpn_instances(b, t).added)
      \cup Report("vpn_instance_removed", compare_vpn_instances(b, t).removed)

-----------------------------------------------------------------------------
(* QoS and NAT                                                              *)

\* Only a name both snapshots define is looked at: a policy, a classifier or
\* a behavior that came or went is not in the result.
compare_qos(b, t) ==
    [policies |-> compare_kind(b, t, "traffic_policy").changed,
     classifiers |-> compare_kind(b, t, "traffic_classifier").changed,
     behaviors |-> compare_kind(b, t, "traffic_behavior").changed,
     car |-> {o \in Objects(b, "traffic_behavior") \cap Objects(t, "traffic_behavior") :
                 changed_fields(b, t, o, {"car", "car.red_action"}) # {}},
     bindings |-> {i \in Interfaces(b) \cup Interfaces(t) :
                      changed_fields(b, t, i, {"traffic_policies_applied"}) # {}}]

build_qos_impacts(b, t) ==
    LET qos == compare_qos(b, t)
    IN  Report("traffic_policy", qos.policies) \cup Report("traffic_classifier", qos.classifiers)
          \cup Report("car", qos.car) \cup Report("traffic_behavior", qos.behaviors)
          \cup ReportIf("traffic_policy_bindings", qos.bindings # {})

\* A rule has no key: it is compared as a whole.
rules(c, kind) == {content(c, o) : o \in Objects(c, kind)}

compare_nat(b, t) ==
    [address_groups |-> compare_kind(b, t, "nat_address_group"),
     outbound_rules |-> Diff(rules(b, "nat_outbound"), rules(t, "nat_outbound"), {}),
     static_rules |-> Diff(rules(b, "nat_static"), rules(t, "nat_static"), {}),
     server_rules |-> Diff(rules(b, "nat_server"), rules(t, "nat_server"), {}),
     alg_changed |-> whole(b, <<"nat_alg", "">>) # whole(t, <<"nat_alg", "">>)]

\* An address group that came or went has no impact of its own.
build_nat_impacts(b, t) ==
    LET nat == compare_nat(b, t)
    IN  ReportIf("nat_address_group", nat.address_groups.changed # {})
          \cup ReportIf("nat_outbound", any_change(nat.outbound_rules))
          \cup ReportIf("nat_static", any_change(nat.static_rules))
          \cup ReportIf("nat_server", any_change(nat.server_rules))
          \cup ReportIf("nat_alg", nat.alg_changed)

-----------------------------------------------------------------------------
(* IPv6                                                                     *)

ipv6_prefix_lists(c) == {p \in Objects(c, "prefix_list") : Has(c, p, "is_ipv6")}

\* A route is known by its prefix, in whatever VPN instance.
ipv6_prefixes(c) == {Values(c, r, "prefix") : r \in Objects(c, "ipv6_static_route")}

ipv6_next_hop(c, prefix) ==
    Values(c, last({r \in Objects(c, "ipv6_static_route") : Values(c, r, "prefix") = prefix}),
           "next_hop")

compare_ipv6_routes(b, t) ==
    Diff(ipv6_prefixes(b), ipv6_prefixes(t),
         {p \in ipv6_prefixes(b) \cap ipv6_prefixes(t) : ipv6_next_hop(b, p) # ipv6_next_hop(t, p)})

compare_ipv6(b, t) ==
    LET common(kind, fields) ==
            compare_fields(b, t, Objects(b, kind), Objects(t, kind), fields)
    IN  [interfaces |-> compare_interface_role(b, t, "ipv6_addresses", {"ipv6_addresses"}),
         routes |-> compare_ipv6_routes(b, t),
         bgp_peers |-> common("bgp_ipv6_peer",
                              {"enabled", "route_policy_import", "route_policy_export"}),
         bgp_networks |-> common("bgp_ipv6_network", {}),
         prefix_lists |-> compare_last_lines(b, t, ipv6_prefix_lists(b), ipv6_prefix_lists(t)),
         vpnv6_peers |-> compare_kind(b, t, "vpnv6_peer"),
         ospfv3 |-> compare_kind(b, t, "ospfv3"),
         isis_ipv6 |-> compare_interface_role(b, t, "isis_ipv6_enabled",
                                              {"isis_ipv6_process_id", "isis_ipv6_cost"})]

sections_changed(sections) == {s \in DOMAIN sections : any_change(sections[s])}

\* Networks and prefix lists have no impact.
build_ipv6_impacts(b, t) ==
    Report("ipv6", sections_changed(compare_ipv6(b, t)) \ {"bgp_networks", "prefix_lists"})

-----------------------------------------------------------------------------
(* Subscriber access and high availability                                  *)

\* A domain of an aaa block hides the entry the text gives of it.
compare_bng_domains(b, t) ==
    compare_fields(b, t, Objects(b, "aaa_domain"), Objects(t, "aaa_domain"),
        {"authentication_scheme", "accounting_scheme", "authorization_scheme",
         "radius_server_group", "ip_pool", "dns_primary", "dns_secondary"})

radius_changes(b, t, r) ==
    changed_fields(b, t, r, {"authentication_servers", "accounting_servers", "retransmit",
                             "timeout", "shared_key_type"})

compare_bng_radius_groups(b, t) ==
    Diff(Objects(b, "radius_server"), Objects(t, "radius_server"),
         {r \in Objects(b, "radius_server") : radius_changes(b, t, r) # {}})

\* A section is <<start, end>>, and is compared by its start.
starts(c, pool) == {section[1] : section \in Values(c, pool, "sections")}

pool_changes(b, t, p) ==
    changed_fields(b, t, p, {"gateway", "mask", "lease", "radius_server_group", "mode", "type",
                             "dns_servers"})
      \cup {f \in {"sections"} : starts(b, p) # starts(t, p)}

compare_bng_ip_pools(b, t) ==
    Diff(Objects(b, "ip_pool"), Objects(t, "ip_pool"),
         {p \in Objects(b, "ip_pool") : pool_changes(b, t, p) # {}})

bas_changes(b, t, i) ==
    changed_fields(b, t, i,
        {"description", "user_vlan", "qinq_vlan", "bas.default_domain",
         "bas.pre_authentication_domain", "bas.authentication_method", "bas.access_type",
         "bas.accounting_copy_radius_group", "bas.ip_trigger", "bas.arp_trigger",
         "bas.ipv6_trigger"})

compare_bng_bas_interfaces(b, t) ==
    Diff(bas_interfaces(b), bas_interfaces(t), {i \in bas_interfaces(b) : bas_changes(b, t, i) # {}})

template_changes(b, t, i) ==
    changed_fields(b, t, i,
        {"description", "mtu", "ip_unnumbered_interface", "remote_address_pool", "ppp_keepalive",
         "ppp_mru", "ipv6_enabled", "ppp_authentication_modes"})

compare_pppoe_virtual_templates(b, t) ==
    Diff(virtual_templates(b), virtual_templates(t),
         {i \in virtual_templates(b) : template_changes(b, t, i) # {}})

pppoe_changes(b, t, i) ==
    changed_fields(b, t, i, {"pppoe.virtual_template", "pppoe.max_sessions", "user_vlan",
                             "qinq_vlan", "description", "bas.default_domain"})

compare_pppoe_interfaces(b, t) ==
    Diff(pppoe_servers(b), pppoe_servers(t), {i \in pppoe_servers(b) : pppoe_changes(b, t, i) # {}})

\* The restart of every protocol is kept with ISIS.
compare_ha(b, t) ==
    LET changed(keys) == Diff(keys, keys, keys)
        peers == Objects(b, "bgp_peer") \cap Objects(t, "bgp_peer")
        of_protocols(kind) == {p \in {"bgp", "isis", "ospf", "ldp"} : differ(b, t, kind, p)}
    IN  [bfd |-> compare_fields(b, t, Objects(b, "bfd_session"), Objects(t, "bfd_session"),
                    {"peer_ip", "peer_ipv6", "interface", "local_discriminator",
                     "remote_discriminator", "min_tx_interval", "min_rx_interval",
                     "detect_multiplier", "committed"}),
         bgp_ha |-> compare_fields(b, t, peers, peers, {"bfd_enabled", "graceful_restart"}),
         isis_ha |-> changed(of_protocols("graceful_restart")), nsr |-> changed(of_protocols("nsr"))]

compare_bng(b, t) ==
    [subscriber_domains |-> compare_bng_domains(b, t),
     radius_groups |-> compare_bng_radius_groups(b, t), ip_pools |-> compare_bng_ip_pools(b, t),
     bas_interfaces |-> compare_bng_bas_interfaces(b, t),
     pppoe_interfaces |-> compare_pppoe_interfaces(b, t),
     virtual_templates |-> compare_pppoe_virtual_templates(b, t)]

\* The changed entries of a section in one of these fields.
ChangedIn(section, changes(_, _, _), b, t, fields) ==
    UNION {{<<o, f>> : f \in changes(b, t, o) \cap fields} : o \in section.changed}

\* The impact of a peer that lost BFD asks for the value False, where the
\* parser leaves the field out: it never appears.
build_bng_impacts(b, t) ==
    LET bng == compare_bng(b, t) ha == compare_ha(b, t)
        bas == bng.bas_interfaces template == bng.virtual_templates pppoe == bng.pppoe_interfaces
        servers == {c[2] : c \in ChangedIn(bng.radius_groups, radius_changes, b, t,
                                           {"authentication_servers", "accounting_servers"})}
    IN  ReportIf("bas_interfaces", bas.added \cup bas.removed # {})
          \cup Report("bas_changed", ChangedIn(bas, bas_changes, b, t,
                         {"bas.default_domain", "bas.authentication_method", "user_vlan"}))
          \cup ReportIf("domains", bng.subscriber_domains.changed # {})
          \cup Report("radius", servers) \cup ReportIf("ip_pools", bng.ip_pools.changed # {})
          \cup ReportIf("virtual_templates", any_change(template))
          \cup Report("ppp_authentication",
                      ChangedIn(template, template_changes, b, t, {"ppp_authentication_modes"}))
          \cup ReportIf("pppoe_interfaces", any_change(pppoe))
          \cup Report("pppoe_changed",
                      ChangedIn(pppoe, pppoe_changes, b, t, {"pppoe.max_sessions", "user_vlan"}))
          \cup ReportIf("bfd", any_change(ha.bfd))
          \cup ReportIf("graceful_restart", \E p \in ha.bgp_ha.changed :
                           changed_fields(b, t, p, {"graceful_restart"}) # {})
          \cup ReportIf("nsr", ha.nsr.changed # {})
          \cup ReportIf("ldp_graceful_restart", "ldp" \in ha.isis_ha.changed)

-----------------------------------------------------------------------------
(* Multicast, Huawei overlays and ZTE OLTs                                  *)

pim_global == {"static_rps", "bsr_candidates", "rp_candidates"}

pim_mode(c) == IF Flag(c, "pim", "mode") THEN Values(c, <<"pim", "">>, "mode") ELSE {"sm"}

pim_changed(b, t) ==
    (\E f \in pim_global : differ(b, t, "pim", f)) \/ pim_mode(b) # pim_mode(t)

compare_multicast(b, t) ==
    LET routing == {f \in {"ipv4_routing_enabled", "ipv6_routing_enabled"} : differ(b, t, "multicast", f)}
        pim == compare_interface_role(b, t, "pim_enabled", {"pim_mode", "pim_hello_holdtime"})
        snooping == compare_fields(b, t, Objects(b, "igmp_snooping_vlan"),
                        Objects(t, "igmp_snooping_vlan"), {"enabled", "version", "querier_enabled"})
        also(d, condition, section) ==
            IF condition THEN [d EXCEPT !.changed = @ \cup {<<section, "">>}] ELSE d
    IN  [global |-> Diff(routing, routing, routing),
         pim |-> also(pim, pim_changed(b, t), "pim"),
         igmp |-> compare_interface_role(b, t, "igmp_enabled",
                      {"igmp_version", "igmp_limit", "igmp_static_groups", "igmp_join_groups"}),
         igmp_snooping |-> also(snooping, differ(b, t, "igmp_snooping", "global_enabled"),
                                "igmp_snooping"),
         mld |-> compare_interface_role(b, t, "mld_enabled", {"mld_version", "mld_static_groups"}),
         vpn_instances |-> compare_kind(b, t, "pim_vpn")]

\* The lists of the section, with the impacts of what each gained, lost and
\* changed.  Changes of MLD and of the VPN instances have none.
multicast_added ==
    {<<"pim", "pim_added">>, <<"igmp", "igmp_added">>, <<"igmp_snooping", "igmp_snooping_added">>,
     <<"mld", "mld_added">>, <<"vpn_instances", "vpn_instances_added">>}

multicast_removed ==
    {<<"pim", "pim_removed">>, <<"igmp", "igmp_removed">>, <<"mld", "mld_removed">>,
     <<"igmp_snooping", "igmp_snooping_removed">>, <<"vpn_instances", "vpn_instances_removed">>}

multicast_changed ==
    {<<"pim", "pim_changed">>, <<"igmp", "igmp_changed">>,
     <<"igmp_snooping", "igmp_snooping_changed">>}

\* A change of the global PIM has two impacts.
build_multicast_impacts(b, t) ==
    LET m == compare_multicast(b, t)
    IN  Report("multicast", m.global.changed)
          \cup ReportIf("pim_global", <<"pim", "">> \in m.pim.changed)
          \cup (UNION {Report(s[2], m[s[1]].added) : s \in multicast_added})
          \cup (UNION {Report(s[2], m[s[1]].removed) : s \in multicast_removed})
          \cup UNION {Report(s[2], m[s[1]].changed) : s \in multicast_changed}

huawei_categories == {"evpn_vxlan", "segment_routing", "mpls_te", "cgnat", "msdp", "telemetry"}

enabling_fields ==
    {"enabled", "evpn_enabled", "vxlan_enabled", "srv6_enabled", "rsvp_te_enabled",
     "logging_enabled", "grpc_enabled", "netstream_enabled", "sflow_enabled"}

enabled_categories(c) ==
    {f[1][1] : f \in {g \in c : g[2] \in enabling_fields}} \cap huawei_categories

\* A category whose content changes is reported even while it is disabled.
compare_huawei_advanced(b, t) ==
    LET before == enabled_categories(b)
        after  == enabled_categories(t)
        edited == {f[1][1] : f \in differing(b, t)} \cap huawei_categories
    IN  [added |-> after \ before, removed |-> before \ after,
         changed |-> {k \in edited : k \in before <=> k \in after}]

compare_zte_olt(b, t) ==
    [pon_ports |-> compare_kind(b, t, "zte_pon"), onus |-> compare_kind(b, t, "zte_onu"),
     service_ports |-> compare_kind(b, t, "zte_service_port"), vlans |-> compare_kind(b, t, "zte_vlan")]

\* A changed VPN instance of PIM is listed under dict(key), where key is a
\* tuple of one name: that raises, unless the name has two characters, and the
\* comparison is not stored.
comparable(b, t) == compare_multicast(b, t).vpn_instances.changed = {}

-----------------------------------------------------------------------------
(* Impacts and recommendations                                              *)

build_impacts(b, t) ==
    LET interfaces == compare_interfaces(b, t) routes == compare_static_routes(b, t)
        bgp == compare_bgp(b, t) circuits == compare_circuits(b, t)
    IN  Report("interface_added", interfaces.added) \cup Report("interface_removed", interfaces.removed)
          \cup Report("interface_changed",
                      UNION {{<<i, f>> : f \in detect_iface_changes(b, t, i)} : i \in interfaces.changed})
          \cup Report("route_added", routes.added) \cup Report("route_removed", routes.removed)
          \cup Report("peer_added", bgp.peers.added) \cup Report("peer_removed", bgp.peers.removed)
          \cup ReportIf("local_as", bgp.local_as_changed)
          \cup Report("circuit_added", circuits.added) \cup Report("circuit_removed", circuits.removed)
          \cup ReportIf("issues", compare_issues(b, t).added # {})

services_with_impact == {"radius", "aaa", "ip_pool", "subscriber_access", "snmp", "ntp", "syslog",
                         "management_access", "local_user"}

of_types(services, types) == {s \in services : s[1] \in types}

build_service_impacts(b, t) ==
    LET services == compare_services(b, t)
    IN  Report("service_removed", of_types(services.removed, services_with_impact \cup {"bng"}))
          \cup Report("service_added", of_types(services.added, services_with_impact))

vendor_impacts(b, t) ==
    ReportIf("huawei_advanced", any_change(compare_huawei_advanced(b, t)))
      \cup ReportIf("zte_olt", sections_changed(compare_zte_olt(b, t)) # {})

impacts(b, t) ==
    build_impacts(b, t) \cup build_service_impacts(b, t) \cup build_switching_impacts(b, t)
      \cup build_policy_impacts(b, t) \cup build_isis_mpls_impacts(b, t) \cup build_vrf_impacts(b, t)
      \cup build_qos_impacts(b, t) \cup build_nat_impacts(b, t) \cup build_ipv6_impacts(b, t)
      \cup build_multicast_impacts(b, t) \cup build_bng_impacts(b, t) \cup vendor_impacts(b, t)

build_recommendations(b, t) ==
    LET came_or_went(d) == d.added \cup d.removed # {}
    IN  ReportIf("reachability", compare_static_routes(b, t).added # {})
          \cup ReportIf("routes", compare_static_routes(b, t).changed # {})
          \cup ReportIf("bgp", came_or_went(compare_bgp(b, t).peers))
          \cup ReportIf("interfaces", came_or_went(compare_interfaces(b, t)))
          \cup ReportIf("documentation", came_or_went(compare_circuits(b, t)))
          \cup ReportIf("issues", compare_issues(b, t).added # {}) \cup ReportIf("rollback", TRUE)

-----------------------------------------------------------------------------
(* The validation plan and the rollback plan                                *)

\* An interface, a route or a peer that went is not validated.
build_validation_plan(b, t) ==
    LET interfaces == compare_interfaces(b, t) routes == compare_static_routes(b, t)
        bgp == compare_bgp(b, t)
    IN  Report("interface", interfaces.added \cup interfaces.changed)
          \cup Report("vlan_interface", {i \in interfaces.added : Has(t, i, "vlan_id")})
          \cup Report("routing", routes.added \cup routes.changed)
          \cup Report("bgp", bgp.peers.added \cup bgp.peers.changed)
          \cup ReportIf("bgp_networks", any_change(bgp.networks))

came_or_went(services, types) == of_types(services.added \cup services.removed, types) # {}

validate_services(b, t) ==
    LET services == compare_services(b, t)
    IN  ReportIf("aaa", came_or_went(services, {"radius", "aaa", "bng"}))
          \cup ReportIf("ip_pool", came_or_went(services, {"ip_pool"}))
          \cup ReportIf("issues", compare_issues(b, t).added # {})
          \cup Report("management",
                      {type \in {"snmp", "ntp", "syslog", "management_access", "local_user"} :
                          came_or_went(services, {type})})

\* Faulty: switching STP on or off is not validated.
validate_switching_no_stp(b, t) ==
    LET stp == compare_stp(b, t)
    IN  ReportIf("vlan", any_change(compare_vlans(b, t)))
          \cup ReportIf("stp", stp.mode_changed \/ stp.instances.changed # {})
          \cup Report("eth_trunk", build_switching_section(b, t).eth_trunk_members)

validate_switching(b, t) ==
    LET stp == compare_stp(b, t)
    IN  ReportIf("vlan", any_change(compare_vlans(b, t)))
          \cup ReportIf("stp", stp.mode_changed \/ stp.instances.changed # {} \/ stp.enabled_changed)
          \cup Report("eth_trunk", build_switching_section(b, t).eth_trunk_members)

\* Once anything among the policies changed, every policy a peer of the target
\* applies is validated.
validate_policies(b, t) ==
    IF ~has_policy_changes(b, t) THEN {}
    ELSE ReportIf("policy", TRUE)
           \cup Report("bgp_policy",
                       {d \in Objects(t, "bgp_peer") \X policy_directions : Has(t, d[1], d[2])})

validate_core(b, t) ==
    ReportIf("isis", any_change(compare_isis(b, t).processes))
      \cup ReportIf("mpls", compare_mpls(b, t).fields # {})
      \cup ReportIf("mpls_ldp", \/ "enabled" \in compare_mpls_ldp(b, t).fields
                                \/ any_change(compare_mpls_ldp(b, t).interfaces)
                                \/ any_change(compare_mpls_ldp(b, t).remote_peers))

\* Only what was added can be taken back, and changes of a peer.
build_rollback_plan(b, t) ==
    LET bgp == compare_bgp(b, t) services == compare_services(b, t)
    IN  Report("general", {"process", "snapshot"})
          \cup Report("interface_added", compare_interfaces(b, t).added)
          \cup Report("static_route_added", compare_static_routes(b, t).added)
          \cup Report("bgp_peer_added", bgp.peers.added)
          \cup Report("bgp_peer_changed", bgp.peers.changed)
          \cup ReportIf("aaa_radius_changed", came_or_went(services, {"radius", "aaa", "bng"}))
          \cup ReportIf("ip_pool_changed", came_or_went(services, {"ip_pool"}))
          \cup ReportIf("bgp_network_changed", any_change(bgp.networks))

rollback_switching(b, t) ==
    LET vlans == compare_vlans(b, t) section == build_switching_section(b, t)
    IN  Report("vlan_added", vlans.added) \cup Report("vlan_removed", vlans.removed)
          \cup Report("allowed_vlans_changed", section.allowed_vlans)
          \cup Report("access_vlan_changed", section.access_vlan)
          \cup Report("pvid_changed", section.pvid) \cup ReportIf("stp_changed", stp_at_risk(b, t))

\* Once anything among the policies changed, every filter of either snapshot
\* is to be restored; a filter that changed alone is not.
rollback_policies(b, t) ==
    IF ~has_policy_changes(b, t) THEN {}
    ELSE ReportIf("policy_changed", TRUE)
           \cup Report("as_path_filter_changed", Names(b, "as_path_filter") \cup Names(t, "as_path_filter"))
           \cup Report("community_filter_changed",
                       Names(b, "community_filter") \cup Names(t, "community_filter"))

rollback_core(b, t) ==
    ReportIf("isis_changed", any_change(compare_isis(b, t).processes))
      \cup ReportIf("isis_network_entity_changed", compare_isis(b, t).network_entity # {})
      \cup ReportIf("mpls_lsr_id_changed", "lsr_id" \in compare_mpls(b, t).fields)
      \cup ReportIf("mpls_ldp_interface_changed", any_change(compare_mpls_ldp(b, t).interfaces))
      \cup ReportIf("mpls_ldp_remote_peer_changed", any_change(compare_mpls_ldp(b, t).remote_peers))
      \cup Report("eth_trunk_members_changed", build_switching_section(b, t).eth_trunk_members)

\* The sections below enter both plans, or neither.
bng_section(b, t) ==
    ReportIf("bng", sections_changed(compare_bng(b, t)) \cup sections_changed(compare_ha(b, t)) # {})

ha_section(b, t) == ReportIf("ha", sections_changed(compare_ha(b, t)) # {})

multicast_section(b, t) == ReportIf("multicast", sections_changed(compare_multicast(b, t)) # {})

pppoe_section(b, t) ==
    ReportIf("pppoe", any_change(compare_pppoe_interfaces(b, t))
                        \/ any_change(compare_pppoe_virtual_templates(b, t)))

ipv6_section(b, t) == ReportIf("ipv6", sections_changed(compare_ipv6(b, t)) # {})

common_sections(b, t) ==
    bng_section(b, t) \cup ha_section(b, t) \cup multicast_section(b, t) \cup pppoe_section(b, t)
      \cup ipv6_section(b, t) \cup vendor_impacts(b, t)

validation_plan(b, t) ==
    build_validation_plan(b, t) \cup validate_services(b, t) \cup validate_switching(b, t)
      \cup validate_policies(b, t) \cup validate_core(b, t) \cup common_sections(b, t)

rollback_plan(b, t) ==
    build_rollback_plan(b, t) \cup rollback_switching(b, t) \cup rollback_policies(b, t)
      \cup rollback_core(b, t) \cup common_sections(b, t)

-----------------------------------------------------------------------------
(* compare_config_snapshots: the sections of diff_data that are not empty    *)

lists(b, t) ==
    [interfaces |-> compare_interfaces(b, t), static_routes |-> compare_static_routes(b, t),
     peers |-> compare_bgp(b, t).peers, networks |-> compare_bgp(b, t).networks,
     circuits |-> compare_circuits(b, t), services |-> compare_services(b, t),
     issues |-> compare_issues(b, t), isis |-> compare_isis(b, t).processes,
     vpn_instances |-> compare_vpn_instances(b, t), vlans |-> compare_vlans(b, t),
     stp |-> compare_stp(b, t).instances, mpls |-> compare_mpls(b, t).interfaces,
     ldp_interfaces |-> compare_mpls_ldp(b, t).interfaces,
     ldp_remote_peers |-> compare_mpls_ldp(b, t).remote_peers,
     ip_prefixes |-> compare_ip_prefixes(b, t), route_policies |-> compare_route_policies(b, t),
     acls |-> compare_acls(b, t), as_path_filters |-> compare_as_path_filters(b, t),
     community_filters |-> compare_community_filters(b, t),
     huawei_advanced |-> compare_huawei_advanced(b, t)]

\* The sections that are no list with added, removed and changed.
other_changes(b, t) ==
    LET stp == compare_stp(b, t) nat == compare_nat(b, t) section == build_switching_section(b, t)
    IN  \/ compare_bgp(b, t).local_as_changed
        \/ stp.enabled_changed \/ stp.mode_changed \/ stp.region_changed
        \/ section.eth_trunk_members # {}
        \/ compare_mpls(b, t).fields \cup compare_mpls_ldp(b, t).fields # {}
        \/ \E s \in DOMAIN compare_qos(b, t) : compare_qos(b, t)[s] # {}
        \/ nat.alg_changed \/ any_change(nat.address_groups) \/ any_change(nat.outbound_rules)
        \/ any_change(nat.static_rules) \/ any_change(nat.server_rules)
        \/ compare_policy_deps(b, t).new \cup compare_policy_deps(b, t).resolved # {}

compare_config_snapshots(b, t) ==
    sections_changed(lists(b, t)) \cup sections_changed(compare_ipv6(b, t))
      \cup sections_changed(compare_bng(b, t)) \cup sections_changed(compare_ha(b, t))
      \cup sections_changed(compare_multicast(b, t)) \cup sections_changed(compare_zte_olt(b, t))
      \cup {s \in {"other"} : other_changes(b, t)}
=============================================================================
