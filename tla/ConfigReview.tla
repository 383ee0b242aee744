---------------------------- MODULE ConfigReview ----------------------------
(***************************************************************************)
(* What the detectors and the comparison say of a device while its          *)
(* configuration is edited.  An operator enters lines and undoes them; now  *)
(* and then a snapshot is taken, parsed and analysed, and the comparison    *)
(* sets the snapshot against what the device runs.  Detection and           *)
(* comparison are the operators of IssueDetection, ServiceDetection,        *)
(* CircuitDetection and Comparison; here they meet a changing input.        *)
(***************************************************************************)
EXTENDS Comparison

CONSTANTS
    Scenarios,    \* A scenario: the lines an operator may enter and those always there
    MaxDistance   \* How many lines a device may be away from its snapshot

\* A line is [adds, needs, otherwise]: the facts it configures, the facts of
\* the block it is written in, and what holds while it is not there.
facts_of(s, entered) ==
    s.fixed
      \cup (UNION {l.adds : l \in entered})
      \cup UNION {l.otherwise : l \in s.lines \ entered}

\* A Huawei router has one encapsulation on an interface: a VLAN, possibly with
\* an inner one, or the two tags of a QinQ termination, or a VSI, which may keep
\* its VLAN.  (The parser would keep the traces of two, and that of ZTE writes
\* the VLAN of a port without a type.)  Every interface has a name.
one_encapsulation(c) ==
    /\ <<"interface", "">> \notin Interfaces(c)
    /\ \A i \in Interfaces(c) :
          /\ Is(c, i, "vlan_type", "dot1q") <=> Has(c, i, "vlan_id") /\ ~Has(c, i, "vsi_name")
          /\ Is(c, i, "vlan_type", "dot1q") => ~Has(c, i, "pe_vid") /\ ~Has(c, i, "ce_vid")
          /\ Has(c, i, "second_vlan_id") => Has(c, i, "vlan_id")

\* An interface has the type that its name tells.
one_type(c) ==
    \A i \in Interfaces(c) : \E type \in Values(c, i, "type") : Values(c, i, "type") = {type}

\* The parser gives these blocks their name, and writes an address family in the
\* VPN instance whose block it is in.
named_blocks(c) ==
    /\ \A kind \in {"vpn_instance", "traffic_policy", "nat_address_group", "radius_server",
                    "aaa_domain"} :
          \A o \in Objects(c, kind) : o = <<kind, o[2]>> /\ Values(c, o, "name") = {o[2]}
    /\ one_type(c)
    /\ \A af \in Objects(c, "vpn_af") :
          Values(c, af, "vpn_instance") \cap Names(c, "vpn_instance") # {}

\* An interface keeps its lists of VLANs as the configuration writes them, a
\* trunk for all VLANs has the word alone, and the number of a VLAN is one.
list_fields == {"trunk_allowed_vlans", "hybrid_tagged_vlans", "hybrid_untagged_vlans"}

vlan_lists(c) ==
    /\ \A words \in All(c, "vlan_batch", "words") : is_vlan_list(words)
    /\ \A field \in list_fields : \A words \in All(c, "interface", field) :
          words = AllVlans \/ is_vlan_list(words)
    /\ All(c, "vlan", "vlan_id") \subseteq valid_vlans

\* The parser reads what BAS and PPPoE refer to only where they are enabled.
switched_on(c) ==
    \A i \in Interfaces(c) :
        /\ Has(c, i, "bas.default_domain") => Has(c, i, "bas.enabled")
        /\ Has(c, i, "pppoe.virtual_template") => Has(c, i, "pppoe.enabled")

\* The fields by which something is known where it is referred to.
is_definition(f) == f[2] \in {"name", "number", "process_id", "type"}

\* No line is written in what the absence of another means, nor is anything
\* defined by it, and a line of a block within a block is written in both.
ASSUME ReviewAssumption ==
    /\ MaxDistance \in Nat
    /\ \A s \in Scenarios :
          /\ \A l, m \in s.lines : l.needs \cap m.otherwise = {}
          /\ \A l \in s.lines : \A f \in l.otherwise : ~is_definition(f)
          /\ \A l, m, k \in s.lines :
                l.needs \cap m.adds # {} /\ m.needs \cap k.adds # {} => l.needs \cap k.adds # {}
          /\ \A entered \in SUBSET s.lines :
                LET c == facts_of(s, entered)
                IN  /\ AreFacts(c) /\ one_encapsulation(c) /\ vlan_lists(c) /\ switched_on(c)
                    /\ (\A l \in entered : l.needs \subseteq c) => named_blocks(c)

VARIABLES scenario, lines, base

vars == <<scenario, lines, base>>

facts(entered) == facts_of(scenario, entered)

\* The parser finds the domains of an aaa block again in the text, and keeps
\* them a second time with their name alone.
extract_aaa_sub_blocks(c) ==
    c \cup {<<<<"aaa_domains", o[2]>>, "name", o[2]>> : o \in Objects(c, "aaa_domain")}

\* The VLANs of "vlan batch" join those that have a block of their own.
parse_vlan_batch(c) ==
    c \cup {<<<<"vlan", v>>, "vlan_id", v>> :
               v \in UNION {expand_huawei_vlan_list(words) : words \in All(c, "vlan_batch", "words")}}

parse(entered) == parse_vlan_batch(extract_aaa_sub_blocks(facts(entered)))

current == parse(lines)

previous == parse(base)

distance(x, y) == Cardinality((x \ y) \cup (y \ x))

Init ==
    /\ scenario \in Scenarios
    /\ lines = {}
    /\ base = {}

\* A line is entered in a block that is there.
EnterLine ==
    \E l \in scenario.lines \ lines :
        /\ l.needs \subseteq facts(lines)
        /\ distance(base, lines \cup {l}) <= MaxDistance
        /\ lines' = lines \cup {l}
        /\ UNCHANGED <<scenario, base>>

\* Faulty: the lines written in the block stay.
UndoLineAlone ==
    \E l \in lines :
        /\ distance(base, lines \ {l}) <= MaxDistance
        /\ lines' = lines \ {l}
        /\ UNCHANGED <<scenario, base>>

\* Undoing a block takes with it the lines written in it.
UndoLine ==
    \E l \in lines :
        LET left == {m \in lines \ {l} : m.needs \cap l.adds = {}}
        IN  /\ distance(base, left) <= MaxDistance
            /\ lines' = left
            /\ UNCHANGED <<scenario, base>>

\* A snapshot is read and analysed; it is the base of the next comparison.
TakeSnapshot ==
    /\ base # lines
    /\ base' = lines
    /\ UNCHANGED <<scenario, lines>>

Next == EnterLine \/ UndoLine \/ TakeSnapshot

Spec == Init /\ [][Next]_vars

-----------------------------------------------------------------------------
(* What an analysis of the device stores.  The properties of one analysis   *)
(* look at it when the snapshot was just taken; every set of lines is.      *)

just_taken == base = lines

issues == detect_issues(current)

services == detect_services(current)

circuits == detect_circuits(current)

subjects_of(rows, code) == {row[2] : row \in {r \in rows : r[1] = code}}

\* The lines stay in the blocks they are written in, on the device and in the
\* snapshot.
TypeOK ==
    /\ scenario \in Scenarios
    /\ \A entered \in {lines, base} :
          /\ entered \subseteq scenario.lines
          /\ \A l \in entered : l.needs \subseteq facts(entered)
    /\ distance(base, lines) <= MaxDistance

\* The low confidence of a service and the issue about the same configuration
\* are computed by different modules from different lists, and say the same:
\* a service is graded down for what is missing exactly when that is missing
\* from all of its objects.
GradesAgreeWithIssues ==
    LET found == issues
        detected == services
        graded(type, confidence) == \E s \in detected : s[1] = type /\ s[3] = confidence
        reported(code) == subjects_of(found, code)
        all_reported(code, subjects) == subjects # {} /\ subjects \subseteq reported(code)
    IN  just_taken =>
        /\ graded("vpnv4", 50)
             <=> all_reported("vpnv4_peer_not_enabled", Objects(current, "vpnv4_peer"))
        /\ graded("vrf", 70) <=> all_reported("vpn_instance_without_rd", Names(current, "vpn_instance"))
        /\ graded("ospf", 75) <=> all_reported("ospf_no_router_id", Objects(current, "ospf"))
        /\ graded("syslog", 50) <=> reported("syslog_without_loghost") # {}
        /\ graded("ntp", 60) => reported("ntp_without_authentication") = {}
        /\ graded("management_access", 90) => reported("vty_without_acl") = {}
        /\ graded("traffic_policy", 70)
             => all_reported("traffic_policy_orphan", Names(current, "traffic_policy"))
        /\ graded("nat", 70)
             => all_reported("nat_address_group_orphan", Names(current, "nat_address_group"))
        /\ graded("ppp_access", 80)
             => all_reported("pppoe_interface_without_bas", pppoe_servers(current))
        /\ \A r \in Objects(current, "radius_server") :
              <<"radius_group", r[2], 70>> \in detected
                <=> r \in reported("radius_group_without_authentication_server")

\* The parser and the correlator walk the same lists with different index
\* arithmetic, and find the VLANs the list means.
ListsExpand ==
    just_taken =>
    \A words \in All(current, "vlan_batch", "words")
                   \cup UNION {All(current, "interface", field) : field \in list_fields} :
        words # AllVlans =>
            /\ expand_vlan_list(words) = written(words)
            /\ expand_huawei_vlan_list(words) = written(words)

\* A VLAN is reported as unused although a tracking session finds it on an
\* interface in two cases only: inside a range, of which the detector reads
\* the ends, or as the user VLAN of a BAS interface.
UnusedVlansHide ==
    just_taken =>
    \A v \in subjects_of(detect_l2_issues(current), "l2_vlan_defined_unused"),
       pair \in extract_vlan_interfaces_from_device(current) :
        pair[2] = v =>
            \/ Is(current, pair[1], "user_vlan", v)
            \/ \E field \in list_fields : \E words \in Values(current, pair[1], field) :
                  \E k \in DOMAIN words : words[k] = To /\ words[k - 1] < v /\ v < words[k + 1]

\* The four detectors of circuits divide the subinterfaces among them: one
\* that carries a VLAN and no address is a circuit, of one type only unless
\* it is double tagged into a VSI, and a transport of VLANs is nothing else.
SubinterfacesAreCircuits ==
    LET found == circuits
    IN  just_taken => \A i \in Interfaces(current) :
        LET types == {row[1] : row \in {r \in found : r[2] = i}}
        IN  /\ (Has(current, i, "vlan_id") /\ ~Has(current, i, "ip_address")) => types # {}
            /\ "vlan_transport" \in types => types = {"vlan_transport"}
            /\ "l3_transit" \in types => Has(current, i, "ip_address")

-----------------------------------------------------------------------------
(* What repairs an issue                                                    *)

missing_codes ==
    {"bas_domain_not_found", "bfd_session_interface_not_found", "bgp_route_policy_not_found",
     "bgp_vpn_instance_not_found", "domain_accounting_scheme_not_found",
     "domain_ip_pool_not_found", "domain_radius_group_not_found",
     "interface_vpn_instance_not_found", "isis_interface_unknown_process",
     "management_acl_reference_not_found", "multicast_vpn_instance_not_found",
     "nat_acl_not_found", "nat_address_group_not_found", "nat_vpn_instance_not_found",
     "pppoe_virtual_template_not_found", "qos_classifier_acl_not_found",
     "qos_profile_not_found", "route_policy_as_path_filter_not_found",
     "route_policy_community_filter_not_found", "static_route_vpn_instance_not_found",
     "traffic_behavior_not_found", "traffic_classifier_not_found",
     "traffic_policy_not_found", "virtual_template_pool_not_found"}

missing_references(entered) == {row \in detect_issues(parse(entered)) : row[1] \in missing_codes}

\* The fields, and the kinds by their names, that refer to something.
reference_fields ==
    {"bas.default_domain", "interface", "route_policy_import", "route_policy_export",
     "vpn_instance", "accounting_scheme", "ip_pool", "radius_server_group", "isis_process_id",
     "acl_refs", "acl_inbound", "acl_outbound", "acl", "address_group", "pppoe.virtual_template",
     "if_match_acl", "qos_profiles_applied", "as-path-filter", "community-filter", "behavior",
     "classifier", "traffic_policies_applied", "remote_address_pool"}

is_reference(f) ==
    f[1][1] \in {"bgp_vpn", "multicast_vpn", "pim_vpn"} \/ f[2] \in reference_fields

refers(c) == \E f \in c : is_reference(f)

\* A line that refers to nothing, a definition or a setting, never makes a
\* reference dangle when it is entered, and never repairs one when it is
\* undone.  (A VLAN is no such reference: the first VLAN that is defined makes
\* the detector look for all others.)
ReferencesSettle ==
    [][/\ just_taken /\ lines \subseteq lines' /\ ~refers(facts(lines') \ facts(lines))
             => missing_references(lines') \subseteq missing_references(lines)
       /\ just_taken /\ lines' \subseteq lines /\ ~refers(facts(lines) \ facts(lines'))
             => missing_references(lines) \subseteq missing_references(lines')]_vars

-----------------------------------------------------------------------------
(* What the comparison of the snapshot with the device would store now.     *)

shown == compare_config_snapshots(previous, current)

\* The blocks of which a comparison sees every difference, the fields of other
\* blocks, and the fields of what is configured once.
compared_kinds ==
    {"route_policy", "acl", "as_path_filter", "community_filter", "stp_region",
     "vpn_af", "nat_address_group", "vpnv6_peer", "ospfv3", "pim_vpn", "zte_pon", "zte_onu",
     "zte_service_port", "zte_vlan"} \cup huawei_categories

compared_fields ==
    ({"interface"} \X {"description", "ip_address", "vlan_id", "second_vlan_id", "vsi_name",
                       "shutdown", "port_mode", "access_vlan", "trunk_allowed_vlans", "trunk_pvid",
                       "stp_enabled", "stp_disabled", "stp_edge_port",
                       "traffic_policies_applied", "ipv6_addresses"})
      \cup ({"bgp_peer"} \X (bgp_fields \cup {"bfd_enabled", "graceful_restart"}))
      \cup ({"vlan"} \X {"description", "name"})
      \cup ({"isis"} \X {"network_entity", "is_level", "cost_style", "import_routes"})
      \cup ({"bfd_session"} \X {"peer_ip", "peer_ipv6", "interface", "local_discriminator",
                               "remote_discriminator", "min_tx_interval", "min_rx_interval",
                               "detect_multiplier", "committed"})
      \cup ({"aaa_domain"} \X {"authentication_scheme", "accounting_scheme",
                              "authorization_scheme", "radius_server_group", "ip_pool",
                              "dns_primary", "dns_secondary"})
      \cup ({"radius_server"} \X {"authentication_servers", "accounting_servers", "retransmit",
                                 "timeout", "shared_key_type"})
      \cup ({"ip_pool"} \X {"gateway", "mask", "lease", "radius_server_group", "mode", "type",
                           "dns_servers"})
      \cup ({"bgp_ipv6_peer"} \X {"enabled", "route_policy_import", "route_policy_export"})
      \cup ({"igmp_snooping_vlan"} \X {"enabled", "version", "querier_enabled"})
      \cup {<<"stp_instance", "vlans">>, <<"ldp_remote_peer", "remote_ip">>,
            <<"vpn_instance", "description">>}

compared_settings ==
    ({"mpls"} \X {"enabled", "lsr_id", "te_enabled"})
      \cup ({"mpls_ldp"} \X {"enabled", "graceful_restart"})
      \cup ({"multicast"} \X {"ipv4_routing_enabled", "ipv6_routing_enabled"})
      \cup ({"pim"} \X pim_global)
      \cup ({"graceful_restart", "nsr"} \X {"bgp", "isis", "ospf", "ldp"})
      \cup {<<"stp", "enabled">>, <<"stp", "mode">>, <<"igmp_snooping", "global_enabled">>}

\* What is compared of an interface with a role: the field that gives it the
\* role, and a field that is compared then.
compared_by_role ==
    ({"pim_enabled"} \X {"pim_mode", "pim_hello_holdtime"})
      \cup ({"igmp_enabled"} \X {"igmp_version", "igmp_limit", "igmp_static_groups", "igmp_join_groups"})
      \cup ({"mld_enabled"} \X {"mld_version", "mld_static_groups"})
      \cup ({"isis_ipv6_enabled"} \X {"isis_ipv6_process_id", "isis_ipv6_cost"})
      \cup ({"bas.enabled"} \X {"user_vlan", "qinq_vlan", "bas.default_domain",
                                "bas.pre_authentication_domain", "bas.authentication_method",
                                "bas.access_type", "bas.accounting_copy_radius_group",
                                "bas.ip_trigger", "bas.arp_trigger", "bas.ipv6_trigger"})
      \cup ({"pppoe.enabled"} \X {"pppoe.virtual_template", "pppoe.max_sessions", "user_vlan",
                                  "qinq_vlan", "bas.default_domain"})

compared_of_templates ==
    {"mtu", "ip_unnumbered_interface", "remote_address_pool", "ppp_keepalive", "ppp_mru",
     "ipv6_enabled", "ppp_authentication_modes"}

is_compared(b, t, f) ==
    LET o == f[1] field == f[2]
    IN  \/ o[1] \in compared_kinds
        \/ <<o[1], field>> \in compared_fields
        \/ (<<o[1], field>> \in compared_settings \/ o[1] = "nat_alg") /\ o = <<o[1], "">>
        \/ /\ o \in Interfaces(b) \cap Interfaces(t)
           /\ \E p \in compared_by_role : p[2] = field /\ (Has(b, o, p[1]) \/ Has(t, o, p[1]))
        \/ o \in virtual_templates(b) \cup virtual_templates(t) /\ field \in compared_of_templates
        \/ o \in eth_trunks(b) \cup eth_trunks(t) /\ field = "members"
        \/ /\ \E p \in Objects(b, "isis") : o \in isis_interfaces(b, p)
           /\ field \in {"isis_cost", "isis_circuit_type"}
        \/ /\ o[1] \in {"traffic_policy", "traffic_classifier", "traffic_behavior"}
           /\ o \in Objects(b, o[1]) \cap Objects(t, o[1])

\* What is left of the data that a comparison condenses before it looks: of
\* the routes with one key, of the IPv6 routes to one prefix and of the lines of
\* one prefix list the last, of the sections of a pool their starts, and PIM is
\* sparse where nothing says its mode.
list_contents(c, entries) ==
    {<<name, content(c, last_line(c, entries, name))>> : name \in names_of(c, entries)}

condensed(c) ==
    [routes |-> {<<key, [f \in {"description", "preference", "tag"} |->
                            Values(c, kept_route(c, key), f)]>> : key \in route_keys(c)},
     ipv6_routes |-> {<<prefix, ipv6_next_hop(c, prefix)>> : prefix \in ipv6_prefixes(c)},
     lists |-> list_contents(c, Objects(c, "prefix_list")),
     ipv6_lists |-> list_contents(c, ipv6_prefix_lists(c)),
     sections |-> {<<pool, starts(c, pool)>> : pool \in Objects(c, "ip_pool")},
     pim_mode |-> pim_mode(c)]

\* If no section shows anything, the two configurations have the same entries
\* and agree in all that is compared, whichever they are: what is in the one
\* only is in none of the sections.  Of the data that is condensed they agree
\* in what was kept, and may differ in an earlier route of the same key, an
\* earlier line of a prefix list or the end of a section.
ComparedDataAgrees ==
    shown = {} =>
        /\ \A f \in differing(previous, current) : ~is_compared(previous, current, f)
        /\ \A kind \in {"interface", "bgp_peer", "vlan", "isis", "vpn_instance", "aaa_domain",
                        "radius_server", "ip_pool", "bfd_session", "nat_address_group",
                        "stp_instance", "ldp_remote_peer", "igmp_snooping_vlan",
                        "bgp_ipv6_peer", "bgp_ipv6_network"} :
              Objects(previous, kind) = Objects(current, kind)
        /\ \A role \in {"mpls_enabled", "mpls_ldp_enabled"} \cup {p[1] : p \in compared_by_role} :
              InterfacesOf(previous, role) = InterfacesOf(current, role)
        /\ virtual_templates(previous) = virtual_templates(current)
        /\ condensed(previous) = condensed(current)
        /\ All(previous, "bgp", "networks") = All(current, "bgp", "networks")
        /\ \A kind \in {"nat_outbound", "nat_static", "nat_server"} :
              rules(previous, kind) = rules(current, kind)

\* A circuit that came or went does so because of its interface or a route
\* that is in the same comparison, except for VSIs and ONUs, and for the
\* double tags of a QinQ termination, which are no compared field.
CircuitChangesAreExplained ==
    LET found == compare_circuits(previous, current)
        interfaces == compare_interfaces(previous, current)
        terminates(i) == \E c \in {previous, current} : Is(c, i, "vlan_type", "qinq_termination")
    IN  \A k \in found.added \cup found.removed :
            \/ k[1] \in {"olt", "l2vpn_vsi"} \/ terminates(k[2])
            \/ k[2] \in interfaces.added \cup interfaces.removed \cup interfaces.changed
            \/ any_change(compare_static_routes(previous, current))

\* The step of the validation plan, and of the rollback plan, that belongs to
\* an impact.  An impact without one is a change the plan passes over: a
\* removed interface, route or peer, a new local AS, a VPN instance, QoS, NAT.
validated_by ==
    {<<"interface_added", "interface">>, <<"interface_changed", "interface">>,
     <<"route_added", "routing">>, <<"peer_added", "bgp">>, <<"peer_policy", "bgp">>,
     <<"issues", "issues">>, <<"vlan_added", "vlan">>, <<"vlan_removed", "vlan">>,
     <<"vlan_changed", "vlan">>, <<"eth_trunk_members", "eth_trunk">>, <<"stp", "stp">>,
     <<"stp_enabled", "stp">>, <<"route_policy_added", "policy">>,
     <<"route_policy_removed", "policy">>, <<"prefix_lists", "policy">>, <<"isis", "isis">>,
     <<"mpls_lsr_id", "mpls">>, <<"mpls_ldp_interfaces", "mpls_ldp">>,
     <<"mpls_ldp_remote_peers", "mpls_ldp">>}

rolled_back_by ==
    {<<"interface_added", "interface_added">>, <<"route_added", "static_route_added">>,
     <<"peer_added", "bgp_peer_added">>, <<"peer_policy", "bgp_peer_changed">>,
     <<"vlan_added", "vlan_added">>, <<"vlan_removed", "vlan_removed">>,
     <<"allowed_vlans", "allowed_vlans_changed">>, <<"access_vlan", "access_vlan_changed">>,
     <<"pvid", "pvid_changed">>, <<"eth_trunk_members", "eth_trunk_members_changed">>,
     <<"stp", "stp_changed">>, <<"route_policy_added", "policy_changed">>,
     <<"route_policy_removed", "policy_changed">>, <<"prefix_lists", "policy_changed">>,
     <<"isis", "isis_changed">>, <<"isis_network_entity", "isis_network_entity_changed">>,
     <<"mpls_lsr_id", "mpls_lsr_id_changed">>,
     <<"mpls_ldp_interfaces", "mpls_ldp_interface_changed">>,
     <<"mpls_ldp_remote_peers", "mpls_ldp_remote_peer_changed">>}

\* The steps of these impacts are in both plans.
in_both_plans ==
    {<<"pim_global", "multicast">>, <<"multicast", "multicast">>, <<"pim_added", "multicast">>,
     <<"mld_removed", "multicast">>, <<"igmp_changed", "multicast">>, <<"ipv6", "ipv6">>,
     <<"bas_interfaces", "bng">>, <<"domains", "bng">>, <<"radius", "bng">>,
     <<"pppoe_interfaces", "pppoe">>, <<"virtual_templates", "pppoe">>, <<"bfd", "ha">>,
     <<"graceful_restart", "ha">>, <<"nsr", "ha">>, <<"ldp_graceful_restart", "ha">>,
     <<"huawei_advanced", "huawei_advanced">>, <<"zte_olt", "zte_olt">>}

what(rows) == {row[1] : row \in rows}

\* Impacts, validation plan and rollback plan are computed one after another
\* from the same differences: an impact that is reported has its step in the
\* plans.
PlansFollowImpacts ==
    LET reported == what(impacts(previous, current))
        covers(plan, steps) == \A s \in steps : s[1] \in reported => s[2] \in what(plan)
        validation == validation_plan(previous, current)
        rollback == rollback_plan(previous, current)
    IN  /\ covers(validation, validated_by \cup in_both_plans)
        /\ covers(rollback, rolled_back_by \cup in_both_plans)

\* A new issue is missing from the comparison only because an issue of the
\* snapshot has its key: one of the same check, and about the same interface or
\* peer, or the same next hop, where the key tells these.  A check that has one
\* issue for each interface or peer never misses one.
NewIssuesAreShown ==
    LET before == detect_issues(previous)
        new == compare_issues(previous, current).added
    IN  \A row \in issues \ before :
            issue_key(current, row) \notin new =>
                /\ row[1] \notin keyed_by_subject
                /\ \E old \in before :
                      /\ old[1] = row[1]
                      /\ row[1] \in keyed_by_owner => old[2][1] = row[2][1]
                      /\ row[1] \in keyed_by_next_hop =>
                            Values(previous, old[2], "next_hop") = Values(current, row[2], "next_hop")
=============================================================================
