------------------------- MODULE ConfigReviewProofs -------------------------
(***************************************************************************)
(* Theorems of ConfigReview.  The detectors and the comparison are           *)
(* operators of two configurations, and what is proved of them here holds    *)
(* of any two, whatever lines they were made of.                             *)
(***************************************************************************)
EXTENDS ConfigReview, VlanListsProofs, FiniteSetTheorems, TLAPS

-----------------------------------------------------------------------------
(* Rows <<what, subject>> of reports and plans                              *)

\* A row of a report has its name, and there is something to report.
LEMMA InReport ==
    ASSUME NEW v, NEW S, NEW row \in Report(v, S)
    PROVE  row[1] = v /\ S # {}
  BY DEF Report

\* The row of a report under a condition has its name, and the condition holds.
LEMMA InReportIf ==
    ASSUME NEW v, NEW condition, NEW row \in ReportIf(v, condition)
    PROVE  row[1] = v /\ condition
<1>1. condition
  BY DEF ReportIf
<1>2. row = <<v, "">>
  BY DEF ReportIf
<1>3. <<v, "">>[1] = v
  OBVIOUS
<1> QED
  BY ONLY <1>1, <1>2, <1>3

\* A plan that contains a report with something to report has its step.
LEMMA ReportInPlan ==
    ASSUME NEW v, NEW S, NEW plan, Report(v, S) \subseteq plan, S # {}
    PROVE  v \in what(plan)
<1>1. PICK s \in S : TRUE
  OBVIOUS
<1>2. <<v, s>> \in plan /\ <<v, s>>[1] = v
  BY DEF Report
<1> QED
  BY <1>2 DEF what

\* The same of a report under a condition that holds.
LEMMA ReportIfInPlan ==
    ASSUME NEW v, NEW condition, NEW plan, ReportIf(v, condition) \subseteq plan, condition
    PROVE  v \in what(plan)
<1>1. <<v, "">> \in ReportIf(v, condition)
  BY DEF ReportIf
<1>2. <<v, "">>[1] = v
  OBVIOUS
<1> QED
  BY <1>1, <1>2 DEF what

-----------------------------------------------------------------------------
(* What makes an entry changed                                              *)

\* A section with a change is one of the sections that changed.
LEMMA SectionsChange ==
    ASSUME NEW sections, NEW s \in DOMAIN sections, any_change(sections[s])
    PROVE  sections_changed(sections) # {}
  BY DEF sections_changed

\* A field with other values in the two configurations is a changed field.
LEMMA OtherValues ==
    ASSUME NEW b, NEW t, NEW o, NEW fields, NEW field \in fields,
           Values(b, o, field) # Values(t, o, field)
    PROVE  field \in changed_fields(b, t, o, fields)
<1>1. PICK x : x \in Values(b, o, field) <=> x \notin Values(t, o, field)
  OBVIOUS
<1>2. PICK g \in b \cup t : g[1] = o /\ g[2] = field /\ g[3] = x
  BY <1>1 DEF Values
<1>3. g \in differing(b, t)
  BY <1>1, <1>2 DEF Values, differing
<1> QED
  BY <1>2, <1>3 DEF changed_fields

\* A peer with another policy than before is a changed peer.
LEMMA PolicyReplaced ==
    ASSUME NEW b, NEW t, policy_replaced(b, t) # {}
    PROVE  compare_bgp(b, t).peers.changed # {}
<1>1. PICK d \in policy_replaced(b, t) : TRUE
  OBVIOUS
<1>2. /\ d[1] \in Objects(b, "bgp_peer") \cap Objects(t, "bgp_peer")
      /\ d[2] \in bgp_fields
      /\ Values(b, d[1], d[2]) # Values(t, d[1], d[2])
  BY <1>1 DEF policy_replaced, policy_directions, bgp_fields
<1>3. changed_fields(b, t, d[1], bgp_fields) # {}
  BY <1>2, OtherValues
<1>4. compare_bgp(b, t).peers.changed
        = (Objects(b, "bgp_peer") \cap Objects(t, "bgp_peer"))
             \cap {o \in Objects(b, "bgp_peer") : changed_fields(b, t, o, bgp_fields) # {}}
  BY DEF compare_bgp, compare_fields, Diff
<1> QED
  BY <1>2, <1>3, <1>4

\* The names of a list differ only if an entry came, went or changed.
LEMMA NamesDiffer ==
    ASSUME NEW b, NEW t, NEW kind, Names(b, kind) # Names(t, kind)
    PROVE  any_change(compare_kind(b, t, kind))
<1>1. PICK x : x \in Names(b, kind) <=> x \notin Names(t, kind)
  OBVIOUS
<1>2. PICK c \in {b, t} : x \in Names(c, kind)
  BY <1>1
<1>3. PICK o \in Objects(c, kind) : x \in Values(c, o, "name")
  BY <1>2 DEF Names, All
<1>4. PICK g \in c : g[1] = o /\ g[2] = "name" /\ g[3] = x
  BY <1>3 DEF Values
<1>5. \A e \in {b, t} : g \in e => o \in Objects(e, kind) /\ x \in Names(e, kind)
  <2> TAKE e \in {b, t}
  <2> HAVE g \in e
  <2>1. o \in Objects(e, kind)
    BY <1>3, <1>4 DEF Objects
  <2>2. x \in Values(e, o, "name")
    BY <1>4 DEF Values
  <2> QED
    BY <2>1, <2>2 DEF Names, All
<1>6. g \in differing(b, t)
  BY <1>1, <1>2, <1>4, <1>5 DEF differing
<1>7. o \in {f[1] : f \in differing(b, t)}
  BY <1>4, <1>6
<1>8. o \in Objects(b, kind) \cup Objects(t, kind)
  BY <1>2, <1>3
<1> QED
  BY <1>7, <1>8 DEF any_change, compare_kind, compare_whole, Diff

-----------------------------------------------------------------------------
(* The steps of the plans                                                   *)

\* Each of these differences has its step in the validation plan.
LEMMA ValidationSteps ==
    ASSUME NEW b, NEW t
    PROVE  LET steps == what(validation_plan(b, t))
           IN  /\ compare_interfaces(b, t).added # {} => "interface" \in steps
               /\ compare_interfaces(b, t).changed # {} => "interface" \in steps
               /\ compare_static_routes(b, t).added # {} => "routing" \in steps
               /\ compare_bgp(b, t).peers.added # {} => "bgp" \in steps
               /\ compare_bgp(b, t).peers.changed # {} => "bgp" \in steps
               /\ compare_issues(b, t).added # {} => "issues" \in steps
               /\ any_change(compare_vlans(b, t)) => "vlan" \in steps
               /\ stp_at_risk(b, t) => "stp" \in steps
               /\ compare_stp(b, t).enabled_changed => "stp" \in steps
               /\ build_switching_section(b, t).eth_trunk_members # {} => "eth_trunk" \in steps
               /\ has_policy_changes(b, t) => "policy" \in steps
               /\ any_change(compare_isis(b, t).processes) => "isis" \in steps
               /\ compare_mpls(b, t).fields # {} => "mpls" \in steps
               /\ any_change(compare_mpls_ldp(b, t).interfaces) => "mpls_ldp" \in steps
               /\ any_change(compare_mpls_ldp(b, t).remote_peers) => "mpls_ldp" \in steps
<1> DEFINE plan == validation_plan(b, t)
           interfaces == compare_interfaces(b, t)
           routes == compare_static_routes(b, t)
           peers == compare_bgp(b, t).peers
           stp == compare_stp(b, t)
           ldp == compare_mpls_ldp(b, t)
<1>1. interfaces.added \cup interfaces.changed # {} => "interface" \in what(plan)
  <2>1. Report("interface", interfaces.added \cup interfaces.changed) \subseteq plan
    BY DEF validation_plan, build_validation_plan
  <2> QED
    BY <2>1, ReportInPlan
<1>2. routes.added # {} => "routing" \in what(plan)
  <2>1. Report("routing", routes.added \cup routes.changed) \subseteq plan
    BY DEF validation_plan, build_validation_plan
  <2>2. routes.added # {} => routes.added \cup routes.changed # {}
    OBVIOUS
  <2> QED
    BY <2>1, <2>2, ReportInPlan
<1>3. peers.added \cup peers.changed # {} => "bgp" \in what(plan)
  <2>1. Report("bgp", peers.added \cup peers.changed) \subseteq plan
    BY DEF validation_plan, build_validation_plan
  <2> QED
    BY <2>1, ReportInPlan
<1>4. compare_issues(b, t).added # {} => "issues" \in what(plan)
  <2>1. ReportIf("issues", compare_issues(b, t).added # {}) \subseteq plan
    BY DEF validation_plan, validate_services
  <2> QED
    BY <2>1, ReportIfInPlan
<1>5. any_change(compare_vlans(b, t)) => "vlan" \in what(plan)
  <2>1. ReportIf("vlan", any_change(compare_vlans(b, t))) \subseteq plan
    BY DEF validation_plan, validate_switching
  <2> QED
    BY <2>1, ReportIfInPlan
<1>6. stp_at_risk(b, t) \/ stp.enabled_changed => "stp" \in what(plan)
  <2> DEFINE condition == stp.mode_changed \/ stp.instances.changed # {} \/ stp.enabled_changed
  <2>1. ReportIf("stp", condition) \subseteq plan
    BY DEF validation_plan, validate_switching
  <2>2. stp_at_risk(b, t) \/ stp.enabled_changed => condition
    BY DEF stp_at_risk
  <2> QED
    BY <2>1, <2>2, ReportIfInPlan
<1>7. build_switching_section(b, t).eth_trunk_members # {} => "eth_trunk" \in what(plan)
  <2>1. Report("eth_trunk", build_switching_section(b, t).eth_trunk_members) \subseteq plan
    BY DEF validation_plan, validate_switching
  <2> QED
    BY <2>1, ReportInPlan
<1>8. has_policy_changes(b, t) => "policy" \in what(plan)
  <2> SUFFICES ASSUME has_policy_changes(b, t) PROVE "policy" \in what(plan)
    OBVIOUS
  <2>1. ReportIf("policy", TRUE) \subseteq validate_policies(b, t)
    BY DEF validate_policies
  <2>2. validate_policies(b, t) \subseteq plan
    BY DEF validation_plan
  <2>3. ReportIf("policy", TRUE) \subseteq plan
    BY <2>1, <2>2
  <2> QED
    BY <2>3, ReportIfInPlan
<1>9. any_change(compare_isis(b, t).processes) => "isis" \in what(plan)
  <2>1. ReportIf("isis", any_change(compare_isis(b, t).processes)) \subseteq plan
    BY DEF validation_plan, validate_core
  <2> QED
    BY <2>1, ReportIfInPlan
<1>10. compare_mpls(b, t).fields # {} => "mpls" \in what(plan)
  <2>1. ReportIf("mpls", compare_mpls(b, t).fields # {}) \subseteq plan
    BY DEF validation_plan, validate_core
  <2> QED
    BY <2>1, ReportIfInPlan
<1>11. any_change(ldp.interfaces) \/ any_change(ldp.remote_peers) => "mpls_ldp" \in what(plan)
  <2> DEFINE condition == \/ "enabled" \in ldp.fields
                          \/ any_change(ldp.interfaces)
                          \/ any_change(ldp.remote_peers)
  <2>1. ReportIf("mpls_ldp", condition) \subseteq plan
    BY DEF validation_plan, validate_core
  <2>2. any_change(ldp.interfaces) \/ any_change(ldp.remote_peers) => condition
    OBVIOUS
  <2> QED
    BY <2>1, <2>2, ReportIfInPlan
<1> QED
  BY <1>1, <1>2, <1>3, <1>4, <1>5, <1>6, <1>7, <1>8, <1>9, <1>10, <1>11

\* Each of these differences has its step in the rollback plan.
LEMMA RollbackSteps ==
    ASSUME NEW b, NEW t
    PROVE  LET steps == what(rollback_plan(b, t))
               section == build_switching_section(b, t)
           IN  /\ compare_interfaces(b, t).added # {} => "interface_added" \in steps
               /\ compare_static_routes(b, t).added # {} => "static_route_added" \in steps
               /\ compare_bgp(b, t).peers.added # {} => "bgp_peer_added" \in steps
               /\ compare_bgp(b, t).peers.changed # {} => "bgp_peer_changed" \in steps
               /\ compare_vlans(b, t).added # {} => "vlan_added" \in steps
               /\ compare_vlans(b, t).removed # {} => "vlan_removed" \in steps
               /\ section.allowed_vlans # {} => "allowed_vlans_changed" \in steps
               /\ section.access_vlan # {} => "access_vlan_changed" \in steps
               /\ section.pvid # {} => "pvid_changed" \in steps
               /\ section.eth_trunk_members # {} => "eth_trunk_members_changed" \in steps
               /\ stp_at_risk(b, t) => "stp_changed" \in steps
               /\ has_policy_changes(b, t) => "policy_changed" \in steps
               /\ any_change(compare_isis(b, t).processes) => "isis_changed" \in steps
               /\ compare_isis(b, t).network_entity # {} => "isis_network_entity_changed" \in steps
               /\ "lsr_id" \in compare_mpls(b, t).fields => "mpls_lsr_id_changed" \in steps
               /\ any_change(compare_mpls_ldp(b, t).interfaces)
                    => "mpls_ldp_interface_changed" \in steps
               /\ any_change(compare_mpls_ldp(b, t).remote_peers)
                    => "mpls_ldp_remote_peer_changed" \in steps
<1> DEFINE plan == rollback_plan(b, t)
           section == build_switching_section(b, t)
<1>1. compare_interfaces(b, t).added # {} => "interface_added" \in what(plan)
  <2>1. Report("interface_added", compare_interfaces(b, t).added) \subseteq plan
    BY DEF rollback_plan, build_rollback_plan
  <2> QED
    BY <2>1, ReportInPlan
<1>2. compare_static_routes(b, t).added # {} => "static_route_added" \in what(plan)
  <2>1. Report("static_route_added", compare_static_routes(b, t).added) \subseteq plan
    BY DEF rollback_plan, build_rollback_plan
  <2> QED
    BY <2>1, ReportInPlan
<1>3. compare_bgp(b, t).peers.added # {} => "bgp_peer_added" \in what(plan)
  <2>1. Report("bgp_peer_added", compare_bgp(b, t).peers.added) \subseteq plan
    BY DEF rollback_plan, build_rollback_plan
  <2> QED
    BY <2>1, ReportInPlan
<1>4. compare_bgp(b, t).peers.changed # {} => "bgp_peer_changed" \in what(plan)
  <2>1. Report("bgp_peer_changed", compare_bgp(b, t).peers.changed) \subseteq plan
    BY DEF rollback_plan, build_rollback_plan
  <2> QED
    BY <2>1, ReportInPlan
<1>5. compare_vlans(b, t).added # {} => "vlan_added" \in what(plan)
  <2>1. Report("vlan_added", compare_vlans(b, t).added) \subseteq plan
    BY DEF rollback_plan, rollback_switching
  <2> QED
    BY <2>1, ReportInPlan
<1>6. compare_vlans(b, t).removed # {} => "vlan_removed" \in what(plan)
  <2>1. Report("vlan_removed", compare_vlans(b, t).removed) \subseteq plan
    BY DEF rollback_plan, rollback_switching
  <2> QED
    BY <2>1, ReportInPlan
<1>7. section.allowed_vlans # {} => "allowed_vlans_changed" \in what(plan)
  <2>1. Report("allowed_vlans_changed", section.allowed_vlans) \subseteq plan
    BY DEF rollback_plan, rollback_switching
  <2> QED
    BY <2>1, ReportInPlan
<1>8. section.access_vlan # {} => "access_vlan_changed" \in what(plan)
  <2>1. Report("access_vlan_changed", section.access_vlan) \subseteq plan
    BY DEF rollback_plan, rollback_switching
  <2> QED
    BY <2>1, ReportInPlan
<1>9. section.pvid # {} => "pvid_changed" \in what(plan)
  <2>1. Report("pvid_changed", section.pvid) \subseteq plan
    BY DEF rollback_plan, rollback_switching
  <2> QED
    BY <2>1, ReportInPlan
<1>10. section.eth_trunk_members # {} => "eth_trunk_members_changed" \in what(plan)
  <2>1. Report("eth_trunk_members_changed", section.eth_trunk_members) \subseteq plan
    BY DEF rollback_plan, rollback_core
  <2> QED
    BY <2>1, ReportInPlan
<1>11. stp_at_risk(b, t) => "stp_changed" \in what(plan)
  <2>1. ReportIf("stp_changed", stp_at_risk(b, t)) \subseteq plan
    BY DEF rollback_plan, rollback_switching
  <2> QED
    BY <2>1, ReportIfInPlan
<1>12. any_change(compare_isis(b, t).processes) => "isis_changed" \in what(plan)
  <2>1. ReportIf("isis_changed", any_change(compare_isis(b, t).processes)) \subseteq plan
    BY DEF rollback_plan, rollback_core
  <2> QED
    BY <2>1, ReportIfInPlan
<1>13. compare_isis(b, t).network_entity # {} => "isis_network_entity_changed" \in what(plan)
  <2>1. ReportIf("isis_network_entity_changed", compare_isis(b, t).network_entity # {}) \subseteq plan
    BY DEF rollback_plan, rollback_core
  <2> QED
    BY <2>1, ReportIfInPlan
<1>14. "lsr_id" \in compare_mpls(b, t).fields => "mpls_lsr_id_changed" \in what(plan)
  <2>1. ReportIf("mpls_lsr_id_changed", "lsr_id" \in compare_mpls(b, t).fields) \subseteq plan
    BY DEF rollback_plan, rollback_core
  <2> QED
    BY <2>1, ReportIfInPlan
<1>15. any_change(compare_mpls_ldp(b, t).interfaces) => "mpls_ldp_interface_changed" \in what(plan)
  <2>1. ReportIf("mpls_ldp_interface_changed", any_change(compare_mpls_ldp(b, t).interfaces)) \subseteq plan
    BY DEF rollback_plan, rollback_core
  <2> QED
    BY <2>1, ReportIfInPlan
<1>16. any_change(compare_mpls_ldp(b, t).remote_peers) => "mpls_ldp_remote_peer_changed" \in what(plan)
  <2>1. ReportIf("mpls_ldp_remote_peer_changed", any_change(compare_mpls_ldp(b, t).remote_peers)) \subseteq plan
    BY DEF rollback_plan, rollback_core
  <2> QED
    BY <2>1, ReportIfInPlan
<1>17. has_policy_changes(b, t) => "policy_changed" \in what(plan)
  <2> SUFFICES ASSUME has_policy_changes(b, t) PROVE "policy_changed" \in what(plan)
    OBVIOUS
  <2>1. ReportIf("policy_changed", TRUE) \subseteq rollback_policies(b, t)
    BY DEF rollback_policies
  <2>2. rollback_policies(b, t) \subseteq plan
    BY DEF rollback_plan
  <2> QED
    BY <2>1, <2>2, ReportIfInPlan
<1> QED
  BY <1>1, <1>2, <1>3, <1>4, <1>5, <1>6, <1>7, <1>8, <1>9, <1>10, <1>11, <1>12, <1>13, <1>14, <1>15, <1>16, <1>17

\* A section that changed has its step in both plans.
LEMMA CommonSteps ==
    ASSUME NEW b, NEW t, NEW plan, common_sections(b, t) \subseteq plan
    PROVE  /\ sections_changed(compare_bng(b, t)) # {} => "bng" \in what(plan)
           /\ sections_changed(compare_ha(b, t)) # {} => "ha" \in what(plan)
           /\ sections_changed(compare_multicast(b, t)) # {} => "multicast" \in what(plan)
           /\ any_change(compare_pppoe_interfaces(b, t)) => "pppoe" \in what(plan)
           /\ any_change(compare_pppoe_virtual_templates(b, t)) => "pppoe" \in what(plan)
           /\ sections_changed(compare_ipv6(b, t)) # {} => "ipv6" \in what(plan)
           /\ any_change(compare_huawei_advanced(b, t)) => "huawei_advanced" \in what(plan)
           /\ sections_changed(compare_zte_olt(b, t)) # {} => "zte_olt" \in what(plan)
<1> DEFINE bng == sections_changed(compare_bng(b, t))
           ha == sections_changed(compare_ha(b, t))
           multicast == sections_changed(compare_multicast(b, t))
           ipv6 == sections_changed(compare_ipv6(b, t))
           zte_olt == sections_changed(compare_zte_olt(b, t))
           interfaces == any_change(compare_pppoe_interfaces(b, t))
           templates == any_change(compare_pppoe_virtual_templates(b, t))
           huawei == any_change(compare_huawei_advanced(b, t))
<1>1. bng \cup ha # {} => "bng" \in what(plan)
  <2>1. ReportIf("bng", bng \cup ha # {}) \subseteq plan
    BY DEF common_sections, bng_section
  <2> QED
    BY <2>1, ReportIfInPlan
<1>2. ha # {} => "ha" \in what(plan)
  <2>1. ReportIf("ha", ha # {}) \subseteq plan
    BY DEF common_sections, ha_section
  <2> QED
    BY <2>1, ReportIfInPlan
<1>3. multicast # {} => "multicast" \in what(plan)
  <2>1. ReportIf("multicast", multicast # {}) \subseteq plan
    BY DEF common_sections, multicast_section
  <2> QED
    BY <2>1, ReportIfInPlan
<1>4. interfaces \/ templates => "pppoe" \in what(plan)
  <2>1. ReportIf("pppoe", interfaces \/ templates) \subseteq plan
    BY DEF common_sections, pppoe_section
  <2> QED
    BY <2>1, ReportIfInPlan
<1>5. ipv6 # {} => "ipv6" \in what(plan)
  <2>1. ReportIf("ipv6", ipv6 # {}) \subseteq plan
    BY DEF common_sections, ipv6_section
  <2> QED
    BY <2>1, ReportIfInPlan
<1>6. huawei => "huawei_advanced" \in what(plan)
  <2>1. ReportIf("huawei_advanced", huawei) \subseteq plan
    BY DEF common_sections, vendor_impacts
  <2> QED
    BY <2>1, ReportIfInPlan
<1>7. zte_olt # {} => "zte_olt" \in what(plan)
  <2>1. ReportIf("zte_olt", zte_olt # {}) \subseteq plan
    BY DEF common_sections, vendor_impacts
  <2> QED
    BY <2>1, ReportIfInPlan
<1> QED
  BY <1>1, <1>2, <1>3, <1>4, <1>5, <1>6, <1>7

\* Both plans have these steps.
LEMMA CommonToBoth ==
    ASSUME NEW b, NEW t
    PROVE  /\ common_sections(b, t) \subseteq validation_plan(b, t)
           /\ common_sections(b, t) \subseteq rollback_plan(b, t)
  BY DEF validation_plan, rollback_plan

-----------------------------------------------------------------------------
(* The impacts of each list, and their steps                                *)

\* The steps that belong to impact w are in the plans.
Planned(b, t, w) ==
    /\ \A s \in validated_by \cup in_both_plans : s[1] = w => s[2] \in what(validation_plan(b, t))
    /\ \A s \in rolled_back_by \cup in_both_plans : s[1] = w => s[2] \in what(rollback_plan(b, t))

\* An impact that no table lists needs no step.
LEMMA NoStep ==
    ASSUME NEW b, NEW t,
           NEW w, \A s \in validated_by \cup rolled_back_by \cup in_both_plans : s[1] # w
    PROVE  Planned(b, t, w)
  BY DEF Planned
\* build_isis_mpls_impacts: ISIS, MPLS and LDP.
LEMMA CoreImpacts ==
    ASSUME NEW b, NEW t, NEW row \in build_isis_mpls_impacts(b, t)
    PROVE  Planned(b, t, row[1])
<1>1. \/ row \in ReportIf("isis", any_change(compare_isis(b, t).processes))
      \/ row \in ReportIf("isis_network_entity", compare_isis(b, t).network_entity # {})
      \/ row \in ReportIf("mpls_lsr_id", "lsr_id" \in compare_mpls(b, t).fields)
      \/ row \in ReportIf("mpls_ldp_interfaces", any_change(compare_mpls_ldp(b, t).interfaces))
      \/ row \in ReportIf("mpls_ldp_remote_peers", any_change(compare_mpls_ldp(b, t).remote_peers))
  BY DEF build_isis_mpls_impacts
<1>2. CASE row \in ReportIf("isis", any_change(compare_isis(b, t).processes))
  <2>1. row[1] = "isis" /\ "isis" \in what(validation_plan(b, t))
        /\ "isis_changed" \in what(rollback_plan(b, t))
    BY <1>2, InReportIf, ValidationSteps, RollbackSteps
  <2> QED
    BY <2>1 DEF Planned, validated_by, rolled_back_by, in_both_plans
<1>3. CASE row \in ReportIf("isis_network_entity", compare_isis(b, t).network_entity # {})
  <2>1. row[1] = "isis_network_entity"
        /\ "isis_network_entity_changed" \in what(rollback_plan(b, t))
    BY <1>3, InReportIf, RollbackSteps
  <2> QED
    BY <2>1 DEF Planned, validated_by, rolled_back_by, in_both_plans
<1>4. CASE row \in ReportIf("mpls_lsr_id", "lsr_id" \in compare_mpls(b, t).fields)
  <2>1. row[1] = "mpls_lsr_id" /\ "mpls" \in what(validation_plan(b, t))
        /\ "mpls_lsr_id_changed" \in what(rollback_plan(b, t))
    BY <1>4, InReportIf, ValidationSteps, RollbackSteps
  <2> QED
    BY <2>1 DEF Planned, validated_by, rolled_back_by, in_both_plans
<1>5. CASE row \in ReportIf("mpls_ldp_interfaces", any_change(compare_mpls_ldp(b, t).interfaces))
  <2>1. row[1] = "mpls_ldp_interfaces" /\ "mpls_ldp" \in what(validation_plan(b, t))
        /\ "mpls_ldp_interface_changed" \in what(rollback_plan(b, t))
    BY <1>5, InReportIf, ValidationSteps, RollbackSteps
  <2> QED
    BY <2>1 DEF Planned, validated_by, rolled_back_by, in_both_plans
<1>6. CASE row \in ReportIf("mpls_ldp_remote_peers", any_change(compare_mpls_ldp(b, t).remote_peers))
  <2>1. row[1] = "mpls_ldp_remote_peers" /\ "mpls_ldp" \in what(validation_plan(b, t))
        /\ "mpls_ldp_remote_peer_changed" \in what(rollback_plan(b, t))
    BY <1>6, InReportIf, ValidationSteps, RollbackSteps
  <2> QED
    BY <2>1 DEF Planned, validated_by, rolled_back_by, in_both_plans
<1> QED
  BY <1>1, <1>2, <1>3, <1>4, <1>5, <1>6

\* build_switching_impacts: VLANs, ports, Eth-Trunks and STP.
LEMMA SwitchingImpacts ==
    ASSUME NEW b, NEW t, NEW row \in build_switching_impacts(b, t)
    PROVE  Planned(b, t, row[1])
<1> DEFINE vlans == compare_vlans(b, t)
           section == build_switching_section(b, t)
<1>1. \/ row \in Report("vlan_added", vlans.added)
      \/ row \in Report("vlan_removed", vlans.removed)
      \/ row \in Report("vlan_changed", vlans.changed)
      \/ row \in Report("allowed_vlans", section.allowed_vlans)
      \/ row \in Report("access_vlan", section.access_vlan)
      \/ row \in Report("pvid", section.pvid)
      \/ row \in Report("eth_trunk_members", section.eth_trunk_members)
      \/ row \in ReportIf("stp", stp_at_risk(b, t))
      \/ row \in ReportIf("stp_enabled", ~stp_at_risk(b, t) /\ compare_stp(b, t).enabled_changed)
  BY DEF build_switching_impacts
<1>2. CASE row \in Report("vlan_added", vlans.added)
  <2>1. row[1] = "vlan_added" /\ "vlan" \in what(validation_plan(b, t))
        /\ "vlan_added" \in what(rollback_plan(b, t))
    BY <1>2, InReport, ValidationSteps, RollbackSteps DEF any_change
  <2> QED
    BY <2>1 DEF Planned, validated_by, rolled_back_by, in_both_plans
<1>3. CASE row \in Report("vlan_removed", vlans.removed)
  <2>1. row[1] = "vlan_removed" /\ "vlan" \in what(validation_plan(b, t))
        /\ "vlan_removed" \in what(rollback_plan(b, t))
    BY <1>3, InReport, ValidationSteps, RollbackSteps DEF any_change
  <2> QED
    BY <2>1 DEF Planned, validated_by, rolled_back_by, in_both_plans
<1>4. CASE row \in Report("vlan_changed", vlans.changed)
  <2>1. row[1] = "vlan_changed" /\ "vlan" \in what(validation_plan(b, t))
    BY <1>4, InReport, ValidationSteps, RollbackSteps DEF any_change
  <2> QED
    BY <2>1 DEF Planned, validated_by, rolled_back_by, in_both_plans
<1>5. CASE row \in Report("allowed_vlans", section.allowed_vlans)
  <2>1. row[1] = "allowed_vlans"
        /\ "allowed_vlans_changed" \in what(rollback_plan(b, t))
    BY <1>5, InReport, RollbackSteps
  <2> QED
    BY <2>1 DEF Planned, validated_by, rolled_back_by, in_both_plans
<1>6. CASE row \in Report("access_vlan", section.access_vlan)
  <2>1. row[1] = "access_vlan"
        /\ "access_vlan_changed" \in what(rollback_plan(b, t))
    BY <1>6, InReport, RollbackSteps
  <2> QED
    BY <2>1 DEF Planned, validated_by, rolled_back_by, in_both_plans
<1>7. CASE row \in Report("pvid", section.pvid)
  <2>1. row[1] = "pvid"
        /\ "pvid_changed" \in what(rollback_plan(b, t))
    BY <1>7, InReport, RollbackSteps
  <2> QED
    BY <2>1 DEF Planned, validated_by, rolled_back_by, in_both_plans
<1>8. CASE row \in Report("eth_trunk_members", section.eth_trunk_members)
  <2>1. row[1] = "eth_trunk_members" /\ "eth_trunk" \in what(validation_plan(b, t))
        /\ "eth_trunk_members_changed" \in what(rollback_plan(b, t))
    BY <1>8, InReport, ValidationSteps, RollbackSteps
  <2> QED
    BY <2>1 DEF Planned, validated_by, rolled_back_by, in_both_plans
<1>9. CASE row \in ReportIf("stp", stp_at_risk(b, t))
  <2>1. row[1] = "stp" /\ "stp" \in what(validation_plan(b, t))
        /\ "stp_changed" \in what(rollback_plan(b, t))
    BY <1>9, InReportIf, ValidationSteps, RollbackSteps
  <2> QED
    BY <2>1 DEF Planned, validated_by, rolled_back_by, in_both_plans
<1>10. CASE row \in ReportIf("stp_enabled", ~stp_at_risk(b, t) /\ compare_stp(b, t).enabled_changed)
  <2>1. row[1] = "stp_enabled" /\ "stp" \in what(validation_plan(b, t))
    BY <1>10, InReportIf, ValidationSteps
  <2> QED
    BY <2>1 DEF Planned, validated_by, rolled_back_by, in_both_plans
<1> QED
  BY <1>1, <1>2, <1>3, <1>4, <1>5, <1>6, <1>7, <1>8, <1>9, <1>10

\* build_policy_impacts: nodes, prefix lists, filters and the policies of peers.
LEMMA PolicyImpacts ==
    ASSUME NEW b, NEW t, NEW row \in build_policy_impacts(b, t)
    PROVE  Planned(b, t, row[1])
<1> DEFINE nodes == compare_route_policies(b, t)
<1>1. \/ row \in Report("route_policy_added", nodes.added)
      \/ row \in Report("route_policy_removed", nodes.removed)
      \/ row \in ReportIf("prefix_lists", Names(b, "prefix_list") # Names(t, "prefix_list"))
      \/ row \in Report("peer_policy", policy_replaced(b, t))
      \/ row \in ReportIf("route_policy_changed", nodes.changed # {})
      \/ row \in ReportIf("as_path_filters", any_change(compare_as_path_filters(b, t)))
      \/ row \in ReportIf("community_filters", any_change(compare_community_filters(b, t)))
  BY DEF build_policy_impacts
<1>2. CASE row \in Report("route_policy_added", nodes.added)
  <2>1. row[1] = "route_policy_added" /\ "policy" \in what(validation_plan(b, t))
        /\ "policy_changed" \in what(rollback_plan(b, t))
    <3>1. has_policy_changes(b, t)
      BY <1>2, InReport DEF has_policy_changes, kinds_of_policy, compare_route_policies, any_change
    <3> QED
      BY <1>2, <3>1, InReport, ValidationSteps, RollbackSteps
  <2> QED
    BY <2>1 DEF Planned, validated_by, rolled_back_by, in_both_plans
<1>3. CASE row \in Report("route_policy_removed", nodes.removed)
  <2>1. row[1] = "route_policy_removed" /\ "policy" \in what(validation_plan(b, t))
        /\ "policy_changed" \in what(rollback_plan(b, t))
    <3>1. has_policy_changes(b, t)
      BY <1>3, InReport DEF has_policy_changes, kinds_of_policy, compare_route_policies, any_change
    <3> QED
      BY <1>3, <3>1, InReport, ValidationSteps, RollbackSteps
  <2> QED
    BY <2>1 DEF Planned, validated_by, rolled_back_by, in_both_plans
<1>4. CASE row \in ReportIf("prefix_lists", Names(b, "prefix_list") # Names(t, "prefix_list"))
  <2>1. row[1] = "prefix_lists" /\ "policy" \in what(validation_plan(b, t))
        /\ "policy_changed" \in what(rollback_plan(b, t))
    <3>1. has_policy_changes(b, t)
      BY <1>4, InReportIf, NamesDiffer DEF has_policy_changes, kinds_of_policy
    <3> QED
      BY <1>4, <3>1, InReportIf, ValidationSteps, RollbackSteps
  <2> QED
    BY <2>1 DEF Planned, validated_by, rolled_back_by, in_both_plans
<1>5. CASE row \in Report("peer_policy", policy_replaced(b, t))
  <2>1. row[1] = "peer_policy" /\ "bgp" \in what(validation_plan(b, t))
        /\ "bgp_peer_changed" \in what(rollback_plan(b, t))
    <3>1. compare_bgp(b, t).peers.changed # {}
      BY <1>5, InReport, PolicyReplaced
    <3> QED
      BY <1>5, <3>1, InReport, ValidationSteps, RollbackSteps
  <2> QED
    BY <2>1 DEF Planned, validated_by, rolled_back_by, in_both_plans
<1>6. CASE row \in ReportIf("route_policy_changed", nodes.changed # {})
  BY <1>6, InReportIf, NoStep DEF validated_by, rolled_back_by, in_both_plans
<1>7. CASE row \in ReportIf("as_path_filters", any_change(compare_as_path_filters(b, t)))
  BY <1>7, InReportIf, NoStep DEF validated_by, rolled_back_by, in_both_plans
<1>8. CASE row \in ReportIf("community_filters", any_change(compare_community_filters(b, t)))
  BY <1>8, InReportIf, NoStep DEF validated_by, rolled_back_by, in_both_plans
<1> QED
  BY <1>1, <1>2, <1>3, <1>4, <1>5, <1>6, <1>7, <1>8

\* build_impacts: interfaces, routes, peers, circuits and issues.
LEMMA BaseImpacts ==
    ASSUME NEW b, NEW t, NEW row \in build_impacts(b, t)
    PROVE  Planned(b, t, row[1])
<1> DEFINE interfaces == compare_interfaces(b, t)
           fields == UNION {{<<i, f>> : f \in detect_iface_changes(b, t, i)} :
                              i \in interfaces.changed}
           routes == compare_static_routes(b, t)
           peers == compare_bgp(b, t).peers
           circuit_diff == compare_circuits(b, t)
<1>1. \/ row \in Report("interface_added", interfaces.added)
      \/ row \in Report("interface_changed", fields)
      \/ row \in Report("route_added", routes.added)
      \/ row \in Report("peer_added", peers.added)
      \/ row \in ReportIf("issues", compare_issues(b, t).added # {})
      \/ row \in Report("interface_removed", interfaces.removed)
      \/ row \in Report("route_removed", routes.removed)
      \/ row \in Report("peer_removed", peers.removed)
      \/ row \in ReportIf("local_as", compare_bgp(b, t).local_as_changed)
      \/ row \in Report("circuit_added", circuit_diff.added)
      \/ row \in Report("circuit_removed", circuit_diff.removed)
  BY DEF build_impacts
<1>2. CASE row \in Report("interface_added", interfaces.added)
  <2>1. row[1] = "interface_added" /\ "interface" \in what(validation_plan(b, t))
        /\ "interface_added" \in what(rollback_plan(b, t))
    BY <1>2, InReport, ValidationSteps, RollbackSteps
  <2> QED
    BY <2>1 DEF Planned, validated_by, rolled_back_by, in_both_plans
<1>3. CASE row \in Report("interface_changed", fields)
  <2>1. row[1] = "interface_changed" /\ "interface" \in what(validation_plan(b, t))
    BY <1>3, InReport, ValidationSteps
  <2> QED
    BY <2>1 DEF Planned, validated_by, rolled_back_by, in_both_plans
<1>4. CASE row \in Report("route_added", routes.added)
  <2>1. row[1] = "route_added" /\ "routing" \in what(validation_plan(b, t))
        /\ "static_route_added" \in what(rollback_plan(b, t))
    BY <1>4, InReport, ValidationSteps, RollbackSteps
  <2> QED
    BY <2>1 DEF Planned, validated_by, rolled_back_by, in_both_plans
<1>5. CASE row \in Report("peer_added", peers.added)
  <2>1. row[1] = "peer_added" /\ "bgp" \in what(validation_plan(b, t))
        /\ "bgp_peer_added" \in what(rollback_plan(b, t))
    BY <1>5, InReport, ValidationSteps, RollbackSteps
  <2> QED
    BY <2>1 DEF Planned, validated_by, rolled_back_by, in_both_plans
<1>6. CASE row \in ReportIf("issues", compare_issues(b, t).added # {})
  <2>1. row[1] = "issues" /\ "issues" \in what(validation_plan(b, t))
    BY <1>6, InReportIf, ValidationSteps
  <2> QED
    BY <2>1 DEF Planned, validated_by, rolled_back_by, in_both_plans
<1>7. CASE row \in Report("interface_removed", interfaces.removed)
  BY <1>7, InReport, NoStep DEF validated_by, rolled_back_by, in_both_plans
<1>8. CASE row \in Report("route_removed", routes.removed)
  BY <1>8, InReport, NoStep DEF validated_by, rolled_back_by, in_both_plans
<1>9. CASE row \in Report("peer_removed", peers.removed)
  BY <1>9, InReport, NoStep DEF validated_by, rolled_back_by, in_both_plans
<1>10. CASE row \in ReportIf("local_as", compare_bgp(b, t).local_as_changed)
  BY <1>10, InReportIf, NoStep DEF validated_by, rolled_back_by, in_both_plans
<1>11. CASE row \in Report("circuit_added", circuit_diff.added)
  BY <1>11, InReport, NoStep DEF validated_by, rolled_back_by, in_both_plans
<1>12. CASE row \in Report("circuit_removed", circuit_diff.removed)
  BY <1>12, InReport, NoStep DEF validated_by, rolled_back_by, in_both_plans
<1> QED
  BY <1>1, <1>2, <1>3, <1>4, <1>5, <1>6, <1>7, <1>8, <1>9, <1>10, <1>11, <1>12

\* build_service_impacts.
LEMMA ServiceImpacts ==
    ASSUME NEW b, NEW t, NEW row \in build_service_impacts(b, t)
    PROVE  Planned(b, t, row[1])
<1> DEFINE service_diff == compare_services(b, t)
<1>1. \/ row \in Report("service_removed", of_types(service_diff.removed, services_with_impact \cup {"bng"}))
      \/ row \in Report("service_added", of_types(service_diff.added, services_with_impact))
  BY DEF build_service_impacts
<1>2. CASE row \in Report("service_removed", of_types(service_diff.removed, services_with_impact \cup {"bng"}))
  BY <1>2, InReport, NoStep DEF validated_by, rolled_back_by, in_both_plans
<1>3. CASE row \in Report("service_added", of_types(service_diff.added, services_with_impact))
  BY <1>3, InReport, NoStep DEF validated_by, rolled_back_by, in_both_plans
<1> QED
  BY <1>1, <1>2, <1>3

\* build_vrf_impacts: VPN instances have no step.
LEMMA VrfImpacts ==
    ASSUME NEW b, NEW t, NEW row \in build_vrf_impacts(b, t)
    PROVE  Planned(b, t, row[1])
<1> DEFINE instances == compare_vpn_instances(b, t)
<1>1. \/ row \in Report("vpn_instance_added", instances.added)
      \/ row \in Report("vpn_instance_removed", instances.removed)
  BY DEF build_vrf_impacts
<1>2. CASE row \in Report("vpn_instance_added", instances.added)
  BY <1>2, InReport, NoStep DEF validated_by, rolled_back_by, in_both_plans
<1>3. CASE row \in Report("vpn_instance_removed", instances.removed)
  BY <1>3, InReport, NoStep DEF validated_by, rolled_back_by, in_both_plans
<1> QED
  BY <1>1, <1>2, <1>3

\* build_qos_impacts: QoS has no step.
LEMMA QosImpacts ==
    ASSUME NEW b, NEW t, NEW row \in build_qos_impacts(b, t)
    PROVE  Planned(b, t, row[1])
<1> DEFINE qos == compare_qos(b, t)
<1>1. \/ row \in Report("traffic_policy", qos.policies)
      \/ row \in Report("traffic_classifier", qos.classifiers)
      \/ row \in Report("car", qos.car)
      \/ row \in Report("traffic_behavior", qos.behaviors)
      \/ row \in ReportIf("traffic_policy_bindings", qos.bindings # {})
  BY DEF build_qos_impacts
<1>2. CASE row \in Report("traffic_policy", qos.policies)
  BY <1>2, InReport, NoStep DEF validated_by, rolled_back_by, in_both_plans
<1>3. CASE row \in Report("traffic_classifier", qos.classifiers)
  BY <1>3, InReport, NoStep DEF validated_by, rolled_back_by, in_both_plans
<1>4. CASE row \in Report("car", qos.car)
  BY <1>4, InReport, NoStep DEF validated_by, rolled_back_by, in_both_plans
<1>5. CASE row \in Report("traffic_behavior", qos.behaviors)
  BY <1>5, InReport, NoStep DEF validated_by, rolled_back_by, in_both_plans
<1>6. CASE row \in ReportIf("traffic_policy_bindings", qos.bindings # {})
  BY <1>6, InReportIf, NoStep DEF validated_by, rolled_back_by, in_both_plans
<1> QED
  BY <1>1, <1>2, <1>3, <1>4, <1>5, <1>6

\* build_nat_impacts: NAT has no step.
LEMMA NatImpacts ==
    ASSUME NEW b, NEW t, NEW row \in build_nat_impacts(b, t)
    PROVE  Planned(b, t, row[1])
<1> DEFINE nat == compare_nat(b, t)
<1>1. \/ row \in ReportIf("nat_address_group", nat.address_groups.changed # {})
      \/ row \in ReportIf("nat_outbound", any_change(nat.outbound_rules))
      \/ row \in ReportIf("nat_static", any_change(nat.static_rules))
      \/ row \in ReportIf("nat_server", any_change(nat.server_rules))
      \/ row \in ReportIf("nat_alg", nat.alg_changed)
  BY DEF build_nat_impacts
<1>2. CASE row \in ReportIf("nat_address_group", nat.address_groups.changed # {})
  BY <1>2, InReportIf, NoStep DEF validated_by, rolled_back_by, in_both_plans
<1>3. CASE row \in ReportIf("nat_outbound", any_change(nat.outbound_rules))
  BY <1>3, InReportIf, NoStep DEF validated_by, rolled_back_by, in_both_plans
<1>4. CASE row \in ReportIf("nat_static", any_change(nat.static_rules))
  BY <1>4, InReportIf, NoStep DEF validated_by, rolled_back_by, in_both_plans
<1>5. CASE row \in ReportIf("nat_server", any_change(nat.server_rules))
  BY <1>5, InReportIf, NoStep DEF validated_by, rolled_back_by, in_both_plans
<1>6. CASE row \in ReportIf("nat_alg", nat.alg_changed)
  BY <1>6, InReportIf, NoStep DEF validated_by, rolled_back_by, in_both_plans
<1> QED
  BY <1>1, <1>2, <1>3, <1>4, <1>5, <1>6

\* vendor_impacts.
LEMMA VendorImpacts ==
    ASSUME NEW b, NEW t, NEW row \in vendor_impacts(b, t)
    PROVE  Planned(b, t, row[1])
<1>1. \/ row \in ReportIf("huawei_advanced", any_change(compare_huawei_advanced(b, t)))
      \/ row \in ReportIf("zte_olt", sections_changed(compare_zte_olt(b, t)) # {})
  BY DEF vendor_impacts
<1>2. CASE row \in ReportIf("huawei_advanced", any_change(compare_huawei_advanced(b, t)))
  <2>1. row[1] = "huawei_advanced" /\ "huawei_advanced" \in what(validation_plan(b, t))
        /\ "huawei_advanced" \in what(rollback_plan(b, t))
    BY <1>2, InReportIf, CommonSteps, CommonToBoth
  <2> QED
    BY <2>1 DEF Planned, validated_by, rolled_back_by, in_both_plans
<1>3. CASE row \in ReportIf("zte_olt", sections_changed(compare_zte_olt(b, t)) # {})
  <2>1. row[1] = "zte_olt" /\ "zte_olt" \in what(validation_plan(b, t))
        /\ "zte_olt" \in what(rollback_plan(b, t))
    BY <1>3, InReportIf, CommonSteps, CommonToBoth
  <2> QED
    BY <2>1 DEF Planned, validated_by, rolled_back_by, in_both_plans
<1> QED
  BY <1>1, <1>2, <1>3

\* build_ipv6_impacts: a section that is reported changed.
LEMMA Ipv6Impacts ==
    ASSUME NEW b, NEW t, NEW row \in build_ipv6_impacts(b, t)
    PROVE  Planned(b, t, row[1])
<1>1. row[1] = "ipv6" /\ sections_changed(compare_ipv6(b, t)) # {}
  BY InReport DEF build_ipv6_impacts
<1> QED
  BY <1>1, CommonSteps, CommonToBoth DEF Planned, validated_by, rolled_back_by, in_both_plans

\* build_multicast_impacts: each means that a section changed, and the plans
\* have one step for all.
LEMMA MulticastImpacts ==
    ASSUME NEW b, NEW t, NEW row \in build_multicast_impacts(b, t)
    PROVE  Planned(b, t, row[1])
<1> DEFINE m == compare_multicast(b, t)
           tables == multicast_added \cup multicast_removed \cup multicast_changed
<1>1. {"global", "pim", "igmp", "igmp_snooping", "mld", "vpn_instances"} \subseteq DOMAIN m
  BY DEF compare_multicast
<1>2. \/ row \in Report("multicast", m.global.changed)
      \/ row \in ReportIf("pim_global", <<"pim", "">> \in m.pim.changed)
      \/ \E s \in multicast_added : row \in Report(s[2], m[s[1]].added)
      \/ \E s \in multicast_removed : row \in Report(s[2], m[s[1]].removed)
      \/ \E s \in multicast_changed : row \in Report(s[2], m[s[1]].changed)
  BY DEF build_multicast_impacts
<1> HIDE DEF m
<1>3. \A s \in tables : s[1] \in {"global", "pim", "igmp", "igmp_snooping", "mld", "vpn_instances"}
  BY DEF multicast_added, multicast_removed, multicast_changed
<1>4. ASSUME row[1] \in {"multicast", "pim_global"} \cup {s[2] : s \in tables},
             NEW k \in DOMAIN m, any_change(m[k])
      PROVE  Planned(b, t, row[1])
  <2>1. "multicast" \in what(validation_plan(b, t)) /\ "multicast" \in what(rollback_plan(b, t))
    BY <1>4, SectionsChange, CommonSteps, CommonToBoth DEF m
  <2>2. \A s \in validated_by \cup rolled_back_by : s[1] # row[1]
    BY <1>4 DEF validated_by, rolled_back_by, multicast_added, multicast_removed, multicast_changed
  <2>3. \A s \in in_both_plans : s[1] = row[1] => s[2] = "multicast"
    BY <1>4 DEF in_both_plans, multicast_added, multicast_removed, multicast_changed
  <2> QED
    BY <2>1, <2>2, <2>3 DEF Planned
<1>5. CASE row \in Report("multicast", m.global.changed)
  BY <1>1, <1>4, <1>5, InReport DEF any_change
<1>6. CASE row \in ReportIf("pim_global", <<"pim", "">> \in m.pim.changed)
  <2>1. row[1] = "pim_global" /\ m.pim.changed # {}
    BY <1>6, InReportIf
  <2> QED
    BY <1>1, <1>4, <2>1 DEF any_change
<1>7. CASE \E s \in multicast_added : row \in Report(s[2], m[s[1]].added)
  <2>1. PICK s \in multicast_added : row \in Report(s[2], m[s[1]].added)
    BY <1>7
  <2>2. row[1] = s[2] /\ any_change(m[s[1]])
    BY <2>1, InReport DEF any_change
  <2> QED
    BY <1>1, <1>3, <1>4, <2>2
<1>8. CASE \E s \in multicast_removed : row \in Report(s[2], m[s[1]].removed)
  <2>1. PICK s \in multicast_removed : row \in Report(s[2], m[s[1]].removed)
    BY <1>8
  <2>2. row[1] = s[2] /\ any_change(m[s[1]])
    BY <2>1, InReport DEF any_change
  <2> QED
    BY <1>1, <1>3, <1>4, <2>2
<1>9. CASE \E s \in multicast_changed : row \in Report(s[2], m[s[1]].changed)
  <2>1. PICK s \in multicast_changed : row \in Report(s[2], m[s[1]].changed)
    BY <1>9
  <2>2. row[1] = s[2] /\ any_change(m[s[1]])
    BY <2>1, InReport DEF any_change
  <2> QED
    BY <1>1, <1>3, <1>4, <2>2
<1> QED
  BY <1>2, <1>5, <1>6, <1>7, <1>8, <1>9

\* build_bng_impacts: subscriber access, PPPoE and high availability.
LEMMA BngImpacts ==
    ASSUME NEW b, NEW t, NEW row \in build_bng_impacts(b, t)
    PROVE  Planned(b, t, row[1])
<1> DEFINE bng == compare_bng(b, t)
           ha == compare_ha(b, t)
           bas == bng.bas_interfaces
           template == bng.virtual_templates
           pppoe == bng.pppoe_interfaces
           fields == {"authentication_servers", "accounting_servers"}
           servers == {c[2] : c \in ChangedIn(bng.radius_groups, radius_changes, b, t, fields)}
           inBoth(step) == step \in what(validation_plan(b, t)) /\ step \in what(rollback_plan(b, t))
<1>1. \/ row \in ReportIf("bas_interfaces", bas.added \cup bas.removed # {})
      \/ row \in ReportIf("domains", bng.subscriber_domains.changed # {})
      \/ row \in Report("radius", servers)
      \/ row \in ReportIf("virtual_templates", any_change(template))
      \/ row \in ReportIf("pppoe_interfaces", any_change(pppoe))
      \/ row \in ReportIf("bfd", any_change(ha.bfd))
      \/ row \in ReportIf("graceful_restart", \E p \in ha.bgp_ha.changed :
                                               changed_fields(b, t, p, {"graceful_restart"}) # {})
      \/ row \in ReportIf("nsr", ha.nsr.changed # {})
      \/ row \in ReportIf("ldp_graceful_restart", "ldp" \in ha.isis_ha.changed)
      \/ row \in Report("bas_changed", ChangedIn(bas, bas_changes, b, t,
                 {"bas.default_domain", "bas.authentication_method", "user_vlan"}))
      \/ row \in ReportIf("ip_pools", bng.ip_pools.changed # {})
      \/ row \in Report("ppp_authentication", ChangedIn(template, template_changes, b, t, {"ppp_authentication_modes"}))
      \/ row \in Report("pppoe_changed", ChangedIn(pppoe, pppoe_changes, b, t, {"pppoe.max_sessions", "user_vlan"}))
  BY DEF build_bng_impacts
<1>2. {"subscriber_domains", "radius_groups", "bas_interfaces"} \subseteq DOMAIN bng
  BY DEF compare_bng
<1>3. {"bfd", "bgp_ha", "isis_ha", "nsr"} \subseteq DOMAIN ha
  BY DEF compare_ha
<1>4. template = compare_pppoe_virtual_templates(b, t) /\ pppoe = compare_pppoe_interfaces(b, t)
  BY DEF compare_bng
<1>5. servers # {} => bng.radius_groups.changed # {}
  BY DEF ChangedIn
<1> HIDE DEF bng, ha, servers
<1>6. ASSUME NEW s \in DOMAIN bng, any_change(bng[s]) PROVE inBoth("bng")
  <2>1. sections_changed(compare_bng(b, t)) # {}
    BY <1>6, SectionsChange DEF bng
  <2> QED
    BY <2>1, CommonSteps, CommonToBoth
<1>7. ASSUME NEW s \in DOMAIN ha, any_change(ha[s]) PROVE inBoth("ha")
  <2>1. sections_changed(compare_ha(b, t)) # {}
    BY <1>7, SectionsChange DEF ha
  <2> QED
    BY <2>1, CommonSteps, CommonToBoth
<1>8. any_change(template) \/ any_change(pppoe) => inBoth("pppoe")
  BY <1>4, CommonSteps, CommonToBoth
<1>9. CASE row \in ReportIf("bas_interfaces", bas.added \cup bas.removed # {})
  <2>1. row[1] = "bas_interfaces" /\ inBoth("bng")
    BY <1>9, <1>2, <1>5, <1>6, InReportIf DEF any_change
  <2> QED
    BY <2>1 DEF Planned, validated_by, rolled_back_by, in_both_plans
<1>10. CASE row \in ReportIf("domains", bng.subscriber_domains.changed # {})
  <2>1. row[1] = "domains" /\ inBoth("bng")
    BY <1>10, <1>2, <1>5, <1>6, InReportIf DEF any_change
  <2> QED
    BY <2>1 DEF Planned, validated_by, rolled_back_by, in_both_plans
<1>11. CASE row \in Report("radius", servers)
  <2>1. row[1] = "radius" /\ inBoth("bng")
    BY <1>11, <1>2, <1>5, <1>6, InReport DEF any_change
  <2> QED
    BY <2>1 DEF Planned, validated_by, rolled_back_by, in_both_plans
<1>12. CASE row \in ReportIf("virtual_templates", any_change(template))
  <2>1. row[1] = "virtual_templates" /\ inBoth("pppoe")
    BY <1>12, <1>8, InReportIf DEF any_change
  <2> QED
    BY <2>1 DEF Planned, validated_by, rolled_back_by, in_both_plans
<1>13. CASE row \in ReportIf("pppoe_interfaces", any_change(pppoe))
  <2>1. row[1] = "pppoe_interfaces" /\ inBoth("pppoe")
    BY <1>13, <1>8, InReportIf DEF any_change
  <2> QED
    BY <2>1 DEF Planned, validated_by, rolled_back_by, in_both_plans
<1>14. CASE row \in ReportIf("bfd", any_change(ha.bfd))
  <2>1. row[1] = "bfd" /\ inBoth("ha")
    BY <1>14, <1>3, <1>7, InReportIf DEF any_change
  <2> QED
    BY <2>1 DEF Planned, validated_by, rolled_back_by, in_both_plans
<1>15. CASE row \in ReportIf("graceful_restart", \E p \in ha.bgp_ha.changed :
                                               changed_fields(b, t, p, {"graceful_restart"}) # {})
  <2>1. row[1] = "graceful_restart" /\ inBoth("ha")
    BY <1>15, <1>3, <1>7, InReportIf DEF any_change
  <2> QED
    BY <2>1 DEF Planned, validated_by, rolled_back_by, in_both_plans
<1>16. CASE row \in ReportIf("nsr", ha.nsr.changed # {})
  <2>1. row[1] = "nsr" /\ inBoth("ha")
    BY <1>16, <1>3, <1>7, InReportIf DEF any_change
  <2> QED
    BY <2>1 DEF Planned, validated_by, rolled_back_by, in_both_plans
<1>17. CASE row \in ReportIf("ldp_graceful_restart", "ldp" \in ha.isis_ha.changed)
  <2>1. row[1] = "ldp_graceful_restart" /\ ha.isis_ha.changed # {}
    BY <1>17, InReportIf
  <2>2. inBoth("ha")
    BY <1>3, <1>7, <2>1 DEF any_change
  <2> QED
    BY <2>1, <2>2 DEF Planned, validated_by, rolled_back_by, in_both_plans
<1>18. CASE row \in Report("bas_changed", ChangedIn(bas, bas_changes, b, t,
                 {"bas.default_domain", "bas.authentication_method", "user_vlan"}))
  BY <1>18, InReport, NoStep DEF validated_by, rolled_back_by, in_both_plans
<1>19. CASE row \in ReportIf("ip_pools", bng.ip_pools.changed # {})
  BY <1>19, InReportIf, NoStep DEF validated_by, rolled_back_by, in_both_plans
<1>20. CASE row \in Report("ppp_authentication", ChangedIn(template, template_changes, b, t, {"ppp_authentication_modes"}))
  BY <1>20, InReport, NoStep DEF validated_by, rolled_back_by, in_both_plans
<1>21. CASE row \in Report("pppoe_changed", ChangedIn(pppoe, pppoe_changes, b, t, {"pppoe.max_sessions", "user_vlan"}))
  BY <1>21, InReport, NoStep DEF validated_by, rolled_back_by, in_both_plans
<1> QED
  BY <1>1, <1>9, <1>10, <1>11, <1>12, <1>13, <1>14, <1>15, <1>16, <1>17, <1>18, <1>19, <1>20, <1>21

-----------------------------------------------------------------------------
(* Plans                                                                    *)

\* Every impact of every list has its steps in the plans.
LEMMA ImpactsArePlanned ==
    ASSUME NEW b, NEW t, NEW row \in impacts(b, t)
    PROVE  Planned(b, t, row[1])
  BY BaseImpacts, ServiceImpacts, SwitchingImpacts, PolicyImpacts, CoreImpacts, VrfImpacts,
     QosImpacts, NatImpacts, Ipv6Impacts, MulticastImpacts, BngImpacts, VendorImpacts
     DEF impacts

\* An impact that a comparison reports has its step in the validation plan and
\* in the rollback plan: the twelve functions that list impacts and the eleven
\* that list steps look at the same differences (comparison.py), for any
\* two configurations.
THEOREM Plans == Spec => []PlansFollowImpacts
<1>1. \A s : s[1] \in what(impacts(previous, current)) => Planned(previous, current, s[1])
  BY ImpactsArePlanned DEF what
<1>2. PlansFollowImpacts
  BY <1>1 DEF PlansFollowImpacts, Planned
<1> QED
  BY <1>2, PTL
-----------------------------------------------------------------------------
(* New issues                                                               *)

\* The issue that hides a new one is of the same check, and agrees with it in
\* what the key of this check tells.
LEMMA SameKey ==
    ASSUME NEW b, NEW t, NEW row, NEW other, issue_key(t, row) = issue_key(b, other),
           row # other
    PROVE  /\ other[1] = row[1] /\ row[1] \notin keyed_by_subject
           /\ row[1] \in keyed_by_owner => other[2][1] = row[2][1]
           /\ row[1] \in keyed_by_next_hop =>
                Values(b, other[2], "next_hop") = Values(t, row[2], "next_hop")
<1> DEFINE told(c, r) == IF r[1] \in keyed_by_owner THEN r[2][1]
                         ELSE IF r[1] \in keyed_by_next_hop THEN Values(c, r[2], "next_hop")
                         ELSE ""
<1>1. \A c, r : r[1] \notin keyed_by_subject => issue_key(c, r) = <<r[1], told(c, r)>>
  BY DEF issue_key
<1>2. \A c, r : r[1] \in keyed_by_subject => issue_key(c, r) = r
  BY DEF issue_key
<1>3. \A code \in keyed_by_next_hop : code \notin keyed_by_owner
  BY DEF keyed_by_next_hop, keyed_by_owner
<1> HIDE DEF told
<1>4. \A c, r : issue_key(c, r)[1] = r[1]
  <2> TAKE c, r
  <2>1. CASE r[1] \in keyed_by_subject
    BY <2>1, <1>2
  <2>2. CASE r[1] \notin keyed_by_subject
    BY <2>2, <1>1
  <2> QED
    BY <2>1, <2>2
<1>5. other[1] = row[1]
  BY <1>4
<1>6. row[1] \notin keyed_by_subject
  BY <1>2, <1>5
<1>7. told(t, row) = told(b, other)
  BY <1>1, <1>5, <1>6
<1>8. row[1] \in keyed_by_owner => other[2][1] = row[2][1]
  BY <1>5, <1>7 DEF told
<1>9. row[1] \in keyed_by_next_hop =>
        Values(b, other[2], "next_hop") = Values(t, row[2], "next_hop")
  BY <1>3, <1>5, <1>7 DEF told
<1> QED
  BY <1>5, <1>6, <1>8, <1>9

\* An issue that a snapshot does not have and its comparison does not show as
\* new has the key of an issue the base has: one of the same check, and about
\* the same interface, peer or next hop where the key tells it.  The checks
\* whose key is the whole issue show every new one (_issue_key in
\* comparison.py against the metadata that issues.py writes).
THEOREM NewIssues == Spec => []NewIssuesAreShown
<1>1. ASSUME NEW row \in issues, row \notin detect_issues(previous),
             issue_key(current, row) \notin compare_issues(previous, current).added
      PROVE  /\ row[1] \notin keyed_by_subject
             /\ \E old \in detect_issues(previous) :
                  /\ old[1] = row[1]
                  /\ row[1] \in keyed_by_owner => old[2][1] = row[2][1]
                  /\ row[1] \in keyed_by_next_hop =>
                       Values(previous, old[2], "next_hop") = Values(current, row[2], "next_hop")
  <2>1. issue_key(current, row) \in issue_keys(current)
    BY <1>1 DEF issue_keys, issues
  <2>2. issue_key(current, row) \in issue_keys(previous)
    BY <1>1, <2>1 DEF compare_issues, Diff
  <2>3. PICK other \in detect_issues(previous) :
              issue_key(current, row) = issue_key(previous, other)
    BY <2>2 DEF issue_keys
  <2>4. /\ other[1] = row[1] /\ row[1] \notin keyed_by_subject
        /\ row[1] \in keyed_by_owner => other[2][1] = row[2][1]
        /\ row[1] \in keyed_by_next_hop =>
             Values(previous, other[2], "next_hop") = Values(current, row[2], "next_hop")
    BY <1>1, <2>3, SameKey
  <2> QED
    BY <2>4
<1>2. NewIssuesAreShown
  BY <1>1 DEF NewIssuesAreShown
<1> QED
  BY <1>2, PTL

-----------------------------------------------------------------------------
(* Lines and their blocks                                                   *)

\* Every line is written in a block that is there.
InBlocks(s, entered) == entered \subseteq s.lines /\ \A l \in entered : l.needs \subseteq facts_of(s, entered)

\* What a line needs is there from the start, or another line that was entered
\* adds it: no absence means a block.
LEMMA NeedsOfLines ==
    ASSUME NEW s \in Scenarios, NEW entered \in SUBSET s.lines, NEW l \in s.lines,
           l.needs \subseteq facts_of(s, entered),
           NEW f \in l.needs
    PROVE  f \in s.fixed \/ \E k \in entered : f \in k.adds
<1>1. \A m \in s.lines : f \notin m.otherwise
  BY ReviewAssumption
<1> QED
  BY <1>1 DEF facts_of

\* A line that is entered leaves every other in its block.
LEMMA EnteredInBlock ==
    ASSUME NEW s \in Scenarios, NEW entered, InBlocks(s, entered),
           NEW l \in s.lines, l.needs \subseteq facts_of(s, entered)
    PROVE  InBlocks(s, entered \cup {l})
<1>1. ASSUME NEW m \in entered \cup {l}, NEW f \in m.needs
      PROVE  f \in facts_of(s, entered \cup {l})
  <2>1. entered \in SUBSET s.lines /\ m \in s.lines /\ m.needs \subseteq facts_of(s, entered)
    BY <1>1 DEF InBlocks
  <2>2. f \in s.fixed \/ \E k \in entered : f \in k.adds
    BY <1>1, <2>1, NeedsOfLines
  <2> QED
    BY <2>2 DEF facts_of
<1> QED
  BY <1>1 DEF InBlocks

\* Undoing a line with all that is written in it leaves no line outside a
\* block.
LEMMA UndoneWithBlock ==
    ASSUME NEW s \in Scenarios, NEW entered, InBlocks(s, entered), NEW l \in entered
    PROVE  InBlocks(s, {m \in entered \ {l} : m.needs \cap l.adds = {}})
<1> DEFINE left == {m \in entered \ {l} : m.needs \cap l.adds = {}}
<1>1. ASSUME NEW m \in left, NEW f \in m.needs
      PROVE  f \in facts_of(s, left)
  <2>1. entered \in SUBSET s.lines /\ l \in s.lines /\ m \in s.lines
          /\ m.needs \subseteq facts_of(s, entered)
    BY <1>1 DEF InBlocks
  <2>2. f \in s.fixed \/ \E k \in entered : f \in k.adds
    BY <1>1, <2>1, NeedsOfLines
  <2>3. ASSUME NEW k \in entered, f \in k.adds PROVE k \in left
    <3>1. m.needs \cap k.adds # {} /\ m.needs \cap l.adds = {}
      BY <1>1, <2>3
    <3>2. k \in s.lines
      BY <2>1
    <3>3. k.needs \cap l.adds # {} => m.needs \cap l.adds # {}
      BY <2>1, <3>1, <3>2, ReviewAssumption
    <3> QED
      BY <3>1, <3>3
  <2> QED
    BY <2>2, <2>3 DEF facts_of
<1> QED
  BY <1>1 DEF InBlocks

\* A set of lines is at no distance from itself.
LEMMA NoDistance ==
    ASSUME NEW entered
    PROVE  distance(entered, entered) = 0
<1>1. (entered \ entered) \cup (entered \ entered) = {}
  OBVIOUS
<1> QED
  BY <1>1, FS_EmptySet DEF distance

\* Whatever is entered and undone, on the device and in its last snapshot every
\* line stays in a block that is there, and the two stay close: undoing a block
\* takes with it all that is written in it.
THEOREM TypeCorrect == Spec => []TypeOK
<1> USE ReviewAssumption
<1>1. TypeOK <=> /\ scenario \in Scenarios
                 /\ InBlocks(scenario, lines)
                 /\ InBlocks(scenario, base)
                 /\ distance(base, lines) <= MaxDistance
  BY DEF TypeOK, InBlocks, facts
<1>2. TypeOK' <=> /\ scenario' \in Scenarios
                  /\ InBlocks(scenario', lines')
                  /\ InBlocks(scenario', base')
                  /\ distance(base', lines') <= MaxDistance
  BY DEF TypeOK, InBlocks, facts
<1>3. Init => TypeOK
  <2> SUFFICES ASSUME Init PROVE TypeOK
    OBVIOUS
  <2>1. InBlocks(scenario, {})
    BY DEF InBlocks
  <2> QED
    BY <1>1, <2>1, NoDistance DEF Init
<1>4. TypeOK /\ [Next]_vars => TypeOK'
  <2> SUFFICES ASSUME TypeOK, [Next]_vars PROVE TypeOK'
    OBVIOUS
  <2>1. CASE EnterLine
    <3>1. PICK l \in scenario.lines \ lines :
            /\ l.needs \subseteq facts_of(scenario, lines)
            /\ distance(base, lines \cup {l}) <= MaxDistance
            /\ lines' = lines \cup {l}
            /\ UNCHANGED <<scenario, base>>
      BY <2>1 DEF EnterLine, facts
    <3>2. InBlocks(scenario, lines \cup {l})
      BY <1>1, <3>1, EnteredInBlock
    <3> QED
      BY <1>1, <1>2, <3>1, <3>2
  <2>2. CASE UndoLine
    <3>1. PICK l \in lines :
            LET left == {m \in lines \ {l} : m.needs \cap l.adds = {}}
            IN  /\ distance(base, left) <= MaxDistance
                /\ lines' = left
                /\ UNCHANGED <<scenario, base>>
      BY <2>2 DEF UndoLine
    <3>2. InBlocks(scenario, {m \in lines \ {l} : m.needs \cap l.adds = {}})
      BY <1>1, <3>1, UndoneWithBlock
    <3> QED
      BY <1>1, <1>2, <3>1, <3>2
  <2>3. CASE TakeSnapshot
    BY <1>1, <1>2, <2>3, NoDistance DEF TakeSnapshot
  <2>4. CASE UNCHANGED vars
    BY <1>1, <1>2, <2>4 DEF vars
  <2> QED
    BY <2>1, <2>2, <2>3, <2>4 DEF Next
<1> QED
  BY <1>3, <1>4, PTL DEF Spec

-----------------------------------------------------------------------------
(* Circuits of one configuration                                            *)

\* A field has values exactly when it is there, and a value is a fact.
LEMMA FieldValues ==
    ASSUME NEW c, NEW o, NEW field
    PROVE  Has(c, o, field) <=> Values(c, o, field) # {}
  BY DEF Has, Values

\* The row of a circuit has its type, its subject and its details.
LEMMA InCircuit ==
    ASSUME NEW type, NEW subject, NEW details, NEW confidence,
           NEW row \in Circuit(type, subject, details, confidence)
    PROVE  row[1] = type /\ row[2] = subject /\ row[3] = details
<1>1. row = <<type, subject, details, confidence>>
  BY DEF Circuit
<1>2. /\ <<type, subject, details, confidence>>[1] = type
      /\ <<type, subject, details, confidence>>[2] = subject
      /\ <<type, subject, details, confidence>>[3] = details
  OBVIOUS
<1> QED
  BY <1>1, <1>2

\* What a transit circuit says of its routes: the prefix of a specific one, or
\* nothing when there is none but a default route.
TransitDetail(c, i, detail) ==
    \/ \E r \in specific_routes(c, i) :
          detail = extract_routed_prefix(c, r, Values(c, i, "ip_address"))
    \/ specific_routes(c, i) = {} /\ default_routes(c, i) # {} /\ detail = {}

\* What a circuit stands for, by the detector that found it.
CircuitOf(c, row) ==
    \/ row[1] = "l3_transit" /\ row[2] \in find_transit_candidates(c)
         /\ TransitDetail(c, row[2], row[3][2])
    \/ row[1] = "vlan_transport" /\ row[2] \in Interfaces(c) /\ is_vlan_transport(c, row[2])
    \/ row[1] = "qinq_transport" /\ row[2] \in Interfaces(c) /\ is_qinq(c, row[2])
    \/ row[1] = "l2vpn_vsi" /\ row[2] \in Interfaces(c) /\ Has(c, row[2], "vsi_name")
    \/ row[1] = "l2vpn_vsi" /\ row[2] = NoInterface
    \/ row[1] = "olt" /\ row[2] \in Objects(c, "zte_onu")

\* Every circuit is of one of these kinds.
LEMMA CircuitsHaveGrounds ==
    ASSUME NEW c, NEW row \in detect_circuits(c)
    PROVE  CircuitOf(c, row)
<1>1. CASE row \in detect_l3_transit_circuits(c)
  <2>1. PICK i \in find_transit_candidates(c) :
          \/ \E r \in specific_routes(c, i) :
                row \in Circuit("l3_transit", i,
                          <<r, extract_routed_prefix(c, r, Values(c, i, "ip_address"))>>, 80)
          \/ /\ specific_routes(c, i) = {} /\ default_routes(c, i) # {}
             /\ row \in Circuit("l3_transit", i, <<"default", {}>>, 60)
    BY <1>1 DEF detect_l3_transit_circuits
  <2>2. row[1] = "l3_transit" /\ row[2] = i /\ TransitDetail(c, i, row[3][2])
    <3>1. ASSUME NEW r \in specific_routes(c, i),
                 row \in Circuit("l3_transit", i,
                          <<r, extract_routed_prefix(c, r, Values(c, i, "ip_address"))>>, 80)
          PROVE  row[1] = "l3_transit" /\ row[2] = i /\ TransitDetail(c, i, row[3][2])
      <4> DEFINE details == <<r, extract_routed_prefix(c, r, Values(c, i, "ip_address"))>>
      <4>1. row \in Circuit("l3_transit", i, details, 80)
        BY <3>1
      <4>2. details[2] = extract_routed_prefix(c, r, Values(c, i, "ip_address"))
        OBVIOUS
      <4> HIDE DEF details
      <4>3. row[1] = "l3_transit" /\ row[2] = i /\ row[3] = details
        BY <4>1, InCircuit
      <4> QED
        BY <4>2, <4>3 DEF TransitDetail
    <3>2. ASSUME specific_routes(c, i) = {}, default_routes(c, i) # {},
                 row \in Circuit("l3_transit", i, <<"default", {}>>, 60)
          PROVE  row[1] = "l3_transit" /\ row[2] = i /\ TransitDetail(c, i, row[3][2])
      <4> DEFINE details == <<"default", {}>>
      <4>1. row \in Circuit("l3_transit", i, details, 60)
        BY <3>2
      <4>2. details[2] = {}
        OBVIOUS
      <4> HIDE DEF details
      <4>3. row[1] = "l3_transit" /\ row[2] = i /\ row[3] = details
        BY <4>1, InCircuit
      <4> QED
        BY <3>2, <4>2, <4>3 DEF TransitDetail
    <3> QED
      BY <2>1, <3>1, <3>2
  <2> QED
    BY <2>2 DEF CircuitOf
<1>2. CASE row \in detect_vlan_transport_circuits(c)
  <2>1. PICK i \in Interfaces(c) :
          /\ is_vlan_transport(c, i)
          /\ \E confidence : row \in Circuit("vlan_transport", i, Values(c, i, "vlan_id"), confidence)
    BY <1>2 DEF detect_vlan_transport_circuits
  <2> QED
    BY <2>1, InCircuit DEF CircuitOf
<1>3. CASE row \in detect_qinq_transport_circuits(c)
  <2>1. PICK i \in Interfaces(c) :
          is_qinq(c, i) /\ \E details : row \in Circuit("qinq_transport", i, details, 85)
    BY <1>3 DEF detect_qinq_transport_circuits
  <2> QED
    BY <2>1, InCircuit DEF CircuitOf
<1>4. CASE row \in detect_l2vpn_vsi_circuits(c)
  <2>1. \/ \E i \in Interfaces(c) :
              Has(c, i, "vsi_name")
                /\ \E details, confidence : row \in Circuit("l2vpn_vsi", i, details, confidence)
        \/ \E v : row \in Circuit("l2vpn_vsi", NoInterface, {v}, 70)
    BY <1>4 DEF detect_l2vpn_vsi_circuits
  <2>2. \/ row[1] = "l2vpn_vsi" /\ row[2] = NoInterface
        \/ row[1] = "l2vpn_vsi" /\ row[2] \in Interfaces(c) /\ Has(c, row[2], "vsi_name")
    <3>1. ASSUME NEW v, row \in Circuit("l2vpn_vsi", NoInterface, {v}, 70)
          PROVE  row[1] = "l2vpn_vsi" /\ row[2] = NoInterface
      <4> DEFINE details == {v}
      <4>1. row \in Circuit("l2vpn_vsi", NoInterface, details, 70)
        BY <3>1
      <4> HIDE DEF details
      <4> QED
        BY <4>1, InCircuit
    <3>2. ASSUME NEW i \in Interfaces(c), Has(c, i, "vsi_name"), NEW details, NEW confidence,
                 row \in Circuit("l2vpn_vsi", i, details, confidence)
          PROVE  row[1] = "l2vpn_vsi" /\ row[2] \in Interfaces(c) /\ Has(c, row[2], "vsi_name")
      BY <3>2, InCircuit
    <3> QED
      BY <2>1, <3>1, <3>2
  <2> QED
    BY <2>2 DEF CircuitOf
<1>5. CASE row \in detect_olt_circuits(c)
  <2>1. PICK onu \in Objects(c, "zte_onu") :
          \E confidence : row \in Circuit("olt", onu, service_vlans(c, onu), confidence)
    BY <1>5 DEF detect_olt_circuits
  <2> QED
    BY <2>1, InCircuit DEF CircuitOf
<1> QED
  BY <1>1, <1>2, <1>3, <1>4, <1>5 DEF detect_circuits

\* Where there is a ground for a circuit, there is a circuit.
LEMMA GroundsHaveCircuits ==
    ASSUME NEW c, NEW i \in Interfaces(c)
    PROVE  /\ is_vlan_transport(c, i)
                => \E confidence :
                      <<"vlan_transport", i, Values(c, i, "vlan_id"), confidence>> \in detect_circuits(c)
           /\ is_qinq(c, i)
                => \E details : <<"qinq_transport", i, details, 85>> \in detect_circuits(c)
           /\ Has(c, i, "vsi_name")
                => \E details, confidence : <<"l2vpn_vsi", i, details, confidence>> \in detect_circuits(c)
<1>2. ASSUME is_vlan_transport(c, i)
      PROVE  \E confidence :
                <<"vlan_transport", i, Values(c, i, "vlan_id"), confidence>> \in detect_circuits(c)
  <2> DEFINE confidence == IF Has(c, i, "description") THEN 70 ELSE 50
  <2>1. <<"vlan_transport", i, Values(c, i, "vlan_id"), confidence>>
          \in detect_vlan_transport_circuits(c)
    BY <1>2 DEF detect_vlan_transport_circuits, Circuit
  <2> QED
    BY <2>1 DEF detect_circuits
<1>3. ASSUME is_qinq(c, i)
      PROVE  \E details : <<"qinq_transport", i, details, 85>> \in detect_circuits(c)
  <2> DEFINE tags == UNION {Values(c, i, field) : field \in {"vlan_id", "second_vlan_id", "pe_vid", "ce_vid"}}
  <2>1. <<"qinq_transport", i, tags, 85>> \in detect_qinq_transport_circuits(c)
    BY <1>3 DEF detect_qinq_transport_circuits, Circuit
  <2> QED
    BY <2>1 DEF detect_circuits
<1>4. ASSUME Has(c, i, "vsi_name")
      PROVE  \E details, confidence : <<"l2vpn_vsi", i, details, confidence>> \in detect_circuits(c)
  <2> DEFINE names == Values(c, i, "vsi_name")
             confidence == IF names \subseteq Names(c, "vsi") THEN 90 ELSE 75
  <2>1. <<"l2vpn_vsi", i, names, confidence>> \in detect_l2vpn_vsi_circuits(c)
    BY <1>4 DEF detect_l2vpn_vsi_circuits, Circuit
  <2> QED
    BY <2>1 DEF detect_circuits
<1> QED
  BY <1>2, <1>3, <1>4

\* The detectors divide the interfaces of a configuration with one encapsulation
\* each.
LEMMA OneKindOfCircuit ==
    ASSUME NEW c, one_encapsulation(c), NEW i \in Interfaces(c)
    PROVE  LET types == {row[1] : row \in {r \in detect_circuits(c) : r[2] = i}}
           IN  /\ (Has(c, i, "vlan_id") /\ ~Has(c, i, "ip_address")) => types # {}
               /\ "vlan_transport" \in types => types = {"vlan_transport"}
               /\ "l3_transit" \in types => Has(c, i, "ip_address")
<1> DEFINE types == {row[1] : row \in {r \in detect_circuits(c) : r[2] = i}}
<1>1. /\ i # NoInterface
      /\ Is(c, i, "vlan_type", "dot1q") <=> Has(c, i, "vlan_id") /\ ~Has(c, i, "vsi_name")
      /\ Is(c, i, "vlan_type", "dot1q") => ~Has(c, i, "pe_vid") /\ ~Has(c, i, "ce_vid")
  BY DEF one_encapsulation, NoInterface
<1>2. i \notin Objects(c, "zte_onu")
  BY DEF Interfaces, Objects
<1>3. \A row \in detect_circuits(c) : row[2] = i =>
        \/ row[1] = "l3_transit" /\ i \in find_transit_candidates(c)
        \/ row[1] = "vlan_transport" /\ is_vlan_transport(c, i)
        \/ row[1] = "qinq_transport" /\ is_qinq(c, i)
        \/ row[1] = "l2vpn_vsi" /\ Has(c, i, "vsi_name")
  BY <1>1, <1>2, CircuitsHaveGrounds DEF CircuitOf
<1>4. i \in find_transit_candidates(c) => Has(c, i, "ip_address")
  BY DEF find_transit_candidates, Values, Has
<1>5. is_vlan_transport(c, i) => ~is_qinq(c, i) /\ ~Has(c, i, "ip_address") /\ ~Has(c, i, "vsi_name")
  BY DEF is_vlan_transport, is_qinq
<1>6. \A details, confidence, type :
         <<type, i, details, confidence>> \in detect_circuits(c) => type \in types
  <2> TAKE details, confidence, type
  <2> HAVE <<type, i, details, confidence>> \in detect_circuits(c)
  <2>1. <<type, i, details, confidence>>[1] = type /\ <<type, i, details, confidence>>[2] = i
    OBVIOUS
  <2> QED
    BY <2>1
<1>7. (Has(c, i, "vlan_id") /\ ~Has(c, i, "ip_address")) => types # {}
  <2> SUFFICES ASSUME Has(c, i, "vlan_id"), ~Has(c, i, "ip_address") PROVE types # {}
    OBVIOUS
  <2>1. \/ Has(c, i, "vsi_name")
        \/ is_qinq(c, i)
        \/ is_vlan_transport(c, i)
    BY <1>1 DEF is_qinq, is_vlan_transport
  <2>2. \E type, details, confidence : <<type, i, details, confidence>> \in detect_circuits(c)
    BY <2>1, GroundsHaveCircuits
  <2> QED
    BY <2>2, <1>6
<1>8. "vlan_transport" \in types => types = {"vlan_transport"}
  BY <1>3, <1>4, <1>5
<1>9. "l3_transit" \in types => Has(c, i, "ip_address")
  BY <1>3, <1>4
<1> QED
  BY <1>7, <1>8, <1>9

-----------------------------------------------------------------------------
(* Circuits of the device and of its snapshot                               *)

\* What the parser finds a second time are domains and VLANs, and nothing else.
LEMMA ParsedBlocks ==
    ASSUME NEW c
    PROVE  LET parsed == parse_vlan_batch(extract_aaa_sub_blocks(c))
           IN  \A f : f[1][1] \notin {"aaa_domains", "vlan"} => (f \in parsed <=> f \in c)
<1> DEFINE domains == {<<<<"aaa_domains", o[2]>>, "name", o[2]>> : o \in Objects(c, "aaa_domain")}
           again == extract_aaa_sub_blocks(c)
           batch == {<<<<"vlan", v>>, "vlan_id", v>> :
                        v \in UNION {expand_huawei_vlan_list(words) :
                                        words \in All(again, "vlan_batch", "words")}}
<1>1. again = c \cup domains
  BY DEF extract_aaa_sub_blocks
<1>2. parse_vlan_batch(again) = again \cup batch
  BY DEF parse_vlan_batch
<1>3. \A f \in domains : f[1][1] = "aaa_domains"
  OBVIOUS
<1>4. \A f \in batch : f[1][1] = "vlan"
  OBVIOUS
<1> HIDE DEF domains, again, batch
<1> QED
  BY <1>1, <1>2, <1>3, <1>4 DEF again

\* Two configurations that say the same of their interfaces have the same
\* encapsulations.
LEMMA SameEncapsulation ==
    ASSUME NEW c, NEW d, \A f : f[1][1] = "interface" => (f \in d <=> f \in c),
           one_encapsulation(c)
    PROVE  one_encapsulation(d)
<1>1. Interfaces(d) = Interfaces(c)
  BY DEF Interfaces, Objects
<1>2. ASSUME NEW i \in Interfaces(c)
      PROVE  /\ \A field : Has(d, i, field) <=> Has(c, i, field)
             /\ Is(d, i, "vlan_type", "dot1q") <=> Is(c, i, "vlan_type", "dot1q")
  <2>1. i[1] = "interface"
    BY <1>2 DEF Interfaces, Objects
  <2>2. \A field : Has(d, i, field) <=> Has(c, i, field)
    BY <2>1 DEF Has
  <2>3. <<i, "vlan_type", "dot1q">>[1][1] = "interface"
    BY <2>1
  <2> QED
    BY <2>2, <2>3 DEF Is
<1> QED
  BY <1>1, <1>2 DEF one_encapsulation

\* The device and its snapshot are parsed to configurations with one
\* encapsulation on each interface.
LEMMA Encapsulated ==
    ASSUME TypeOK
    PROVE  one_encapsulation(current) /\ one_encapsulation(previous)
<1>1. ASSUME NEW entered \in {lines, base} PROVE one_encapsulation(parse(entered))
  <2>1. scenario \in Scenarios /\ entered \in SUBSET scenario.lines
    BY DEF TypeOK
  <2>2. one_encapsulation(facts_of(scenario, entered))
    BY <2>1, ReviewAssumption
  <2> DEFINE c == facts_of(scenario, entered)
  <2>3. parse(entered) = parse_vlan_batch(extract_aaa_sub_blocks(c))
    BY DEF parse, facts
  <2>4. one_encapsulation(c)
    BY <2>2
  <2> HIDE DEF c
  <2> QED
    BY <2>3, <2>4, ParsedBlocks, SameEncapsulation
<1> QED
  BY <1>1 DEF current, previous

\* Where no interface has two encapsulations, the detectors of circuits divide
\* the interfaces among them, whatever else is configured: one with a VLAN and
\* no address is always a circuit, a transport of VLANs is nothing else, and a
\* transit circuit has an address (detectors/circuits.py).
THEOREM Subinterfaces == Spec => []SubinterfacesAreCircuits
<1>1. TypeOK => SubinterfacesAreCircuits
  <2> SUFFICES ASSUME TypeOK, NEW i \in Interfaces(current)
               PROVE  LET types == {row[1] : row \in {r \in circuits : r[2] = i}}
                      IN  /\ (Has(current, i, "vlan_id") /\ ~Has(current, i, "ip_address"))
                               => types # {}
                          /\ "vlan_transport" \in types => types = {"vlan_transport"}
                          /\ "l3_transit" \in types => Has(current, i, "ip_address")
    BY DEF SubinterfacesAreCircuits
  <2>1. one_encapsulation(current)
    BY Encapsulated
  <2> QED
    BY <2>1, OneKindOfCircuit DEF circuits
<1> QED
  BY <1>1, TypeCorrect, PTL

-----------------------------------------------------------------------------
(* What a change of a circuit shows                                         *)

\* A fact gives a field its value.
LEMMA ValueIs ==
    ASSUME NEW c, AreFacts(c), NEW o, NEW field, NEW value
    PROVE  Is(c, o, field, value) <=> value \in Values(c, o, field)
<1>1. ASSUME Is(c, o, field, value) PROVE value \in Values(c, o, field)
  <2> DEFINE f == <<o, field, value>>
  <2>1. f \in c /\ f[1] = o /\ f[2] = field /\ f[3] = value
    BY <1>1 DEF Is
  <2> QED
    BY <2>1 DEF Values
<1>2. ASSUME value \in Values(c, o, field) PROVE Is(c, o, field, value)
  BY <1>2 DEF Values, Is, AreFacts
<1> QED
  BY <1>1, <1>2

\* A transit circuit has its key.
LEMMA KeyOfTransit ==
    ASSUME NEW c, NEW i \in find_transit_candidates(c), NEW detail, TransitDetail(c, i, detail)
    PROVE  <<"l3_transit", i, Values(c, i, "vlan_id"), detail>> \in circuit_keys(c)
<1>1. ASSUME NEW shown_route, NEW confidence,
             <<"l3_transit", i, <<shown_route, detail>>, confidence>> \in detect_circuits(c)
      PROVE  <<"l3_transit", i, Values(c, i, "vlan_id"), detail>> \in circuit_keys(c)
  <2> DEFINE found == <<"l3_transit", i, <<shown_route, detail>>, confidence>>
  <2>1. found[1] = "l3_transit" /\ found[2] = i /\ found[3][2] = detail
    OBVIOUS
  <2>2. found \in detect_circuits(c)
    BY <1>1
  <2> HIDE DEF found
  <2>3. circuit_key(c, found) = <<"l3_transit", i, Values(c, i, "vlan_id"), detail>>
    BY <2>1 DEF circuit_key
  <2> QED
    BY <2>2, <2>3 DEF circuit_keys
<1>2. CASE \E r \in specific_routes(c, i) :
              detail = extract_routed_prefix(c, r, Values(c, i, "ip_address"))
  <2>1. PICK r \in specific_routes(c, i) :
              detail = extract_routed_prefix(c, r, Values(c, i, "ip_address"))
    BY <1>2
  <2>2. <<"l3_transit", i, <<r, detail>>, 80>> \in detect_l3_transit_circuits(c)
    BY <2>1 DEF detect_l3_transit_circuits, Circuit
  <2> QED
    BY <1>1, <2>2 DEF detect_circuits
<1>3. CASE specific_routes(c, i) = {} /\ default_routes(c, i) # {} /\ detail = {}
  <2>1. <<"l3_transit", i, <<"default", detail>>, 60>> \in detect_l3_transit_circuits(c)
    BY <1>3 DEF detect_l3_transit_circuits, Circuit
  <2> QED
    BY <1>1, <2>1 DEF detect_circuits
<1> QED
  BY <1>2, <1>3 DEF TransitDetail

\* Routes with one key are both default routes or both not, go to the same
\* prefix and through the same next hop.
LEMMA SameRoute ==
    ASSUME NEW b, NEW t, AreFacts(b), AreFacts(t), NEW r, NEW s, route_key(b, r) = route_key(t, s)
    PROVE  /\ Values(b, r, "next_hop") = Values(t, s, "next_hop")
           /\ is_default(b, r) <=> is_default(t, s)
           /\ \A transit : extract_routed_prefix(b, r, transit) = extract_routed_prefix(t, s, transit)
<1>1. \A f \in {"vpn_instance", "network", "netmask", "next_hop"} : Values(b, r, f) = Values(t, s, f)
  <2> TAKE f \in {"vpn_instance", "network", "netmask", "next_hop"}
  <2>1. route_key(b, r)[f] = Values(b, r, f) /\ route_key(t, s)[f] = Values(t, s, f)
    BY DEF route_key
  <2> QED
    BY <2>1
<1>2. /\ Values(b, r, "next_hop") = Values(t, s, "next_hop")
      /\ Values(b, r, "network") = Values(t, s, "network")
      /\ Values(b, r, "netmask") = Values(t, s, "netmask")
  BY <1>1
<1>3. \A c \in {b, t} : \A o, field, value : Is(c, o, field, value) <=> value \in Values(c, o, field)
  BY ValueIs
<1>4. is_default(b, r) <=> is_default(t, s)
  BY <1>2, <1>3 DEF is_default
<1>5. /\ Has(b, r, "network") <=> Has(t, s, "network")
      /\ Has(b, r, "netmask") <=> Has(t, s, "netmask")
  BY <1>2, FieldValues
<1> QED
  BY <1>2, <1>4, <1>5 DEF extract_routed_prefix

\* With the same routes, an interface that keeps its address keeps what its
\* transit circuits say of them.
LEMMA SameDetail ==
    ASSUME NEW b, NEW t, AreFacts(b), AreFacts(t), route_keys(b) = route_keys(t), NEW i,
           Values(b, i, "ip_address") = Values(t, i, "ip_address"),
           NEW detail, TransitDetail(t, i, detail)
    PROVE  TransitDetail(b, i, detail)
<1>1. ASSUME NEW c \in {b, t}, NEW d \in {b, t}, NEW r \in routes_into(c, i)
      PROVE  \E s \in routes_into(d, i) : route_key(d, s) = route_key(c, r)
  <2>1. /\ r \in Objects(c, "static_route")
        /\ \E hop \in Values(c, r, "next_hop") :
              ~is_non_ip_next_hop(hop) /\ hop \in Values(c, i, "ip_address")
    BY DEF routes_into
  <2>2. route_key(c, r) \in route_keys(d)
    BY <2>1 DEF route_keys
  <2>3. PICK s \in Objects(d, "static_route") : route_key(d, s) = route_key(c, r)
    BY <2>2 DEF route_keys
  <2>4. Values(d, s, "next_hop") = Values(c, r, "next_hop")
    BY <2>3, SameRoute
  <2>5. s \in routes_into(d, i)
    BY <2>1, <2>4 DEF routes_into
  <2> QED
    BY <2>3, <2>5
<1>2. ASSUME NEW c \in {b, t}, NEW d \in {b, t}, NEW r \in specific_routes(c, i)
      PROVE  \E s \in specific_routes(d, i) : route_key(d, s) = route_key(c, r)
  <2>1. r \in routes_into(c, i) /\ ~is_default(c, r)
    BY DEF specific_routes
  <2>2. PICK s \in routes_into(d, i) : route_key(d, s) = route_key(c, r)
    BY <1>1, <2>1
  <2>3. ~is_default(d, s)
    BY <2>1, <2>2, SameRoute
  <2> QED
    BY <2>2, <2>3 DEF specific_routes
<1>3. default_routes(t, i) # {} => default_routes(b, i) # {}
  <2> SUFFICES ASSUME NEW r \in default_routes(t, i) PROVE default_routes(b, i) # {}
    OBVIOUS
  <2>1. r \in routes_into(t, i) /\ is_default(t, r)
    BY DEF default_routes
  <2>2. PICK s \in routes_into(b, i) : route_key(b, s) = route_key(t, r)
    BY <1>1, <2>1
  <2>3. is_default(b, s)
    BY <2>1, <2>2, SameRoute
  <2> QED
    BY <2>2, <2>3 DEF default_routes
<1>4. CASE \E r \in specific_routes(t, i) :
              detail = extract_routed_prefix(t, r, Values(t, i, "ip_address"))
  <2>1. PICK r \in specific_routes(t, i) :
              detail = extract_routed_prefix(t, r, Values(t, i, "ip_address"))
    BY <1>4
  <2>2. PICK s \in specific_routes(b, i) : route_key(b, s) = route_key(t, r)
    BY <1>2
  <2>3. detail = extract_routed_prefix(b, s, Values(b, i, "ip_address"))
    BY <2>1, <2>2, SameRoute
  <2> QED
    BY <2>3 DEF TransitDetail
<1>5. CASE specific_routes(t, i) = {} /\ default_routes(t, i) # {} /\ detail = {}
  <2>1. specific_routes(b, i) = {}
    BY <1>2, <1>5
  <2> QED
    BY <1>3, <1>5, <2>1 DEF TransitDetail
<1> QED
  BY <1>4, <1>5 DEF TransitDetail

\* A circuit that is no VSI and no ONU, of an interface that both
\* configurations have and of which the comparison shows nothing, has its key
\* in both if the routes are the same.
LEMMA CircuitStays ==
    ASSUME NEW b, NEW t, one_encapsulation(b), one_encapsulation(t), AreFacts(b), AreFacts(t),
           route_keys(b) = route_keys(t),
           NEW row \in detect_circuits(t), row[1] \notin {"olt", "l2vpn_vsi"},
           row[2] \in Interfaces(b),
           \A field \in {"ip_address", "vlan_id", "second_vlan_id", "vsi_name"} :
              Values(b, row[2], field) = Values(t, row[2], field),
           ~Is(t, row[2], "vlan_type", "qinq_termination")
    PROVE  circuit_key(t, row) \in circuit_keys(b)
<1> DEFINE i == row[2]
<1>1. /\ Values(b, i, "ip_address") = Values(t, i, "ip_address")
      /\ Values(b, i, "vlan_id") = Values(t, i, "vlan_id")
      /\ Values(b, i, "second_vlan_id") = Values(t, i, "second_vlan_id")
      /\ Values(b, i, "vsi_name") = Values(t, i, "vsi_name")
  OBVIOUS
<1>2. /\ Has(b, i, "ip_address") <=> Has(t, i, "ip_address")
      /\ Has(b, i, "vlan_id") <=> Has(t, i, "vlan_id")
      /\ Has(b, i, "second_vlan_id") <=> Has(t, i, "second_vlan_id")
      /\ Has(b, i, "vsi_name") <=> Has(t, i, "vsi_name")
  BY <1>1, FieldValues
<1>3. i \in Interfaces(b)
  OBVIOUS
<1>4. CASE row[1] = "l3_transit" /\ i \in find_transit_candidates(t)
             /\ TransitDetail(t, i, row[3][2])
  <2>1. /\ i \in Interfaces(t)
        /\ Is(t, i, "vlan_type", "dot1q")
        /\ Has(t, i, "vlan_id")
        /\ \E n \in Values(t, i, "ip_address") : n \in TransitNetworks
    BY <1>4 DEF find_transit_candidates
  <2>2. Is(b, i, "vlan_type", "dot1q")
    BY <1>2, <1>3, <2>1 DEF one_encapsulation
  <2>3. i \in find_transit_candidates(b)
    BY <1>1, <1>2, <1>3, <2>1, <2>2 DEF find_transit_candidates
  <2>4. TransitDetail(b, i, row[3][2])
    BY <1>1, <1>4, SameDetail
  <2>5. <<"l3_transit", i, Values(b, i, "vlan_id"), row[3][2]>> \in circuit_keys(b)
    BY <2>3, <2>4, KeyOfTransit
  <2>6. circuit_key(t, row) = <<"l3_transit", i, Values(t, i, "vlan_id"), row[3][2]>>
    BY <1>4 DEF circuit_key
  <2> QED
    BY <1>1, <2>5, <2>6
<1>5. CASE row[1] = "vlan_transport" /\ i \in Interfaces(t) /\ is_vlan_transport(t, i)
  <2>1. is_vlan_transport(b, i)
    BY <1>2, <1>3, <1>5 DEF one_encapsulation, is_vlan_transport
  <2>2. PICK confidence :
          <<"vlan_transport", i, Values(b, i, "vlan_id"), confidence>> \in detect_circuits(b)
    BY <1>3, <2>1, GroundsHaveCircuits
  <2> DEFINE found == <<"vlan_transport", i, Values(b, i, "vlan_id"), confidence>>
  <2>3. found \in detect_circuits(b) /\ found[1] = "vlan_transport" /\ found[2] = i
    BY <2>2
  <2> HIDE DEF found
  <2>4. circuit_key(b, found)
          = <<"vlan_transport", i, Values(b, i, "vlan_id"), Values(b, i, "second_vlan_id")>>
    BY <2>3 DEF circuit_key
  <2>5. circuit_key(t, row)
          = <<"vlan_transport", i, Values(t, i, "vlan_id"), Values(t, i, "second_vlan_id")>>
    BY <1>5 DEF circuit_key
  <2>6. circuit_key(t, row) = circuit_key(b, found)
    BY <1>1, <2>4, <2>5
  <2> QED
    BY <2>3, <2>6 DEF circuit_keys
<1>6. CASE row[1] = "qinq_transport" /\ i \in Interfaces(t) /\ is_qinq(t, i)
  <2>1. is_qinq(b, i)
    BY <1>2, <1>3, <1>6 DEF one_encapsulation, is_qinq
  <2>2. PICK details : <<"qinq_transport", i, details, 85>> \in detect_circuits(b)
    BY <1>3, <2>1, GroundsHaveCircuits
  <2> DEFINE found == <<"qinq_transport", i, details, 85>>
  <2>3. found \in detect_circuits(b) /\ found[1] = "qinq_transport" /\ found[2] = i
    BY <2>2
  <2> HIDE DEF found
  <2>4. circuit_key(b, found)
          = <<"qinq_transport", i, Values(b, i, "vlan_id"), Values(b, i, "second_vlan_id")>>
    BY <2>3 DEF circuit_key
  <2>5. circuit_key(t, row)
          = <<"qinq_transport", i, Values(t, i, "vlan_id"), Values(t, i, "second_vlan_id")>>
    BY <1>6 DEF circuit_key
  <2>6. circuit_key(t, row) = circuit_key(b, found)
    BY <1>1, <2>4, <2>5
  <2> QED
    BY <2>3, <2>6 DEF circuit_keys
<1>7. CircuitOf(t, row)
  BY CircuitsHaveGrounds
<1> QED
  BY <1>4, <1>5, <1>6, <1>7 DEF CircuitOf

\* An interface of which the comparison shows nothing is in both configurations
\* or in none, and keeps what the circuits read of it.
LEMMA UnshownInterface ==
    ASSUME NEW b, NEW t, NEW i,
           i \notin compare_interfaces(b, t).added \cup compare_interfaces(b, t).removed
                      \cup compare_interfaces(b, t).changed
    PROVE  /\ i \in Interfaces(b) <=> i \in Interfaces(t)
           /\ i \in Interfaces(b) =>
                \A field \in {"ip_address", "vlan_id", "second_vlan_id", "vsi_name"} :
                   Values(b, i, field) = Values(t, i, field)
<1> DEFINE found == compare_interfaces(b, t)
           altered == {o \in Interfaces(b) : detect_iface_changes(b, t, o) # {}}
<1>1. /\ found.added = Interfaces(t) \ Interfaces(b)
      /\ found.removed = Interfaces(b) \ Interfaces(t)
      /\ found.changed = (Interfaces(b) \cap Interfaces(t)) \cap altered
  BY DEF compare_interfaces, Diff
<1> HIDE DEF found
<1>2. i \in Interfaces(b) <=> i \in Interfaces(t)
  BY <1>1 DEF found
<1>3. ASSUME i \in Interfaces(b),
             NEW field \in {"ip_address", "vlan_id", "second_vlan_id", "vsi_name"},
             Values(b, i, field) # Values(t, i, field)
      PROVE  FALSE
  <2> DEFINE fields == {"description", "ip_address", "vlan_id", "second_vlan_id", "vsi_name",
                        "shutdown", "port_mode", "access_vlan", "trunk_allowed_vlans",
                        "trunk_pvid", "stp_enabled", "stp_disabled", "stp_edge_port"}
  <2>1. detect_iface_changes(b, t, i) = changed_fields(b, t, i, fields)
    BY DEF detect_iface_changes
  <2>2. field \in fields
    OBVIOUS
  <2> HIDE DEF fields
  <2>3. detect_iface_changes(b, t, i) # {}
    BY <1>3, <2>1, <2>2, OtherValues
  <2> QED
    BY <1>1, <1>2, <1>3, <2>3 DEF found
<1> QED
  BY <1>2, <1>3

\* The device and its snapshot are parsed to facts.
LEMMA ParsedFacts ==
    ASSUME TypeOK
    PROVE  AreFacts(current) /\ AreFacts(previous)
<1>1. ASSUME NEW entered \in {lines, base} PROVE AreFacts(parse(entered))
  <2>1. scenario \in Scenarios /\ entered \in SUBSET scenario.lines
    BY DEF TypeOK
  <2> DEFINE c == facts_of(scenario, entered)
             domains == {<<<<"aaa_domains", o[2]>>, "name", o[2]>> : o \in Objects(c, "aaa_domain")}
             again == extract_aaa_sub_blocks(c)
             batch == {<<<<"vlan", v>>, "vlan_id", v>> :
                          v \in UNION {expand_huawei_vlan_list(words) :
                                          words \in All(again, "vlan_batch", "words")}}
  <2>2. AreFacts(c)
    BY <2>1, ReviewAssumption
  <2>3. AreFacts(domains) /\ AreFacts(batch)
    BY DEF AreFacts
  <2>4. parse(entered) = (c \cup domains) \cup batch
    BY DEF parse, facts, extract_aaa_sub_blocks, parse_vlan_batch
  <2> HIDE DEF c, domains, batch
  <2> QED
    BY <2>2, <2>3, <2>4 DEF AreFacts
<1> QED
  BY <1>1 DEF current, previous

\* What a circuit is found on is an interface, but for VSIs and ONUs.
LEMMA CircuitsOfInterfaces ==
    ASSUME NEW c, NEW row \in detect_circuits(c), row[1] \notin {"olt", "l2vpn_vsi"}
    PROVE  row[2] \in Interfaces(c)
<1>1. \A i \in find_transit_candidates(c) : i \in Interfaces(c)
  BY DEF find_transit_candidates
<1> QED
  BY <1>1, CircuitsHaveGrounds DEF CircuitOf

\* The key of a circuit has its type and its subject.
LEMMA InKey ==
    ASSUME NEW c, NEW row
    PROVE  circuit_key(c, row)[1] = row[1] /\ circuit_key(c, row)[2] = row[2]
<1>1. \A type, subject, outer, inner :
         <<type, subject, outer, inner>>[1] = type /\ <<type, subject, outer, inner>>[2] = subject
  OBVIOUS
<1> QED
  BY <1>1 DEF circuit_key

\* A circuit comes or goes in a comparison only together with its interface, a
\* compared field of it or a static route, unless it is a VSI, an ONU or on a
\* QinQ termination (comparison.py and detectors/circuits.py).
THEOREM CircuitChanges == Spec => []CircuitChangesAreExplained
<1>1. TypeOK => CircuitChangesAreExplained
  <2> SUFFICES ASSUME TypeOK PROVE CircuitChangesAreExplained
    OBVIOUS
  <2> DEFINE terminates(i) == \E c \in {previous, current} : Is(c, i, "vlan_type", "qinq_termination")
             interfaces == compare_interfaces(previous, current)
             shown_in(i) == i \in interfaces.added \cup interfaces.removed \cup interfaces.changed
             routes == any_change(compare_static_routes(previous, current))
  <2>1. \A c \in {previous, current} : one_encapsulation(c) /\ AreFacts(c)
    BY Encapsulated, ParsedFacts
  <2>2. ~routes => route_keys(previous) = route_keys(current)
    BY DEF any_change, compare_static_routes, Diff
  <2>3. ASSUME NEW c \in {previous, current}, NEW d \in {previous, current},
               NEW row \in detect_circuits(c), row[1] \notin {"olt", "l2vpn_vsi"},
               ~terminates(row[2]), ~shown_in(row[2]), ~routes
        PROVE  circuit_key(c, row) \in circuit_keys(d)
    <3>1. row[2] \in Interfaces(c)
      BY <2>3, CircuitsOfInterfaces
    <3>2. /\ row[2] \in Interfaces(previous) <=> row[2] \in Interfaces(current)
          /\ row[2] \in Interfaces(previous) =>
               \A field \in {"ip_address", "vlan_id", "second_vlan_id", "vsi_name"} :
                  Values(previous, row[2], field) = Values(current, row[2], field)
      BY <2>3, UnshownInterface
    <3>3. row[2] \in Interfaces(d)
      BY <3>1, <3>2
    <3>4. \A field \in {"ip_address", "vlan_id", "second_vlan_id", "vsi_name"} :
             Values(d, row[2], field) = Values(c, row[2], field)
      BY <3>1, <3>2
    <3>5. ~Is(c, row[2], "vlan_type", "qinq_termination")
      BY <2>3
    <3>6. route_keys(d) = route_keys(c) /\ one_encapsulation(c) /\ one_encapsulation(d)
            /\ AreFacts(c) /\ AreFacts(d)
      BY <2>1, <2>2, <2>3
    <3> HIDE DEF terminates, shown_in, routes
    <3> QED
      BY <2>3, <3>3, <3>4, <3>5, <3>6, CircuitStays
  <2>4. ASSUME NEW k \in compare_circuits(previous, current).added
                           \cup compare_circuits(previous, current).removed
        PROVE  \/ k[1] \in {"olt", "l2vpn_vsi"} \/ terminates(k[2])
               \/ shown_in(k[2])
               \/ routes
    <3>1. PICK c \in {previous, current}, d \in {previous, current} :
              k \in circuit_keys(c) /\ k \notin circuit_keys(d)
      BY <2>4 DEF compare_circuits, Diff
    <3>2. PICK row \in detect_circuits(c) : k = circuit_key(c, row)
      BY <3>1 DEF circuit_keys
    <3>3. k[1] = row[1] /\ k[2] = row[2]
      BY <3>2, InKey
    <3> HIDE DEF terminates, shown_in, routes
    <3> QED
      BY <2>3, <3>1, <3>2, <3>3
  <2> QED
    BY <2>4 DEF CircuitChangesAreExplained
<1> QED
  BY <1>1, TypeCorrect, PTL

-----------------------------------------------------------------------------
(* Grades of services and the issues about the same objects                 *)

\* The codes of the issues that GradesAgreeWithIssues compares with services.
GradedCodes ==
    {"vpnv4_peer_not_enabled", "vpn_instance_without_rd", "ospf_no_router_id",
     "syslog_without_loghost", "ntp_without_authentication", "vty_without_acl",
     "traffic_policy_orphan", "nat_address_group_orphan", "pppoe_interface_without_bas",
     "radius_group_without_authentication_server"}

\* A row has the code of the report it is in.
LEMMA CodeOf ==
    /\ \A v, S, row : row \in Report(v, S) => row[1] = v
    /\ \A v, condition, row : row \in ReportIf(v, condition) => row[1] = v
  BY InReport, InReportIf

\* Of these codes none is reported about descriptions and next hops.
LEMMA BaseCodes ==
    ASSUME NEW c, NEW row \in detect_base_issues(c), row[1] \in GradedCodes
    PROVE  FALSE
  BY CodeOf DEF GradedCodes, detect_base_issues, detect_interface_no_description,
        detect_subinterface_no_description, detect_static_route_no_description,
        detect_bgp_peer_no_description, detect_unreachable_next_hop

\* Three of them are about the management plane.
LEMMA ManagementCodes ==
    ASSUME NEW c, NEW row \in detect_management_issues(c), row[1] \in GradedCodes
    PROVE  row \in detect_ntp_without_auth(c) \cup detect_syslog_without_loghost(c)
                     \cup detect_vty_without_acl(c)
  BY CodeOf DEF GradedCodes, detect_management_issues, detect_snmp_v2c,
        detect_snmp_write_community, detect_snmp_without_acl, detect_telnet_enabled,
        detect_local_user_high_privilege, detect_management_acl_not_found

\* None is about switching.
LEMMA SwitchingCodes ==
    ASSUME NEW c, NEW row \in detect_l2_issues(c), row[1] \in GradedCodes
    PROVE  FALSE
<1>1. row \notin detect_l2_port_missing_desc(c)
  <2> DEFINE ports(p) == {i \in Lacking(c, "interface", "description") :
                            Is(c, i, "port_mode", p[1])}
  <2>1. detect_l2_port_missing_desc(c) = UNION {Report(p[2], ports(p)) : p \in undescribed_ports}
    BY DEF detect_l2_port_missing_desc
  <2> HIDE DEF ports
  <2>2. row \in detect_l2_port_missing_desc(c) => \E p \in undescribed_ports : row[1] = p[2]
    BY <2>1, CodeOf
  <2>3. \A p \in undescribed_ports : p[2] \notin GradedCodes
    BY DEF undescribed_ports, GradedCodes
  <2> QED
    BY <2>2, <2>3
<1> QED
  BY <1>1, CodeOf DEF GradedCodes, detect_l2_issues, detect_l2_trunk_allow_all,
        detect_l2_stp_disabled_trunk, detect_l2_edge_port_trunk,
        detect_l2_vlan_used_not_defined, detect_l2_vlan_defined_unused

\* None is about routing policies.
LEMMA PolicyCodes ==
    ASSUME NEW c, NEW row \in detect_policy_issues(c), row[1] \in GradedCodes
    PROVE  FALSE
  BY CodeOf DEF GradedCodes, detect_policy_issues, find_policy_issues, orphan_policy_issues,
        route_policy_node_issues, permit_any_issues

\* One is about OSPF.
LEMMA CoreCodes ==
    ASSUME NEW c, NEW row \in detect_core_issues(c), row[1] \in GradedCodes
    PROVE  row \in detect_ospf_no_router_id(c)
  BY CodeOf DEF GradedCodes, detect_core_issues, detect_ospf_passive_missing,
        detect_ospf_redistribution_without_filter, detect_isis_without_network_entity,
        detect_isis_interface_unknown_process, detect_isis_plain_authentication,
        detect_mpls_without_lsr_id, detect_ldp_without_mpls, detect_interface_ldp_without_mpls,
        detect_mpls_interface_without_ldp, detect_ldp_remote_peer_without_ip

\* Two are about VPNs.
LEMMA VpnCodes ==
    ASSUME NEW c, NEW row \in detect_vpn_issues(c), row[1] \in GradedCodes
    PROVE  row \in detect_vpn_instance_without_rd(c) \cup detect_vpnv4_peer_not_enabled(c)
  BY CodeOf DEF GradedCodes, detect_vpn_issues, detect_vpn_instance_without_rt,
        detect_interface_vpn_instance_not_found, detect_static_route_vpn_instance_not_found,
        detect_bgp_vpn_instance_not_found, detect_vpn_instance_without_interface,
        detect_vpn_instance_without_routes, detect_duplicate_route_distinguisher

\* One is about QoS.
LEMMA QosCodes ==
    ASSUME NEW c, NEW row \in detect_qos_issues(c), row[1] \in GradedCodes
    PROVE  row \in detect_traffic_policy_orphan(c)
  BY CodeOf DEF GradedCodes, detect_qos_issues, detect_traffic_policy_not_found,
        detect_traffic_classifier_not_found, detect_traffic_behavior_not_found,
        detect_qos_classifier_acl_not_found, detect_traffic_classifier_orphan,
        detect_traffic_behavior_orphan, detect_qos_profile_not_found, detect_qos_profile_orphan,
        detect_qos_car_without_red_discard, detect_customer_interface_without_qos

\* One is about NAT.
LEMMA NatCodes ==
    ASSUME NEW c, NEW row \in detect_nat_issues(c), row[1] \in GradedCodes
    PROVE  row \in detect_nat_address_group_orphan(c)
  BY CodeOf DEF GradedCodes, detect_nat_issues, detect_nat_acl_not_found,
        detect_nat_address_group_not_found, detect_nat_outbound_without_address_group,
        detect_nat_static_private_global_ip, detect_nat_server_sensitive_port,
        detect_nat_server_without_protocol, detect_nat_interface_missing_description,
        detect_nat_vpn_instance_not_found, detect_nat_alg_sip_enabled

\* One is about RADIUS.
LEMMA BngCodes ==
    ASSUME NEW c, NEW row \in detect_bng_issues(c), row[1] \in GradedCodes
    PROVE  row \in Report("radius_group_without_authentication_server",
                          Lacking(c, "radius_server", "authentication_servers"))
<1>1. row \notin detect_bas_issues(c)
  <2> DEFINE checks == {<<"bas_interface_without_authentication_method", "bas.authentication_method">>,
                        <<"bas_interface_without_user_vlan", "user_vlan">>,
                        <<"bas_interface_missing_description", "description">>}
  <2>1. \A check \in checks : check[1] \notin GradedCodes
    BY DEF GradedCodes
  <2>2. row \in detect_bas_issues(c)
          => row[1] = "bas_domain_not_found" \/ \E check \in checks : row[1] = check[1]
    BY CodeOf DEF detect_bas_issues
  <2> HIDE DEF checks
  <2> QED
    BY <2>1, <2>2 DEF GradedCodes
<1>2. row \notin detect_domain_issues(c)
  <2>1. \A ref \in domain_references : ref[1] \notin GradedCodes
    BY DEF domain_references, GradedCodes
  <2>2. row \in detect_domain_issues(c)
          => row[1] = "domain_without_accounting" \/ \E ref \in domain_references : row[1] = ref[1]
    BY CodeOf DEF detect_domain_issues
  <2> QED
    BY <2>1, <2>2 DEF GradedCodes
<1> QED
  BY <1>1, <1>2, CodeOf DEF GradedCodes, detect_bng_issues, detect_radius_issues

\* One is about PPPoE.
LEMMA PppoeCodes ==
    ASSUME NEW c, NEW row \in detect_pppoe_issues(c), row[1] \in GradedCodes
    PROVE  row \in Report("pppoe_interface_without_bas", pppoe_servers(c) \ bas_interfaces(c))
  BY CodeOf DEF GradedCodes, detect_pppoe_issues, detect_pppoe_server_issues,
        detect_virtual_template_issues

\* None is about high availability.
LEMMA HaCodes ==
    ASSUME NEW c, NEW row \in detect_ha_issues(c), row[1] \in GradedCodes
    PROVE  FALSE
<1>1. row \notin detect_bfd_session_issues(c)
  BY CodeOf DEF GradedCodes, detect_bfd_session_issues
<1>2. row \notin detect_bfd_coverage_issues(c)
  BY CodeOf DEF GradedCodes, detect_bfd_coverage_issues
<1>3. row \notin detect_restart_issues(c)
  <2> DEFINE unprotected(kind) ==
               \E o \in Lacking(c, kind, "nsr_enabled") : Has(c, o, "graceful_restart")
             ldp == Flag(c, "mpls_ldp", "enabled") /\ ~Flag(c, "graceful_restart", "ldp")
  <2>1. detect_restart_issues(c)
          = (UNION {ReportIf("graceful_restart_without_nsr", unprotected(kind)) :
                       kind \in {"isis", "ospf"}})
              \cup ReportIf("ldp_without_graceful_restart", ldp)
    BY DEF detect_restart_issues
  <2> HIDE DEF unprotected, ldp
  <2> QED
    BY <2>1, CodeOf DEF GradedCodes
<1>4. row \notin detect_igp_bfd_issues(c)
  BY CodeOf DEF GradedCodes, detect_igp_bfd_issues
<1> QED
  BY <1>1, <1>2, <1>3, <1>4 DEF detect_ha_issues

\* None is about multicast.
LEMMA MulticastCodes ==
    ASSUME NEW c, NEW row \in detect_multicast_issues(c), row[1] \in GradedCodes
    PROVE  FALSE
  BY CodeOf DEF GradedCodes, detect_multicast_issues, detect_multicast_interface_issues,
        detect_multicast_global_issues

\* None is about overlays and OLTs.
LEMMA VendorCodes ==
    ASSUME NEW c, NEW row \in detect_huawei_advanced_issues(c) \cup detect_zte_olt_issues(c),
           row[1] \in GradedCodes
    PROVE  FALSE
<1>1. row \notin detect_huawei_advanced_issues(c)
  BY CodeOf DEF GradedCodes, detect_huawei_advanced_issues
<1>2. row \notin detect_zte_olt_issues(c)
  BY CodeOf DEF GradedCodes, detect_zte_olt_issues
<1> QED
  BY <1>1, <1>2

\* An issue of one of these codes is reported by one detector only.
LEMMA GradedIssues ==
    ASSUME NEW c, NEW row \in detect_issues(c), row[1] \in GradedCodes
    PROVE  \/ row \in detect_ntp_without_auth(c)
           \/ row \in detect_syslog_without_loghost(c)
           \/ row \in detect_vty_without_acl(c)
           \/ row \in detect_ospf_no_router_id(c)
           \/ row \in detect_vpn_instance_without_rd(c)
           \/ row \in detect_vpnv4_peer_not_enabled(c)
           \/ row \in detect_traffic_policy_orphan(c)
           \/ row \in detect_nat_address_group_orphan(c)
           \/ row \in Report("radius_group_without_authentication_server",
                             Lacking(c, "radius_server", "authentication_servers"))
           \/ row \in Report("pppoe_interface_without_bas", pppoe_servers(c) \ bas_interfaces(c))
  BY BaseCodes, ManagementCodes, SwitchingCodes, PolicyCodes, CoreCodes, VpnCodes, QosCodes,
     NatCodes, BngCodes, PppoeCodes, HaCodes, MulticastCodes, VendorCodes DEF detect_issues

\* The subjects of a check are those of its report when no other detector has
\* its code.
LEMMA SubjectsOf ==
    ASSUME NEW rows, NEW code, NEW S, Report(code, S) \subseteq rows,
           \A row \in rows : row[1] = code => row \in Report(code, S)
    PROVE  subjects_of(rows, code) = S
<1>1. \A s \in S : <<code, s>> \in rows /\ <<code, s>>[1] = code /\ <<code, s>>[2] = s
  BY DEF Report
<1>2. \A row \in rows : row[1] = code => row[2] \in S
  <2> SUFFICES ASSUME NEW row \in rows, row[1] = code PROVE row[2] \in S
    OBVIOUS
  <2>1. row \in Report(code, S)
    OBVIOUS
  <2> QED
    BY <2>1 DEF Report
<1> QED
  BY <1>1, <1>2 DEF subjects_of

\* A check without a subject says no more than that its condition holds.
LEMMA SubjectsIf ==
    ASSUME NEW rows, NEW code, NEW condition, ReportIf(code, condition) \subseteq rows,
           \A row \in rows : row[1] = code => row \in ReportIf(code, condition)
    PROVE  subjects_of(rows, code) # {} <=> condition
<1>1. condition => <<code, "">> \in rows /\ <<code, "">>[1] = code
  BY DEF ReportIf
<1>2. \A row \in rows : row[1] = code => condition
  BY InReportIf
<1> QED
  BY <1>1, <1>2 DEF subjects_of

\* What each of the checks reports.
LEMMA IssueSubjects ==
    ASSUME NEW c
    PROVE  LET reported(code) == subjects_of(detect_issues(c), code)
           IN  /\ reported("vpnv4_peer_not_enabled") = Lacking(c, "vpnv4_peer", "enabled")
               /\ reported("vpn_instance_without_rd")
                    = get_vpn_instance_names(c) \ families_with(c, "route_distinguisher")
               /\ reported("ospf_no_router_id") = Lacking(c, "ospf", "router_id")
               /\ reported("syslog_without_loghost") # {}
                    <=> Flag(c, "syslog", "enabled") /\ ~Flag(c, "syslog", "log_hosts")
               /\ reported("ntp_without_authentication") # {} => Flag(c, "ntp", "servers")
               /\ reported("vty_without_acl") # {} => ~has_acl_on_vty(c)
               /\ reported("traffic_policy_orphan")
                    = Names(c, "traffic_policy") \ applied_names(c, "traffic_policies_applied")
               /\ reported("nat_address_group_orphan")
                    = get_nat_address_group_names(c) \ All(c, "nat_outbound", "address_group")
               /\ reported("pppoe_interface_without_bas") = pppoe_servers(c) \ bas_interfaces(c)
               /\ reported("radius_group_without_authentication_server")
                    = Lacking(c, "radius_server", "authentication_servers")
<1> DEFINE found == detect_issues(c)
           reported(code) == subjects_of(found, code)
           syslog == Flag(c, "syslog", "enabled") /\ ~Flag(c, "syslog", "log_hosts")
           ntp == /\ Flag(c, "ntp", "enabled")
                  /\ Flag(c, "ntp", "servers")
                  /\ ~Flag(c, "ntp", "authentication_enabled")
           vty == Objects(c, "vty") # {} /\ ~has_acl_on_vty(c)
           vpnv4 == Lacking(c, "vpnv4_peer", "enabled")
           rd == get_vpn_instance_names(c) \ families_with(c, "route_distinguisher")
           ospf == Lacking(c, "ospf", "router_id")
           policies == Names(c, "traffic_policy") \ applied_names(c, "traffic_policies_applied")
           groups == get_nat_address_group_names(c) \ All(c, "nat_outbound", "address_group")
           pppoe == pppoe_servers(c) \ bas_interfaces(c)
           radius == Lacking(c, "radius_server", "authentication_servers")
<1>1. /\ Report("vpnv4_peer_not_enabled", vpnv4) \subseteq found
      /\ Report("vpn_instance_without_rd", rd) \subseteq found
      /\ Report("ospf_no_router_id", ospf) \subseteq found
      /\ ReportIf("syslog_without_loghost", syslog) \subseteq found
      /\ ReportIf("ntp_without_authentication", ntp) \subseteq found
      /\ ReportIf("vty_without_acl", vty) \subseteq found
      /\ Report("traffic_policy_orphan", policies) \subseteq found
      /\ Report("nat_address_group_orphan", groups) \subseteq found
      /\ Report("pppoe_interface_without_bas", pppoe) \subseteq found
      /\ Report("radius_group_without_authentication_server", radius) \subseteq found
  <2>1. /\ detect_vpnv4_peer_not_enabled(c) \cup detect_vpn_instance_without_rd(c)
             \subseteq detect_vpn_issues(c)
        /\ detect_ospf_no_router_id(c) \subseteq detect_core_issues(c)
        /\ detect_syslog_without_loghost(c) \cup detect_ntp_without_auth(c)
             \cup detect_vty_without_acl(c) \subseteq detect_management_issues(c)
        /\ detect_traffic_policy_orphan(c) \subseteq detect_qos_issues(c)
        /\ detect_nat_address_group_orphan(c) \subseteq detect_nat_issues(c)
        /\ Report("pppoe_interface_without_bas", pppoe) \subseteq detect_pppoe_issues(c)
        /\ Report("radius_group_without_authentication_server", radius)
             \subseteq detect_bng_issues(c)
    BY DEF detect_vpn_issues, detect_core_issues, detect_management_issues, detect_qos_issues,
           detect_nat_issues, detect_pppoe_issues, detect_pppoe_server_issues, detect_bng_issues,
           detect_radius_issues
  <2>2. /\ detect_vpn_issues(c) \subseteq found
        /\ detect_core_issues(c) \subseteq found
        /\ detect_management_issues(c) \subseteq found
        /\ detect_qos_issues(c) \subseteq found
        /\ detect_nat_issues(c) \subseteq found
        /\ detect_pppoe_issues(c) \subseteq found
        /\ detect_bng_issues(c) \subseteq found
    BY DEF detect_issues
  <2> HIDE DEF found, pppoe, radius
  <2> QED
    BY <2>1, <2>2 DEF detect_vpnv4_peer_not_enabled, detect_vpn_instance_without_rd,
       detect_ospf_no_router_id, detect_syslog_without_loghost, detect_ntp_without_auth,
       detect_vty_without_acl, detect_traffic_policy_orphan, detect_nat_address_group_orphan
<1>2. ASSUME NEW row \in found, row[1] \in GradedCodes
      PROVE  \/ row \in Report("vpnv4_peer_not_enabled", vpnv4)
             \/ row \in Report("vpn_instance_without_rd", rd)
             \/ row \in Report("ospf_no_router_id", ospf)
             \/ row \in ReportIf("syslog_without_loghost", syslog)
             \/ row \in ReportIf("ntp_without_authentication", ntp)
             \/ row \in ReportIf("vty_without_acl", vty)
             \/ row \in Report("traffic_policy_orphan", policies)
             \/ row \in Report("nat_address_group_orphan", groups)
             \/ row \in Report("pppoe_interface_without_bas", pppoe)
             \/ row \in Report("radius_group_without_authentication_server", radius)
  <2>1. row \in detect_issues(c)
    BY <1>2
  <2> HIDE DEF found, pppoe, radius
  <2> QED
    BY <1>2, <2>1, GradedIssues DEF pppoe, radius,
       detect_vpnv4_peer_not_enabled, detect_vpn_instance_without_rd,
       detect_ospf_no_router_id, detect_syslog_without_loghost, detect_ntp_without_auth,
       detect_vty_without_acl, detect_traffic_policy_orphan, detect_nat_address_group_orphan
<1> HIDE DEF found, syslog, ntp, vty, vpnv4, rd, ospf, policies, groups, pppoe, radius
<1>3. reported("vpnv4_peer_not_enabled") = vpnv4
  BY <1>1, <1>2, CodeOf, SubjectsOf DEF GradedCodes
<1>4. reported("vpn_instance_without_rd") = rd
  BY <1>1, <1>2, CodeOf, SubjectsOf DEF GradedCodes
<1>5. reported("ospf_no_router_id") = ospf
  BY <1>1, <1>2, CodeOf, SubjectsOf DEF GradedCodes
<1>6. reported("syslog_without_loghost") # {} <=> syslog
  BY <1>1, <1>2, CodeOf, SubjectsIf DEF GradedCodes
<1>7. reported("ntp_without_authentication") # {} <=> ntp
  BY <1>1, <1>2, CodeOf, SubjectsIf DEF GradedCodes
<1>8. reported("vty_without_acl") # {} <=> vty
  BY <1>1, <1>2, CodeOf, SubjectsIf DEF GradedCodes
<1>9. reported("traffic_policy_orphan") = policies
  BY <1>1, <1>2, CodeOf, SubjectsOf DEF GradedCodes
<1>10. reported("nat_address_group_orphan") = groups
  BY <1>1, <1>2, CodeOf, SubjectsOf DEF GradedCodes
<1>11. reported("pppoe_interface_without_bas") = pppoe
  BY <1>1, <1>2, CodeOf, SubjectsOf DEF GradedCodes
<1>12. reported("radius_group_without_authentication_server") = radius
  BY <1>1, <1>2, CodeOf, SubjectsOf DEF GradedCodes
<1> QED
  BY <1>3, <1>4, <1>5, <1>6, <1>7, <1>8, <1>9, <1>10, <1>11, <1>12
     DEF found, syslog, ntp, vty, vpnv4, rd, ospf, policies, groups, pppoe, radius

\* The services that GradesAgreeWithIssues compares with issues.
GradedTypes ==
    {"vpnv4", "vrf", "ospf", "syslog", "ntp", "management_access", "traffic_policy", "nat",
     "ppp_access", "radius_group"}

\* A row of a service has its type, its name and its confidence.
LEMMA InService ==
    ASSUME NEW type, NEW name, NEW confidence, NEW row, row = <<type, name, confidence>>
    PROVE  row[1] = type /\ row[2] = name /\ row[3] = confidence
<1>1. /\ <<type, name, confidence>>[1] = type
      /\ <<type, name, confidence>>[2] = name
      /\ <<type, name, confidence>>[3] = confidence
  OBVIOUS
<1> QED
  BY <1>1

\* A row has the type of the service it is of.
LEMMA TypeOf ==
    /\ \A type, name, confidence, row : row \in Service(type, name, confidence) => row[1] = type
    /\ \A type, subjects, condition, confidence, row :
          row \in Counted(type, subjects, condition, confidence) => row[1] = type
    /\ \A type, names, confidence, row : row \in Each(type, names, confidence) => row[1] = type
  BY InService DEF Service, Counted, Each

\* Of these types, three are found among the access services.
LEMMA AccessTypes ==
    ASSUME NEW c, NEW row \in detect_access_services(c), row[1] \in GradedTypes
    PROVE  row \in detect_ntp(c) \cup detect_syslog(c) \cup detect_management_access(c)
<1>1. row \notin detect_bng(c)
  BY TypeOf DEF GradedTypes, detect_bng
<1>2. row \notin detect_aaa(c)
  BY TypeOf DEF GradedTypes, detect_aaa
<1>3. row \notin detect_radius_servers(c) \cup detect_ip_pools(c) \cup detect_subscriber_access(c)
  BY TypeOf DEF GradedTypes, detect_radius_servers, detect_ip_pools, detect_subscriber_access
<1>4. row \notin detect_snmp(c)
  <2> DEFINE versions == Values(c, <<"snmp", "">>, "versions")
             grade == Grade(Is(c, <<"snmp", "">>, "versions", "v3") /\ Flag(c, "snmp", "acl_refs"), 85, 80)
  <2>1. detect_snmp(c) \subseteq Service("snmp", versions, grade)
    BY ZenonT(30) DEF detect_snmp
  <2> HIDE DEF versions, grade
  <2> QED
    BY <2>1, TypeOf DEF GradedTypes
<1>5. row \notin detect_local_users(c)
  <2> DEFINE grade(u) == Grade(Has(c, u, "has_password"), 90, 70)
             names(u) == Values(c, u, "name")
  <2>1. detect_local_users(c)
          = UNION {Each("local_user", names(u), grade(u)) : u \in Objects(c, "local_user")}
    BY DEF detect_local_users
  <2> HIDE DEF grade, names
  <2> QED
    BY <2>1, TypeOf DEF GradedTypes
<1>6. row \notin detect_l2_switching(c) \cup detect_vlan_service(c)
  BY TypeOf DEF GradedTypes, detect_l2_switching, detect_vlan_service
<1>7. row \notin detect_stp_service(c)
  <2> DEFINE mode == Values(c, <<"stp", "">>, "mode")
             grade == Grade(Objects(c, "stp_instance") # {}, 85, 80)
  <2>1. detect_stp_service(c) \subseteq Service("stp", mode, grade)
    BY ZenonT(30) DEF detect_stp_service
  <2> HIDE DEF mode, grade
  <2> QED
    BY <2>1, TypeOf DEF GradedTypes
<1>8. row \notin get_policy_service_info(c)
  BY TypeOf DEF GradedTypes, get_policy_service_info
<1> QED
  BY <1>1, <1>2, <1>3, <1>4, <1>5, <1>6, <1>7, <1>8 DEF detect_access_services

\* Five are found among the network services.
LEMMA NetworkTypes ==
    ASSUME NEW c, NEW row \in detect_network_services(c), row[1] \in GradedTypes
    PROVE  row \in detect_ospf(c) \cup detect_vrf(c) \cup detect_vpnv4(c)
                     \cup detect_traffic_policy(c) \cup detect_nat(c)
<1>1. row \notin detect_mpls(c)
  <2> DEFINE lsr_id == Values(c, <<"mpls", "">>, "lsr_id")
  <2>1. detect_mpls(c) \subseteq Service("mpls", lsr_id, 90)
    BY ZenonT(30) DEF detect_mpls
  <2> HIDE DEF lsr_id
  <2> QED
    BY <2>1, TypeOf DEF GradedTypes
<1>6. row \notin detect_isis(c) \cup detect_mpls_ldp(c) \cup detect_l3vpn(c)
  BY TypeOf DEF GradedTypes, detect_isis, detect_mpls_ldp, detect_l3vpn
<1>2. row \notin detect_qos(c) \cup detect_qos_car(c)
  BY TypeOf DEF GradedTypes, detect_qos, detect_qos_car
<1>3. row \notin detect_nat_outbound(c) \cup detect_nat_static(c) \cup detect_nat_server(c)
  BY TypeOf DEF GradedTypes, detect_nat_outbound, detect_nat_static, detect_nat_server
<1>4. row \notin detect_ipv6(c) \cup detect_bgp_ipv6(c) \cup detect_vpnv6(c)
  BY TypeOf DEF GradedTypes, detect_ipv6, detect_bgp_ipv6, detect_vpnv6
<1>5. row \notin detect_ospfv3(c) \cup detect_isis_ipv6(c)
  BY TypeOf DEF GradedTypes, detect_ospfv3, detect_isis_ipv6
<1> QED
  BY <1>1, <1>2, <1>3, <1>4, <1>5, <1>6 DEF detect_network_services

\* Two are found among the features added later.
LEMMA FeatureTypes ==
    ASSUME NEW c, NEW row \in detect_feature_services(c), row[1] \in GradedTypes
    PROVE  row \in detect_radius_groups(c) \cup detect_ppp_access(c)
<1>1. row \notin detect_bng_advanced(c) \cup detect_bas_interfaces(c)
                   \cup detect_subscriber_domains(c) \cup detect_aaa_scheme(c)
  BY TypeOf DEF GradedTypes, detect_bng_advanced, detect_bas_interfaces,
        detect_subscriber_domains, detect_aaa_scheme
<1>2. row \notin detect_bfd(c) \cup detect_graceful_restart(c) \cup detect_nsr(c)
                   \cup detect_multicast(c)
  BY TypeOf DEF GradedTypes, detect_bfd, detect_graceful_restart, detect_nsr, detect_multicast
<1>3. row \notin detect_pim(c) \cup detect_igmp(c) \cup detect_igmp_snooping(c) \cup detect_mld(c)
  BY TypeOf DEF GradedTypes, detect_pim, detect_igmp, detect_igmp_snooping, detect_mld
<1>4. row \notin detect_pppoe_server(c) \cup detect_virtual_templates(c)
  BY TypeOf DEF GradedTypes, detect_pppoe_server, detect_virtual_templates
<1>5. row \notin detect_huawei_advanced_services(c)
  <2> DEFINE features == {<<"evpn_vxlan", 90>>, <<"segment_routing", 90>>, <<"mpls_te", 90>>,
                          <<"cgnat", 85>>, <<"msdp", 90>>}
             name == ""
             found(s) == IF advanced_enabled(c, s[1]) THEN Service(s[1], name, s[2]) ELSE {}
             telemetry == IF \E field \in {"enabled", "grpc_enabled", "netstream_enabled",
                                           "sflow_enabled"} : Flag(c, "telemetry", field)
                          THEN Service("telemetry", name, 85) ELSE {}
  <2>1. detect_huawei_advanced_services(c) = (UNION {found(s) : s \in features}) \cup telemetry
    BY DEF detect_huawei_advanced_services
  <2>2. \A s : found(s) \subseteq Service(s[1], name, s[2])
    OBVIOUS
  <2>3. telemetry \subseteq Service("telemetry", name, 85)
    BY Zenon
  <2>4. \A s \in features : s[1] \notin GradedTypes
    BY DEF GradedTypes
  <2> HIDE DEF features, found, telemetry, name
  <2>5. \A s \in features : row \in found(s) => row[1] = s[1]
    <3> SUFFICES ASSUME NEW s \in features, row \in found(s) PROVE row[1] = s[1]
      OBVIOUS
    <3>1. row \in Service(s[1], name, s[2])
      BY <2>2
    <3> QED
      BY <3>1, TypeOf
  <2> QED
    BY <2>1, <2>3, <2>4, <2>5, TypeOf DEF GradedTypes
<1>6. row \notin detect_zte_olt_services(c)
  <2> DEFINE name == "ZTE OLT GPON"
  <2>1. detect_zte_olt_services(c) \subseteq Service("gpon_olt", name, 95)
    BY ZenonT(30) DEF detect_zte_olt_services
  <2> HIDE DEF name
  <2> QED
    BY <2>1, TypeOf DEF GradedTypes
<1> QED
  BY <1>1, <1>2, <1>3, <1>4, <1>5, <1>6 DEF detect_feature_services

\* A service of one of these types is found by one detector only.
LEMMA GradedServices ==
    ASSUME NEW c, NEW row \in detect_services(c), row[1] \in GradedTypes
    PROVE  \/ row[1] = "ntp" /\ row \in detect_ntp(c)
           \/ row[1] = "syslog" /\ row \in detect_syslog(c)
           \/ row[1] = "management_access" /\ row \in detect_management_access(c)
           \/ row[1] = "ospf" /\ row \in detect_ospf(c)
           \/ row[1] = "vrf" /\ row \in detect_vrf(c)
           \/ row[1] = "vpnv4" /\ row \in detect_vpnv4(c)
           \/ row[1] = "traffic_policy" /\ row \in detect_traffic_policy(c)
           \/ row[1] = "nat" /\ row \in detect_nat(c)
           \/ row[1] = "radius_group" /\ row \in detect_radius_groups(c)
           \/ row[1] = "ppp_access" /\ row \in detect_ppp_access(c)
<1>1. row \in detect_ntp(c) => row[1] = "ntp"
  BY TypeOf DEF detect_ntp
<1>2. row \in detect_syslog(c) => row[1] = "syslog"
  BY TypeOf DEF detect_syslog
<1>3. row \in detect_management_access(c) => row[1] = "management_access"
  BY TypeOf DEF detect_management_access
<1>4. row \in detect_ospf(c) => row[1] = "ospf"
  BY TypeOf DEF detect_ospf
<1>5. row \in detect_vrf(c) => row[1] = "vrf"
  BY TypeOf DEF detect_vrf
<1>6. row \in detect_vpnv4(c) => row[1] = "vpnv4"
  BY TypeOf DEF detect_vpnv4
<1>7. row \in detect_traffic_policy(c) => row[1] = "traffic_policy"
  BY TypeOf DEF detect_traffic_policy
<1>8. row \in detect_nat(c) => row[1] = "nat"
  BY TypeOf DEF detect_nat
<1>9. row \in detect_radius_groups(c) => row[1] = "radius_group"
  <2> DEFINE grade(r) == Grade(Has(c, r, "authentication_servers"), 90, 70)
             names(r) == Values(c, r, "name")
  <2>1. detect_radius_groups(c)
          = UNION {Each("radius_group", names(r), grade(r)) : r \in Objects(c, "radius_server")}
    BY DEF detect_radius_groups
  <2> HIDE DEF grade, names
  <2> QED
    BY <2>1, TypeOf
<1>10. row \in detect_ppp_access(c) => row[1] = "ppp_access"
  BY TypeOf DEF detect_ppp_access
<1> QED
  BY <1>1, <1>2, <1>3, <1>4, <1>5, <1>6, <1>7, <1>8, <1>9, <1>10, AccessTypes, NetworkTypes,
     FeatureTypes DEF detect_services

\* A service of a type is graded so.
GradedAs(c, type, confidence) ==
    \E s \in detect_services(c) : s[1] = type /\ s[3] = confidence

\* A grade is the lower one when its condition fails.
LEMMA LowGrade ==
    ASSUME NEW good, NEW high, NEW low, high # low
    PROVE  Grade(good, high, low) = low <=> ~good
  BY DEF Grade

\* A service has the confidence it is created with.
LEMMA ServiceConfidence ==
    ASSUME NEW type, NEW name, NEW confidence, NEW asked
    PROVE  (\E row \in Service(type, name, confidence) : row[3] = asked) <=> confidence = asked
<1>1. <<type, name, confidence>>[3] = confidence
  OBVIOUS
<1> QED
  BY <1>1 DEF Service

\* The detector of a type decides how its services are graded.
LEMMA GradedBy ==
    ASSUME NEW c, NEW type, NEW confidence, NEW rows, rows \subseteq detect_services(c),
           \A row \in rows : row[1] = type,
           \A row \in detect_services(c) : row[1] = type => row \in rows
    PROVE  GradedAs(c, type, confidence) <=> \E row \in rows : row[3] = confidence
  BY DEF GradedAs

\* What each low or high confidence says of the configuration.
LEMMA ServiceGrades ==
    ASSUME NEW c
    PROVE  /\ GradedAs(c, "vpnv4", 50)
                <=> Objects(c, "vpnv4_peer") # {} /\ All(c, "vpnv4_peer", "enabled") = {}
           /\ GradedAs(c, "vrf", 70)
                <=> Objects(c, "vpn_instance") # {} /\ All(c, "vpn_af", "route_distinguisher") = {}
           /\ GradedAs(c, "ospf", 75)
                <=> Objects(c, "ospf") # {} /\ All(c, "ospf", "router_id") = {}
           /\ GradedAs(c, "syslog", 50)
                <=> Flag(c, "syslog", "enabled") /\ ~Flag(c, "syslog", "log_hosts")
           /\ GradedAs(c, "ntp", 60) => ~Flag(c, "ntp", "servers")
           /\ GradedAs(c, "management_access", 90) => has_acl_on_vty(c)
           /\ GradedAs(c, "traffic_policy", 70)
                => Objects(c, "traffic_policy") # {}
                     /\ InterfacesWith(c, "traffic_policies_applied") = {}
           /\ GradedAs(c, "nat", 70) => Objects(c, "nat_address_group") # {} /\ nat_rules(c) = {}
           /\ GradedAs(c, "ppp_access", 80)
                => pppoe_interfaces(c) # {}
                     /\ pppoe_interfaces(c) \cap InterfacesWith(c, "bas.enabled") = {}
<1> DEFINE found == detect_services(c)
<1>1. /\ detect_ntp(c) \cup detect_syslog(c) \cup detect_management_access(c)
           \subseteq detect_access_services(c)
      /\ detect_ospf(c) \cup detect_vrf(c) \cup detect_vpnv4(c) \cup detect_traffic_policy(c)
           \cup detect_nat(c) \subseteq detect_network_services(c)
      /\ detect_ppp_access(c) \subseteq detect_feature_services(c)
  BY DEF detect_access_services, detect_network_services, detect_feature_services
<1>2. /\ detect_ntp(c) \subseteq found
      /\ detect_syslog(c) \subseteq found
      /\ detect_management_access(c) \subseteq found
      /\ detect_ospf(c) \subseteq found
      /\ detect_vrf(c) \subseteq found
      /\ detect_vpnv4(c) \subseteq found
      /\ detect_traffic_policy(c) \subseteq found
      /\ detect_nat(c) \subseteq found
      /\ detect_ppp_access(c) \subseteq found
  BY <1>1 DEF detect_services
<1>3. \A row \in found :
        /\ row[1] = "vpnv4" => row \in detect_vpnv4(c)
        /\ row[1] = "vrf" => row \in detect_vrf(c)
        /\ row[1] = "ospf" => row \in detect_ospf(c)
        /\ row[1] = "syslog" => row \in detect_syslog(c)
        /\ row[1] = "ntp" => row \in detect_ntp(c)
        /\ row[1] = "management_access" => row \in detect_management_access(c)
        /\ row[1] = "traffic_policy" => row \in detect_traffic_policy(c)
        /\ row[1] = "nat" => row \in detect_nat(c)
        /\ row[1] = "ppp_access" => row \in detect_ppp_access(c)
  BY GradedServices DEF GradedTypes
<1>4. \A row : row \in detect_vpnv4(c) => row[1] = "vpnv4"
  BY TypeOf DEF detect_vpnv4
<1>5. \A row : row \in detect_vrf(c) => row[1] = "vrf"
  BY TypeOf DEF detect_vrf
<1>6. \A row : row \in detect_ospf(c) => row[1] = "ospf"
  BY TypeOf DEF detect_ospf
<1>7. \A row : row \in detect_syslog(c) => row[1] = "syslog"
  BY TypeOf DEF detect_syslog
<1> HIDE DEF found
<1>8. GradedAs(c, "vpnv4", 50)
        <=> Objects(c, "vpnv4_peer") # {} /\ All(c, "vpnv4_peer", "enabled") = {}
  <2> DEFINE condition == Objects(c, "vpnv4_peer") # {}
             good == All(c, "vpnv4_peer", "enabled") # {}
             name == Cardinality(Objects(c, "vpnv4_peer"))
  <2>1. condition /\ good => detect_vpnv4(c) = Service("vpnv4", name, 85)
    BY ZenonT(30) DEF detect_vpnv4, Counted, Grade
  <2>2. condition /\ ~good => detect_vpnv4(c) = Service("vpnv4", name, 50)
    BY ZenonT(30) DEF detect_vpnv4, Counted, Grade
  <2>3. ~condition => detect_vpnv4(c) = {}
    BY ZenonT(30) DEF detect_vpnv4, Counted
  <2>4. GradedAs(c, "vpnv4", 50) <=> \E row \in detect_vpnv4(c) : row[3] = 50
    BY <1>2, <1>3, <1>4, GradedBy DEF found
  <2> HIDE DEF condition, good, name
  <2>5. (\E row \in detect_vpnv4(c) : row[3] = 50) <=> condition /\ ~good
    <3>1. CASE ~condition
      BY <2>3, <3>1
    <3>2. CASE condition /\ good
      <4>1. ~ \E row \in Service("vpnv4", name, 85) : row[3] = 50
        BY DEF Service
      <4> QED
        BY <2>1, <3>2, <4>1
    <3>3. CASE condition /\ ~good
      <4>1. \E row \in Service("vpnv4", name, 50) : row[3] = 50
        BY DEF Service
      <4> QED
        BY <2>2, <3>3, <4>1
    <3> QED
      BY <3>1, <3>2, <3>3
  <2> QED
    BY <2>4, <2>5 DEF condition, good
<1>9. GradedAs(c, "vrf", 70)
        <=> Objects(c, "vpn_instance") # {} /\ All(c, "vpn_af", "route_distinguisher") = {}
  <2> DEFINE condition == Objects(c, "vpn_instance") # {}
             good == All(c, "vpn_af", "route_distinguisher") # {}
             name == Cardinality(Objects(c, "vpn_instance"))
  <2>1. condition /\ good => detect_vrf(c) = Service("vrf", name, 90)
    BY ZenonT(30) DEF detect_vrf, Counted, Grade
  <2>2. condition /\ ~good => detect_vrf(c) = Service("vrf", name, 70)
    BY ZenonT(30) DEF detect_vrf, Counted, Grade
  <2>3. ~condition => detect_vrf(c) = {}
    BY ZenonT(30) DEF detect_vrf, Counted
  <2>4. GradedAs(c, "vrf", 70) <=> \E row \in detect_vrf(c) : row[3] = 70
    BY <1>2, <1>3, <1>5, GradedBy DEF found
  <2> HIDE DEF condition, good, name
  <2>5. (\E row \in detect_vrf(c) : row[3] = 70) <=> condition /\ ~good
    <3>1. CASE ~condition
      BY <2>3, <3>1
    <3>2. CASE condition /\ good
      <4>1. ~ \E row \in Service("vrf", name, 90) : row[3] = 70
        BY DEF Service
      <4> QED
        BY <2>1, <3>2, <4>1
    <3>3. CASE condition /\ ~good
      <4>1. \E row \in Service("vrf", name, 70) : row[3] = 70
        BY DEF Service
      <4> QED
        BY <2>2, <3>3, <4>1
    <3> QED
      BY <3>1, <3>2, <3>3
  <2> QED
    BY <2>4, <2>5 DEF condition, good
<1>10. GradedAs(c, "ospf", 75)
        <=> Objects(c, "ospf") # {} /\ All(c, "ospf", "router_id") = {}
  <2> DEFINE condition == Objects(c, "ospf") # {}
             good == All(c, "ospf", "router_id") # {}
             name == Objects(c, "ospf")
  <2>1. condition /\ good => detect_ospf(c) = Service("ospf", name, 85)
    BY ZenonT(30) DEF detect_ospf, Counted, Grade
  <2>2. condition /\ ~good => detect_ospf(c) = Service("ospf", name, 75)
    BY ZenonT(30) DEF detect_ospf, Counted, Grade
  <2>3. ~condition => detect_ospf(c) = {}
    BY ZenonT(30) DEF detect_ospf, Counted
  <2>4. GradedAs(c, "ospf", 75) <=> \E row \in detect_ospf(c) : row[3] = 75
    BY <1>2, <1>3, <1>6, GradedBy DEF found
  <2> HIDE DEF condition, good, name
  <2>5. (\E row \in detect_ospf(c) : row[3] = 75) <=> condition /\ ~good
    <3>1. CASE ~condition
      BY <2>3, <3>1
    <3>2. CASE condition /\ good
      <4>1. ~ \E row \in Service("ospf", name, 85) : row[3] = 75
        BY DEF Service
      <4> QED
        BY <2>1, <3>2, <4>1
    <3>3. CASE condition /\ ~good
      <4>1. \E row \in Service("ospf", name, 75) : row[3] = 75
        BY DEF Service
      <4> QED
        BY <2>2, <3>3, <4>1
    <3> QED
      BY <3>1, <3>2, <3>3
  <2> QED
    BY <2>4, <2>5 DEF condition, good
<1>11. GradedAs(c, "syslog", 50)
        <=> Flag(c, "syslog", "enabled") /\ ~Flag(c, "syslog", "log_hosts")
  <2> DEFINE condition == Flag(c, "syslog", "enabled")
             good == Flag(c, "syslog", "log_hosts")
             name == Cardinality(Values(c, <<"syslog", "">>, "log_hosts"))
  <2>1. condition /\ good => detect_syslog(c) = Service("syslog", name, 85)
    BY ZenonT(30) DEF detect_syslog, Counted, Grade
  <2>2. condition /\ ~good => detect_syslog(c) = Service("syslog", name, 50)
    BY ZenonT(30) DEF detect_syslog, Counted, Grade
  <2>3. ~condition => detect_syslog(c) = {}
    BY ZenonT(30) DEF detect_syslog, Counted
  <2>4. GradedAs(c, "syslog", 50) <=> \E row \in detect_syslog(c) : row[3] = 50
    BY <1>2, <1>3, <1>7, GradedBy DEF found
  <2> HIDE DEF condition, good, name
  <2>5. (\E row \in detect_syslog(c) : row[3] = 50) <=> condition /\ ~good
    <3>1. CASE ~condition
      BY <2>3, <3>1
    <3>2. CASE condition /\ good
      <4>1. ~ \E row \in Service("syslog", name, 85) : row[3] = 50
        BY DEF Service
      <4> QED
        BY <2>1, <3>2, <4>1
    <3>3. CASE condition /\ ~good
      <4>1. \E row \in Service("syslog", name, 50) : row[3] = 50
        BY DEF Service
      <4> QED
        BY <2>2, <3>3, <4>1
    <3> QED
      BY <3>1, <3>2, <3>3
  <2> QED
    BY <2>4, <2>5 DEF condition, good
<1>12. GradedAs(c, "ntp", 60)
        => ~Flag(c, "ntp", "servers")
  <2> DEFINE condition == Flag(c, "ntp", "enabled")
             good == Flag(c, "ntp", "servers")
             name == Cardinality(Values(c, <<"ntp", "">>, "servers"))
  <2>1. condition /\ good => detect_ntp(c) = Service("ntp", name, 85)
    BY ZenonT(30) DEF detect_ntp, Counted, Grade
  <2>2. condition /\ ~good => detect_ntp(c) = Service("ntp", name, 60)
    BY ZenonT(30) DEF detect_ntp, Counted, Grade
  <2>3. ~condition => detect_ntp(c) = {}
    BY ZenonT(30) DEF detect_ntp, Counted
  <2>4. GradedAs(c, "ntp", 60) => \E row \in detect_ntp(c) : row[3] = 60
    BY <1>3 DEF GradedAs, found
  <2> HIDE DEF condition, good, name
  <2>5. (\E row \in detect_ntp(c) : row[3] = 60) <=> condition /\ ~good
    <3>1. CASE ~condition
      BY <2>3, <3>1
    <3>2. CASE condition /\ good
      <4>1. ~ \E row \in Service("ntp", name, 85) : row[3] = 60
        BY DEF Service
      <4> QED
        BY <2>1, <3>2, <4>1
    <3>3. CASE condition /\ ~good
      <4>1. \E row \in Service("ntp", name, 60) : row[3] = 60
        BY DEF Service
      <4> QED
        BY <2>2, <3>3, <4>1
    <3> QED
      BY <3>1, <3>2, <3>3
  <2> QED
    BY <2>4, <2>5 DEF condition, good
<1>13. GradedAs(c, "management_access", 90) => has_acl_on_vty(c)
  <2> DEFINE ssh == Flag(c, "ssh", "enabled")
             grade == Grade(ssh /\ has_acl_on_vty(c), 90, 85)
  <2>1. detect_management_access(c) \subseteq Service("management_access", "VTY", grade)
    BY DEF detect_management_access, has_acl_on_vty
  <2>2. GradedAs(c, "management_access", 90)
          => \E row \in detect_management_access(c) : row[3] = 90
    BY <1>3 DEF GradedAs, found
  <2>3. grade = 90 => has_acl_on_vty(c)
    BY DEF Grade
  <2> HIDE DEF grade
  <2>4. (\E row \in Service("management_access", "VTY", grade) : row[3] = 90) => grade = 90
    BY DEF Service
  <2> QED
    BY <2>1, <2>2, <2>3, <2>4
<1>14. GradedAs(c, "traffic_policy", 70)
        => Objects(c, "traffic_policy") # {}
             /\ InterfacesWith(c, "traffic_policies_applied") = {}
  <2> DEFINE condition == Objects(c, "traffic_policy") # {}
             good == InterfacesWith(c, "traffic_policies_applied") # {}
             name == Cardinality(Objects(c, "traffic_policy"))
  <2>1. condition /\ good => detect_traffic_policy(c) = Service("traffic_policy", name, 85)
    BY ZenonT(30) DEF detect_traffic_policy, Counted, Grade
  <2>2. condition /\ ~good => detect_traffic_policy(c) = Service("traffic_policy", name, 70)
    BY ZenonT(30) DEF detect_traffic_policy, Counted, Grade
  <2>3. ~condition => detect_traffic_policy(c) = {}
    BY ZenonT(30) DEF detect_traffic_policy, Counted
  <2>4. GradedAs(c, "traffic_policy", 70) => \E row \in detect_traffic_policy(c) : row[3] = 70
    BY <1>3 DEF GradedAs, found
  <2> HIDE DEF condition, good, name
  <2>5. (\E row \in detect_traffic_policy(c) : row[3] = 70) <=> condition /\ ~good
    <3>1. CASE ~condition
      BY <2>3, <3>1
    <3>2. CASE condition /\ good
      <4>1. ~ \E row \in Service("traffic_policy", name, 85) : row[3] = 70
        BY DEF Service
      <4> QED
        BY <2>1, <3>2, <4>1
    <3>3. CASE condition /\ ~good
      <4>1. \E row \in Service("traffic_policy", name, 70) : row[3] = 70
        BY DEF Service
      <4> QED
        BY <2>2, <3>3, <4>1
    <3> QED
      BY <3>1, <3>2, <3>3
  <2> QED
    BY <2>4, <2>5 DEF condition, good
<1>15. GradedAs(c, "nat", 70)
        => Objects(c, "nat_address_group") # {} /\ nat_rules(c) = {}
  <2> DEFINE condition == nat_rules(c) \cup Objects(c, "nat_address_group") # {}
             good == nat_rules(c) # {}
             name == Cardinality(nat_rules(c))
  <2>1. condition /\ good => detect_nat(c) = Service("nat", name, 90)
    BY ZenonT(30) DEF detect_nat, Counted, Grade
  <2>2. condition /\ ~good => detect_nat(c) = Service("nat", name, 70)
    BY ZenonT(30) DEF detect_nat, Counted, Grade
  <2>3. ~condition => detect_nat(c) = {}
    BY ZenonT(30) DEF detect_nat, Counted
  <2>4. GradedAs(c, "nat", 70) => \E row \in detect_nat(c) : row[3] = 70
    BY <1>3 DEF GradedAs, found
  <2> HIDE DEF condition, good, name
  <2>5. (\E row \in detect_nat(c) : row[3] = 70) <=> condition /\ ~good
    <3>1. CASE ~condition
      BY <2>3, <3>1
    <3>2. CASE condition /\ good
      <4>1. ~ \E row \in Service("nat", name, 90) : row[3] = 70
        BY DEF Service
      <4> QED
        BY <2>1, <3>2, <4>1
    <3>3. CASE condition /\ ~good
      <4>1. \E row \in Service("nat", name, 70) : row[3] = 70
        BY DEF Service
      <4> QED
        BY <2>2, <3>3, <4>1
    <3> QED
      BY <3>1, <3>2, <3>3
  <2> QED
    BY <2>4, <2>5 DEF condition, good
<1>16. GradedAs(c, "ppp_access", 80)
        => pppoe_interfaces(c) # {}
             /\ pppoe_interfaces(c) \cap InterfacesWith(c, "bas.enabled") = {}
  <2> DEFINE condition == pppoe_interfaces(c) # {} /\ template_interfaces(c) # {}
             good == pppoe_interfaces(c) \cap InterfacesWith(c, "bas.enabled") # {}
             name == "PPP"
  <2>1. condition /\ good => detect_ppp_access(c) = Service("ppp_access", name, 95)
    BY ZenonT(30) DEF detect_ppp_access, Counted, Grade
  <2>2. condition /\ ~good => detect_ppp_access(c) = Service("ppp_access", name, 80)
    BY ZenonT(30) DEF detect_ppp_access, Counted, Grade
  <2>3. ~condition => detect_ppp_access(c) = {}
    BY ZenonT(30) DEF detect_ppp_access, Counted
  <2>4. GradedAs(c, "ppp_access", 80) => \E row \in detect_ppp_access(c) : row[3] = 80
    BY <1>3 DEF GradedAs, found
  <2> HIDE DEF condition, good, name
  <2>5. (\E row \in detect_ppp_access(c) : row[3] = 80) <=> condition /\ ~good
    <3>1. CASE ~condition
      BY <2>3, <3>1
    <3>2. CASE condition /\ good
      <4>1. ~ \E row \in Service("ppp_access", name, 95) : row[3] = 80
        BY DEF Service
      <4> QED
        BY <2>1, <3>2, <4>1
    <3>3. CASE condition /\ ~good
      <4>1. \E row \in Service("ppp_access", name, 80) : row[3] = 80
        BY DEF Service
      <4> QED
        BY <2>2, <3>3, <4>1
    <3> QED
      BY <3>1, <3>2, <3>3
  <2> QED
    BY <2>4, <2>5 DEF condition, good
<1> QED
  BY <1>8, <1>9, <1>10, <1>11, <1>12, <1>13, <1>14, <1>15, <1>16

\* A RADIUS group is a service of its own, with the low confidence when it has
\* no authentication server.
LEMMA RadiusGrades ==
    ASSUME NEW c, NEW n
    PROVE  <<"radius_group", n, 70>> \in detect_services(c)
             <=> \E r \in Objects(c, "radius_server") :
                    n \in Values(c, r, "name") /\ ~Has(c, r, "authentication_servers")
<1> DEFINE names(r) == Values(c, r, "name")
           good(r) == Has(c, r, "authentication_servers")
           grade(r) == Grade(good(r), 90, 70)
           row == <<"radius_group", n, 70>>
<1>1. detect_radius_groups(c)
        = UNION {Each("radius_group", names(r), grade(r)) : r \in Objects(c, "radius_server")}
  BY DEF detect_radius_groups
<1>2. detect_radius_groups(c) \subseteq detect_services(c)
  <2>1. detect_radius_groups(c) \subseteq detect_feature_services(c)
    BY DEF detect_feature_services
  <2> QED
    BY <2>1 DEF detect_services
<1>3. row[1] = "radius_group" /\ row[2] = n /\ row[3] = 70
  OBVIOUS
<1>4. \A r : row \in Each("radius_group", names(r), grade(r)) <=> n \in names(r) /\ ~good(r)
  <2> TAKE r
  <2>1. row \in Each("radius_group", names(r), grade(r)) <=> n \in names(r) /\ grade(r) = 70
    <3> DEFINE confidence == grade(r)
               subjects == names(r)
    <3> HIDE DEF confidence, subjects
    <3>1. row \in Each("radius_group", subjects, confidence) <=> n \in subjects /\ confidence = 70
      BY DEF Each
    <3> QED
      BY <3>1 DEF confidence, subjects
  <2>2. grade(r) = 70 <=> ~good(r)
    BY LowGrade
  <2> QED
    BY <2>1, <2>2
<1> HIDE DEF row, names, good, grade
<1>5. row \in detect_services(c) => row \in detect_radius_groups(c)
  BY <1>3, GradedServices DEF GradedTypes
<1>6. row \in detect_services(c)
        <=> \E r \in Objects(c, "radius_server") : n \in names(r) /\ ~good(r)
  BY <1>1, <1>2, <1>4, <1>5
<1> QED
  BY <1>6 DEF row, names, good

-----------------------------------------------------------------------------
(* Grades and issues of a configuration                                     *)

\* Two configurations that say the same of the blocks that have names have them
\* named alike.
LEMMA SameNames ==
    ASSUME NEW c, NEW d, named_blocks(c),
           \A f : f[1][1] \notin {"aaa_domains", "vlan"} => (f \in d <=> f \in c)
    PROVE  named_blocks(d)
<1> DEFINE kinds == {"vpn_instance", "traffic_policy", "nat_address_group", "radius_server",
                     "aaa_domain"}
           plain(o) == o[1] \notin {"aaa_domains", "vlan"}
<1>1. \A kind \in kinds \cup {"vpn_af", "interface"} :
        Objects(d, kind) = Objects(c, kind) /\ \A o \in Objects(c, kind) : plain(o)
  BY DEF Objects
<1>2. \A o, field : plain(o) => Values(d, o, field) = Values(c, o, field)
  BY DEF Values
<1> HIDE DEF plain
<1>3. \A kind \in kinds : \A o \in Objects(d, kind) : o = <<kind, o[2]>> /\ Values(d, o, "name") = {o[2]}
  BY <1>1, <1>2 DEF named_blocks
<1>4. Names(d, "vpn_instance") = Names(c, "vpn_instance")
  BY <1>1, <1>2 DEF Names, All
<1>5. \A af \in Objects(d, "vpn_af") : Values(d, af, "vpn_instance") \cap Names(d, "vpn_instance") # {}
  BY <1>1, <1>2, <1>4 DEF named_blocks
<1>6. one_type(d)
  BY <1>1, <1>2 DEF named_blocks, one_type, Interfaces
<1> QED
  BY <1>3, <1>5, <1>6 DEF named_blocks

\* The device has its blocks named.
LEMMA Named ==
    ASSUME TypeOK
    PROVE  named_blocks(current)
<1> DEFINE c == facts_of(scenario, lines)
<1>1. /\ scenario \in Scenarios
      /\ lines \in SUBSET scenario.lines
      /\ \A l \in lines : l.needs \subseteq c
  BY DEF TypeOK, facts
<1>2. named_blocks(c)
  BY <1>1, ReviewAssumption
<1>3. current = parse_vlan_batch(extract_aaa_sub_blocks(c))
  BY DEF current, parse, facts
<1> HIDE DEF c
<1> QED
  BY <1>2, <1>3, ParsedBlocks, SameNames

\* A list takes a value of a field when one of its entries has it.
LEMMA Without ==
    ASSUME NEW c, NEW kind, NEW field
    PROVE  All(c, kind, field) = {} <=> \A o \in Objects(c, kind) : ~Has(c, o, field)
<1>1. \A o : Values(c, o, field) = {} <=> ~Has(c, o, field)
  BY DEF Values, Has
<1> QED
  BY <1>1 DEF All

\* All of the entries lack a field when none takes a value of it.
LEMMA AllLack ==
    ASSUME NEW c, NEW kind, NEW field
    PROVE  Objects(c, kind) \subseteq Lacking(c, kind, field) <=> All(c, kind, field) = {}
  BY Without DEF Lacking

\* Entries with names have a name among them.
LEMMA SomeName ==
    ASSUME NEW c, named_blocks(c),
           NEW kind \in {"vpn_instance", "traffic_policy", "nat_address_group", "radius_server"}
    PROVE  Objects(c, kind) # {} <=> Names(c, kind) # {}
<1>1. \A o \in Objects(c, kind) : Values(c, o, "name") # {}
  BY DEF named_blocks
<1> QED
  BY <1>1 DEF Names, All

\* No VPN instance has a route distinguisher when no address family has one.
LEMMA WithoutDistinguisher ==
    ASSUME NEW c, named_blocks(c)
    PROVE  Names(c, "vpn_instance") \subseteq
             Names(c, "vpn_instance") \ families_with(c, "route_distinguisher")
             <=> All(c, "vpn_af", "route_distinguisher") = {}
<1> DEFINE distinguished == {a \in Objects(c, "vpn_af") : Has(c, a, "route_distinguisher")}
           instances(af) == Values(c, af, "vpn_instance")
           names == Names(c, "vpn_instance")
<1>1. All(c, "vpn_af", "route_distinguisher") = {} <=> distinguished = {}
  BY Without
<1>2. families_with(c, "route_distinguisher") = UNION {instances(af) : af \in distinguished}
  BY DEF families_with
<1>3. \A af \in distinguished : instances(af) \cap names # {}
  BY DEF named_blocks
<1> HIDE DEF distinguished, instances, names
<1>4. names \subseteq names \ UNION {instances(af) : af \in distinguished} <=> distinguished = {}
  BY <1>3
<1> QED
  BY <1>1, <1>2, <1>4 DEF names

\* The grades of a configuration with named blocks are what its issues say.
LEMMA GradesSayIssues ==
    ASSUME NEW c, named_blocks(c)
    PROVE  LET reported(code) == subjects_of(detect_issues(c), code)
               all_reported(code, subjects) == subjects # {} /\ subjects \subseteq reported(code)
           IN  /\ GradedAs(c, "vpnv4", 50)
                    <=> all_reported("vpnv4_peer_not_enabled", Objects(c, "vpnv4_peer"))
               /\ GradedAs(c, "vrf", 70)
                    <=> all_reported("vpn_instance_without_rd", Names(c, "vpn_instance"))
               /\ GradedAs(c, "ospf", 75) <=> all_reported("ospf_no_router_id", Objects(c, "ospf"))
               /\ GradedAs(c, "syslog", 50) <=> reported("syslog_without_loghost") # {}
               /\ GradedAs(c, "ntp", 60) => reported("ntp_without_authentication") = {}
               /\ GradedAs(c, "management_access", 90) => reported("vty_without_acl") = {}
               /\ GradedAs(c, "traffic_policy", 70)
                    => all_reported("traffic_policy_orphan", Names(c, "traffic_policy"))
               /\ GradedAs(c, "nat", 70)
                    => all_reported("nat_address_group_orphan", Names(c, "nat_address_group"))
               /\ GradedAs(c, "ppp_access", 80)
                    => all_reported("pppoe_interface_without_bas", pppoe_servers(c))
               /\ \A r \in Objects(c, "radius_server") :
                     <<"radius_group", r[2], 70>> \in detect_services(c)
                       <=> r \in reported("radius_group_without_authentication_server")
<1> DEFINE reported(code) == subjects_of(detect_issues(c), code)
<1>1. /\ reported("vpnv4_peer_not_enabled") = Lacking(c, "vpnv4_peer", "enabled")
      /\ reported("vpn_instance_without_rd")
           = get_vpn_instance_names(c) \ families_with(c, "route_distinguisher")
      /\ reported("ospf_no_router_id") = Lacking(c, "ospf", "router_id")
      /\ reported("syslog_without_loghost") # {}
           <=> Flag(c, "syslog", "enabled") /\ ~Flag(c, "syslog", "log_hosts")
      /\ reported("ntp_without_authentication") # {} => Flag(c, "ntp", "servers")
      /\ reported("vty_without_acl") # {} => ~has_acl_on_vty(c)
      /\ reported("traffic_policy_orphan")
           = Names(c, "traffic_policy") \ applied_names(c, "traffic_policies_applied")
      /\ reported("nat_address_group_orphan")
           = get_nat_address_group_names(c) \ All(c, "nat_outbound", "address_group")
      /\ reported("pppoe_interface_without_bas") = pppoe_servers(c) \ bas_interfaces(c)
      /\ reported("radius_group_without_authentication_server")
           = Lacking(c, "radius_server", "authentication_servers")
  BY IssueSubjects
<1> HIDE DEF reported
<1>2. GradedAs(c, "vpnv4", 50)
        <=> /\ Objects(c, "vpnv4_peer") # {}
            /\ Objects(c, "vpnv4_peer") \subseteq reported("vpnv4_peer_not_enabled")
  BY <1>1, ServiceGrades, AllLack
<1>3. GradedAs(c, "vrf", 70)
        <=> /\ Names(c, "vpn_instance") # {}
            /\ Names(c, "vpn_instance") \subseteq reported("vpn_instance_without_rd")
  BY <1>1, ServiceGrades, WithoutDistinguisher, SomeName DEF get_vpn_instance_names
<1>4. GradedAs(c, "ospf", 75)
        <=> Objects(c, "ospf") # {} /\ Objects(c, "ospf") \subseteq reported("ospf_no_router_id")
  BY <1>1, ServiceGrades, AllLack
<1>5. GradedAs(c, "syslog", 50) <=> reported("syslog_without_loghost") # {}
  BY <1>1, ServiceGrades
<1>6. /\ GradedAs(c, "ntp", 60) => reported("ntp_without_authentication") = {}
      /\ GradedAs(c, "management_access", 90) => reported("vty_without_acl") = {}
  BY <1>1, ServiceGrades
<1>7. GradedAs(c, "traffic_policy", 70)
        => /\ Names(c, "traffic_policy") # {}
           /\ Names(c, "traffic_policy") \subseteq reported("traffic_policy_orphan")
  <2>1. InterfacesWith(c, "traffic_policies_applied") = {}
          => All(c, "interface", "traffic_policies_applied") = {}
    BY Without DEF InterfacesWith, Interfaces
  <2>2. InterfacesWith(c, "traffic_policies_applied") = {}
          => applied_names(c, "traffic_policies_applied") = {}
    BY <2>1 DEF applied_names
  <2> QED
    BY <1>1, <2>2, ServiceGrades, SomeName
<1>8. GradedAs(c, "nat", 70)
        => /\ Names(c, "nat_address_group") # {}
           /\ Names(c, "nat_address_group") \subseteq reported("nat_address_group_orphan")
  <2>1. nat_rules(c) = {} => All(c, "nat_outbound", "address_group") = {}
    BY Without DEF nat_rules
  <2> QED
    BY <1>1, <2>1, ServiceGrades, SomeName DEF get_nat_address_group_names
<1>9. GradedAs(c, "ppp_access", 80)
        => /\ pppoe_servers(c) # {}
           /\ pppoe_servers(c) \subseteq reported("pppoe_interface_without_bas")
  <2>1. pppoe_interfaces(c) = pppoe_servers(c) /\ InterfacesWith(c, "bas.enabled") = bas_interfaces(c)
    BY DEF pppoe_interfaces, pppoe_servers, InterfacesWith, bas_interfaces
  <2> QED
    BY <1>1, <2>1, ServiceGrades
<1>10. ASSUME NEW r \in Objects(c, "radius_server")
       PROVE  <<"radius_group", r[2], 70>> \in detect_services(c)
                <=> r \in reported("radius_group_without_authentication_server")
  <2> DEFINE lacks(o) == ~Has(c, o, "authentication_servers")
  <2>1. \A o \in Objects(c, "radius_server") :
          o = <<"radius_server", o[2]>> /\ Values(c, o, "name") = {o[2]}
    BY DEF named_blocks
  <2>2. \A o \in Objects(c, "radius_server") : r[2] \in Values(c, o, "name") <=> o = r
    BY <2>1
  <2> HIDE DEF lacks
  <2>3. <<"radius_group", r[2], 70>> \in detect_services(c) <=> lacks(r)
    BY <2>2, RadiusGrades DEF lacks
  <2> QED
    BY <1>1, <2>3 DEF lacks, Lacking
<1> QED
  BY <1>2, <1>3, <1>4, <1>5, <1>6, <1>7, <1>8, <1>9, <1>10 DEF reported

\* When a service is graded down, the issues report what is missing from all of
\* its objects, and for VPNv4, VRF, OSPF, syslog and RADIUS groups the other way
\* round too, in every configuration whose blocks have the names the parser
\* gives them (detectors/services.py and detectors/issues.py).
THEOREM Grades == Spec => []GradesAgreeWithIssues
<1>1. TypeOK => GradesAgreeWithIssues
  <2>1. ASSUME TypeOK PROVE named_blocks(current)
    BY <2>1, Named
  <2> QED
    BY <2>1, GradesSayIssues DEF GradesAgreeWithIssues, GradedAs, issues, services
<1> QED
  BY <1>1, TypeCorrect, PTL

-----------------------------------------------------------------------------
(* Lists of VLANs                                                           *)

\* Two configurations with the same facts of a kind have the same values in the
\* entries of that kind.
LEMMA SameValues ==
    ASSUME NEW c, NEW d, NEW kind, NEW field, \A f : f[1][1] = kind => (f \in d <=> f \in c)
    PROVE  All(d, kind, field) = All(c, kind, field)
<1>1. Objects(d, kind) = Objects(c, kind)
  BY DEF Objects
<1>2. ASSUME NEW o \in Objects(c, kind) PROVE Values(d, o, field) = Values(c, o, field)
  <2>1. o[1] = kind
    BY DEF Objects
  <2> QED
    BY <2>1 DEF Values
<1> QED
  BY <1>1, <1>2 DEF All

\* The VLANs that the parser adds for vlan batch are VLANs.
LEMMA ParsedLists ==
    ASSUME NEW c, vlan_lists(c)
    PROVE  vlan_lists(parse_vlan_batch(extract_aaa_sub_blocks(c)))
<1> DEFINE again == extract_aaa_sub_blocks(c)
           parsed == parse_vlan_batch(again)
           found == UNION {expand_huawei_vlan_list(words) : words \in All(again, "vlan_batch", "words")}
           batch == {<<<<"vlan", v>>, "vlan_id", v>> : v \in found}
<1>1. \A f : f[1][1] \notin {"aaa_domains", "vlan"} => (f \in parsed <=> f \in c)
  BY ParsedBlocks
<1>2. /\ All(parsed, "vlan_batch", "words") = All(c, "vlan_batch", "words")
      /\ \A field : All(parsed, "interface", field) = All(c, "interface", field)
  <2> HIDE DEF parsed
  <2> QED
    BY <1>1, SameValues
<1>3. \A f : f[1][1] # "aaa_domains" => (f \in again <=> f \in c)
  <2> DEFINE domains == {<<<<"aaa_domains", o[2]>>, "name", o[2]>> : o \in Objects(c, "aaa_domain")}
  <2>1. again = c \cup domains
    BY DEF extract_aaa_sub_blocks
  <2>2. \A f \in domains : f[1][1] = "aaa_domains"
    OBVIOUS
  <2> HIDE DEF domains, again
  <2> QED
    BY <2>1, <2>2
<1>4. /\ All(again, "vlan_batch", "words") = All(c, "vlan_batch", "words")
      /\ All(again, "vlan", "vlan_id") = All(c, "vlan", "vlan_id")
  <2> HIDE DEF again
  <2> QED
    BY <1>3, SameValues
<1>5. found \subseteq valid_vlans
  <2>1. ASSUME NEW words \in All(again, "vlan_batch", "words")
        PROVE  expand_huawei_vlan_list(words) \subseteq valid_vlans
    <3>1. words \in Seq(Int)
      BY <1>4 DEF vlan_lists, is_vlan_list
    <3> QED
      BY <3>1, ParserFindsVlans
  <2> QED
    BY <2>1
<1>6. parsed = again \cup batch
  BY DEF parse_vlan_batch
<1>7. ASSUME NEW v \in All(parsed, "vlan", "vlan_id") PROVE v \in valid_vlans
  <2>1. PICK f \in parsed : f[1][1] = "vlan" /\ f[2] = "vlan_id" /\ f[3] = v
    BY DEF All, Objects, Values
  <2>2. CASE f \in again
    <3>1. f[1] \in Objects(again, "vlan") /\ v \in Values(again, f[1], "vlan_id")
      BY <2>1, <2>2 DEF Objects, Values
    <3>2. v \in All(again, "vlan", "vlan_id")
      BY <3>1 DEF All
    <3> QED
      BY <1>4, <3>2 DEF vlan_lists
  <2>3. CASE f \in batch
    <3>1. PICK w \in found : f = <<<<"vlan", w>>, "vlan_id", w>>
      BY <2>3
    <3> HIDE DEF found
    <3> QED
      BY <1>5, <2>1, <3>1
  <2> HIDE DEF batch, again, parsed
  <2> QED
    BY <1>6, <2>1, <2>2, <2>3
<1> HIDE DEF parsed
<1> QED
  BY <1>2, <1>7 DEF vlan_lists, parsed

\* The lists of the device are written as VRP writes them.
LEMMA ListsOfDevice ==
    ASSUME TypeOK
    PROVE  vlan_lists(current)
<1> DEFINE c == facts_of(scenario, lines)
<1>1. scenario \in Scenarios /\ lines \in SUBSET scenario.lines
  BY DEF TypeOK
<1>2. vlan_lists(facts_of(scenario, lines))
  BY <1>1, ReviewAssumption
<1>3. current = parse_vlan_batch(extract_aaa_sub_blocks(c))
  BY DEF current, parse, facts
<1> HIDE DEF c
<1> QED
  BY <1>2, <1>3, ParsedLists DEF c

\* The parser and the correlator find the VLANs that a list means, however long
\* it is (_expand_huawei_vlan_list and _expand_vlan_list).
THEOREM Lists == Spec => []ListsExpand
<1>1. TypeOK => ListsExpand
  <2> SUFFICES ASSUME TypeOK,
                      NEW words \in All(current, "vlan_batch", "words")
                          \cup UNION {All(current, "interface", field) : field \in list_fields},
                      words # AllVlans
               PROVE  /\ expand_vlan_list(words) = written(words)
                      /\ expand_huawei_vlan_list(words) = written(words)
    BY DEF ListsExpand
  <2>1. vlan_lists(current)
    BY ListsOfDevice
  <2>2. is_vlan_list(words)
    BY <2>1 DEF vlan_lists
  <2> QED
    BY <2>2, CorrelatorExpands, ParserExpands
<1> QED
  BY <1>1, TypeCorrect, PTL

\* A word list of the configuration is a sequence of numbers.
LEMMA ListsAreSequences ==
    ASSUME NEW c, vlan_lists(c), NEW field \in list_fields, NEW words \in All(c, "interface", field)
    PROVE  words \in Seq(Int)
<1>1. AllVlans \in Seq(Int)
  BY DEF AllVlans, AllWord
<1> QED
  BY <1>1 DEF vlan_lists, is_vlan_list

\* A value of an interface is one of the values of all.
LEMMA ValueOfInterface ==
    ASSUME NEW c, NEW i \in Interfaces(c), NEW field, NEW v \in Values(c, i, field)
    PROVE  v \in All(c, "interface", field)
  BY DEF All, Interfaces

\* What a tracking session finds on an interface and the detector does not count
\* as used is inside a range or a user VLAN, in any configuration.
LEMMA OverlookedVlans ==
    ASSUME NEW c, AreFacts(c), vlan_lists(c), one_encapsulation(c),
           NEW v \in valid_vlans, v \notin collect_vlan_usage(c),
           NEW i, <<i, v>> \in extract_vlan_interfaces_from_device(c)
    PROVE  \/ Is(c, i, "user_vlan", v)
           \/ \E field \in list_fields : \E words \in Values(c, i, field) : Inside(words, v)
<1> DEFINE of_mode(mode) == {j \in Interfaces(c) : Is(c, j, "port_mode", mode)}
           of_type(type) == {j \in Interfaces(c) : Is(c, j, "vlan_type", type)}
           listed(j, fields) ==
               UNION {expand_vlan_list(words) : words \in UNION {Values(c, j, f) : f \in fields}}
           pairs(j, vlans) == {j} \X vlans
           access == UNION {pairs(j, Values(c, j, "access_vlan")) : j \in of_mode("access")}
           trunk == UNION {pairs(j, listed(j, {"trunk_allowed_vlans"})) : j \in of_mode("trunk")}
           hybrid == UNION {pairs(j, listed(j, {"hybrid_tagged_vlans", "hybrid_untagged_vlans"})) :
                               j \in of_mode("hybrid")}
           tagged == UNION {pairs(j, Values(c, j, "vlan_id")) : j \in of_type("dot1q")}
           double == UNION {pairs(j, Values(c, j, "pe_vid")) : j \in of_type("qinq_termination")}
           bound == of_type("l2binding") \X {0}
           user == UNION {pairs(j, Values(c, j, "user_vlan")) : j \in Interfaces(c)}
<1>1. extract_vlan_interfaces_from_device(c)
        = access \cup trunk \cup hybrid \cup tagged \cup double \cup bound \cup user
  BY DEF extract_vlan_interfaces_from_device
<1>2. collect_vlan_usage(c) =
        (UNION {numbers_in(words) : words \in UNION {All(c, "interface", field) : field \in list_fields}})
          \cup (UNION {All(c, "interface", field) :
                          field \in {"access_vlan", "trunk_pvid", "hybrid_pvid",
                                     "pe_vid", "ce_vid", "second_vlan_id"}})
          \cup (UNION {Values(c, j, "vlan_id") : j \in {k \in Interfaces(c) :
                          Is(c, k, "vlan_type", "dot1q") \/ Has(c, k, "vsi_name")}})
          \cup All(c, "stp_instance", "vlans")
  BY DEF collect_vlan_usage, list_fields
<1>3. <<i, v>> \notin access
  <2> SUFFICES ASSUME NEW j \in Interfaces(c), v \in Values(c, j, "access_vlan") PROVE FALSE
    OBVIOUS
  <2> QED
    BY <1>2, ValueOfInterface
<1>4. <<i, v>> \notin double
  <2> SUFFICES ASSUME NEW j \in Interfaces(c), v \in Values(c, j, "pe_vid") PROVE FALSE
    OBVIOUS
  <2> QED
    BY <1>2, ValueOfInterface
<1>5. <<i, v>> \notin tagged
  BY <1>2
<1>6. <<i, v>> \notin bound
  BY Vlans DEF To
<1>7. <<i, v>> \in user => Is(c, i, "user_vlan", v)
  <2> SUFFICES ASSUME v \in Values(c, i, "user_vlan") PROVE Is(c, i, "user_vlan", v)
    OBVIOUS
  <2> QED
    BY ValueIs
<1>8. ASSUME NEW field \in list_fields, i \in Interfaces(c),
             NEW words \in Values(c, i, field), v \in expand_vlan_list(words)
      PROVE  Inside(words, v)
  <2>1. words \in All(c, "interface", field)
    BY <1>8, ValueOfInterface
  <2>2. v \notin numbers_in(words)
    BY <1>2, <2>1
  <2> QED
    BY <1>8, <2>1, <2>2, ListsAreSequences, CorrelatorFinds
<1>9. <<i, v>> \in trunk \cup hybrid =>
        \E field \in list_fields : \E words \in Values(c, i, field) : Inside(words, v)
  <2> SUFFICES ASSUME <<i, v>> \in trunk \cup hybrid
               PROVE  \E field \in list_fields : \E words \in Values(c, i, field) : Inside(words, v)
    OBVIOUS
  <2>1. i \in Interfaces(c) /\ v \in listed(i, list_fields)
    BY DEF list_fields
  <2>2. PICK field \in list_fields : \E words \in Values(c, i, field) : v \in expand_vlan_list(words)
    BY <2>1
  <2>3. PICK words \in Values(c, i, field) : v \in expand_vlan_list(words)
    BY <2>2
  <2> QED
    BY <1>8, <2>1, <2>3
<1> HIDE DEF access, trunk, hybrid, tagged, double, bound, user
<1> QED
  BY <1>1, <1>3, <1>4, <1>5, <1>6, <1>7, <1>9

\* The VLANs that are reported as unused are defined, and none of them counts as
\* used.
LEMMA ReportedUnused ==
    ASSUME NEW c, NEW v \in subjects_of(detect_l2_issues(c), "l2_vlan_defined_unused")
    PROVE  v \in All(c, "vlan", "vlan_id") /\ v \notin collect_vlan_usage(c)
<1>1. PICK row \in detect_l2_issues(c) : row[1] = "l2_vlan_defined_unused" /\ row[2] = v
  BY DEF subjects_of
<1>2. row \in detect_l2_vlan_defined_unused(c)
  <2>1. \A r \in detect_l2_trunk_allow_all(c) : r[1] = "l2_trunk_allow_all_vlans"
    BY InReport DEF detect_l2_trunk_allow_all
  <2>2. \A r \in detect_l2_port_missing_desc(c) :
           r[1] \in {"l2_access_port_missing_description", "l2_trunk_port_missing_description",
                     "l2_hybrid_port_missing_description"}
    BY InReport DEF detect_l2_port_missing_desc, undescribed_ports
  <2>3. \A r \in detect_l2_stp_disabled_trunk(c) : r[1] = "l2_stp_disabled_on_trunk"
    BY InReport DEF detect_l2_stp_disabled_trunk
  <2>4. \A r \in detect_l2_edge_port_trunk(c) : r[1] = "l2_edge_port_on_trunk"
    BY InReport DEF detect_l2_edge_port_trunk
  <2>5. \A r \in detect_l2_vlan_used_not_defined(c) : r[1] = "l2_vlan_used_not_defined"
    BY InReport DEF detect_l2_vlan_used_not_defined
  <2> QED
    BY <1>1, <2>1, <2>2, <2>3, <2>4, <2>5 DEF detect_l2_issues
<1> QED
  BY <1>1, <1>2 DEF detect_l2_vlan_defined_unused, Report

\* A VLAN that is reported as unused although a session tracks it on an interface
\* is inside a range or the user VLAN of that interface (_collect_vlan_usage and
\* _expand_vlan_list read the same lists).
THEOREM UnusedVlans == Spec => []UnusedVlansHide
<1>1. TypeOK => UnusedVlansHide
  <2> SUFFICES ASSUME TypeOK,
                      NEW v \in subjects_of(detect_l2_issues(current), "l2_vlan_defined_unused"),
                      NEW pair \in extract_vlan_interfaces_from_device(current),
                      pair[2] = v
               PROVE  \/ Is(current, pair[1], "user_vlan", v)
                      \/ \E field \in list_fields : \E words \in Values(current, pair[1], field) :
                            \E k \in DOMAIN words :
                               words[k] = To /\ words[k - 1] < v /\ v < words[k + 1]
    BY DEF UnusedVlansHide
  <2>1. vlan_lists(current) /\ one_encapsulation(current) /\ AreFacts(current)
    BY ListsOfDevice, Encapsulated, ParsedFacts
  <2>2. v \in valid_vlans /\ v \notin collect_vlan_usage(current)
    BY <2>1, ReportedUnused DEF vlan_lists
  <2>3. pair = <<pair[1], v>>
    BY DEF extract_vlan_interfaces_from_device
  <2> DEFINE i == pair[1]
  <2>4. <<i, v>> \in extract_vlan_interfaces_from_device(current)
    BY <2>3
  <2> HIDE DEF i
  <2>5. \/ Is(current, i, "user_vlan", v)
        \/ \E field \in list_fields : \E words \in Values(current, i, field) : Inside(words, v)
    BY <2>1, <2>2, <2>4, OverlookedVlans
  <2>6. ASSUME NEW words, Inside(words, v)
        PROVE  \E k \in DOMAIN words : words[k] = To /\ words[k - 1] < v /\ v < words[k + 1]
    BY <2>6 DEF Inside, RangeAt
  <2> QED
    BY <2>5, <2>6 DEF i
<1> QED
  BY <1>1, TypeCorrect, PTL

-----------------------------------------------------------------------------
(* What repairs a missing reference                                         *)

\* Nothing of the one configuration refers to anything unless it is in the other
\* too, in which everything is defined that is defined in that one.
Settles(c, d) ==
    /\ \A f \in d : is_reference(f) => f \in c
    /\ \A f \in c : is_definition(f) => f \in d

\* A field takes no value more when each fact of it is in the other
\* configuration.
LEMMA FewerValues ==
    ASSUME NEW c, NEW d, NEW kind, NEW field, \A f \in d : f[1][1] = kind /\ f[2] = field => f \in c
    PROVE  /\ All(d, kind, field) \subseteq All(c, kind, field)
           /\ \A o : o[1] = kind => Values(d, o, field) \subseteq Values(c, o, field)
<1>1. \A o : o[1] = kind => Values(d, o, field) \subseteq Values(c, o, field)
  BY DEF Values
<1>2. ASSUME NEW v \in All(d, kind, field) PROVE v \in All(c, kind, field)
  <2>1. PICK o \in Objects(d, kind) : v \in Values(d, o, field)
    BY <1>2 DEF All
  <2>2. o[1] = kind
    BY DEF Objects
  <2>3. PICK f \in d : f[2] = field /\ f[1] = o /\ f[3] = v
    BY <2>1 DEF Values
  <2>4. f \in c
    BY <2>2, <2>3
  <2>5. o \in Objects(c, kind) /\ v \in Values(c, o, field)
    BY <2>2, <2>3, <2>4 DEF Objects, Values
  <2> QED
    BY <2>5 DEF All
<1> QED
  BY <1>1, <1>2

\* What refers stays as it was or goes, and what is defined stays or comes.
LEMMA SettledValues ==
    ASSUME NEW c, NEW d, Settles(c, d)
    PROVE  /\ \A kind : \A field \in reference_fields :
                 All(d, kind, field) \subseteq All(c, kind, field)
           /\ \A kind \in {"bgp_vpn", "multicast_vpn", "pim_vpn"} :
                 Names(d, kind) \subseteq Names(c, kind)
           /\ \A kind : \A field \in {"name", "number", "process_id", "type"} :
                 All(c, kind, field) \subseteq All(d, kind, field)
<1>1. ASSUME NEW kind, NEW field \in reference_fields
      PROVE  All(d, kind, field) \subseteq All(c, kind, field)
  <2>1. \A f \in d : f[1][1] = kind /\ f[2] = field => f \in c
    BY DEF Settles, is_reference
  <2> QED
    BY <2>1, FewerValues
<1>2. ASSUME NEW kind \in {"bgp_vpn", "multicast_vpn", "pim_vpn"}
      PROVE  Names(d, kind) \subseteq Names(c, kind)
  <2>1. \A f \in d : f[1][1] = kind /\ f[2] = "name" => f \in c
    BY DEF Settles, is_reference
  <2> QED
    BY <2>1, FewerValues DEF Names
<1>3. ASSUME NEW kind, NEW field \in {"name", "number", "process_id", "type"}
      PROVE  All(c, kind, field) \subseteq All(d, kind, field)
  <2>1. \A f \in c : f[1][1] = kind /\ f[2] = field => f \in d
    BY DEF Settles, is_definition
  <2> QED
    BY <2>1, FewerValues
<1> QED
  BY <1>1, <1>2, <1>3

\* A value that an entry refers to, it referred to before.
LEMMA SettledReference ==
    ASSUME NEW c, NEW d, Settles(c, d), NEW o, NEW field \in reference_fields
    PROVE  /\ Values(d, o, field) \subseteq Values(c, o, field)
           /\ \A kind, v : o \in Objects(d, kind) /\ v \in Values(d, o, field)
                             => o \in Objects(c, kind)
<1>1. ASSUME NEW v \in Values(d, o, field)
      PROVE  \E f \in c : f[1] = o /\ f[2] = field /\ f[3] = v
  <2>1. PICK f \in d : f[2] = field /\ f[1] = o /\ f[3] = v
    BY DEF Values
  <2> QED
    BY <2>1 DEF Settles, is_reference
<1>2. ASSUME NEW kind, NEW v, o \in Objects(d, kind), v \in Values(d, o, field)
      PROVE  o \in Objects(c, kind)
  <2>1. o[1] = kind
    BY <1>2 DEF Objects
  <2> QED
    BY <1>1, <1>2, <2>1 DEF Objects
<1> QED
  BY <1>1, <1>2 DEF Values

\* So no entry dangles that did not.
LEMMA SettledDangling ==
    ASSUME NEW c, NEW d, Settles(c, d), NEW kind, NEW field \in reference_fields,
           NEW C, NEW D, C \subseteq D
    PROVE  Dangling(d, kind, field, D) \subseteq Dangling(c, kind, field, C)
<1> SUFFICES ASSUME NEW o \in Dangling(d, kind, field, D)
             PROVE  o \in Objects(c, kind) /\ ~(Values(c, o, field) \subseteq C)
  BY DEF Dangling
<1>1. o \in Objects(d, kind)
  BY DEF Dangling
<1>2. PICK v \in Values(d, o, field) : v \notin D
  BY DEF Dangling
<1> QED
  BY <1>1, <1>2, SettledReference

\* A report of fewer subjects has fewer rows.
LEMMA FewerRows ==
    ASSUME NEW v, NEW S, NEW T, S \subseteq T
    PROVE  Report(v, S) \subseteq Report(v, T)
  BY DEF Report

\* No check of descriptions and next hops has one of these codes.
LEMMA BaseReferences ==
    ASSUME NEW c, NEW row \in detect_base_issues(c), row[1] \in missing_codes
    PROVE  FALSE
  BY CodeOf DEF missing_codes, detect_base_issues, detect_interface_no_description,
        detect_subinterface_no_description, detect_static_route_no_description,
        detect_bgp_peer_no_description, detect_unreachable_next_hop

\* Nor has one about switching.
LEMMA SwitchingReferences ==
    ASSUME NEW c, NEW row \in detect_l2_issues(c), row[1] \in missing_codes
    PROVE  FALSE
<1>1. row \notin detect_l2_port_missing_desc(c)
  <2> DEFINE ports(p) == {i \in Lacking(c, "interface", "description") :
                            Is(c, i, "port_mode", p[1])}
  <2>1. detect_l2_port_missing_desc(c) = UNION {Report(p[2], ports(p)) : p \in undescribed_ports}
    BY DEF detect_l2_port_missing_desc
  <2> HIDE DEF ports
  <2>2. row \in detect_l2_port_missing_desc(c) => \E p \in undescribed_ports : row[1] = p[2]
    BY <2>1, CodeOf
  <2>3. \A p \in undescribed_ports : p[2] \notin missing_codes
    BY DEF undescribed_ports, missing_codes
  <2> QED
    BY <2>2, <2>3
<1> QED
  BY <1>1, CodeOf DEF missing_codes, detect_l2_issues, detect_l2_trunk_allow_all,
        detect_l2_stp_disabled_trunk, detect_l2_edge_port_trunk,
        detect_l2_vlan_used_not_defined, detect_l2_vlan_defined_unused

\* Nor one about overlays and OLTs.
LEMMA VendorReferences ==
    ASSUME NEW c, NEW row \in detect_huawei_advanced_issues(c) \cup detect_zte_olt_issues(c),
           row[1] \in missing_codes
    PROVE  FALSE
<1>1. row \notin detect_huawei_advanced_issues(c)
  BY CodeOf DEF missing_codes, detect_huawei_advanced_issues
<1>2. row \notin detect_zte_olt_issues(c)
  BY CodeOf DEF missing_codes, detect_zte_olt_issues
<1> QED
  BY <1>1, <1>2

\* The names of ACLs stay.
LEMMA SettledAcls ==
    ASSUME NEW c, NEW d, Settles(c, d)
    PROVE  get_acl_names(c) \subseteq get_acl_names(d)
  BY SettledValues DEF get_acl_names, Names

\* No ACL of the management plane goes missing.
LEMMA ManagementReferences ==
    ASSUME NEW c, NEW d, Settles(c, d), NEW row \in detect_management_issues(d),
           row[1] \in missing_codes
    PROVE  row \in detect_management_issues(c)
<1> DEFINE refs(x) == All(x, "snmp", "acl_refs")
                        \cup All(x, "vty", "acl_inbound") \cup All(x, "vty", "acl_outbound")
           missing(x) == {r \in refs(x) : /\ r \notin enrich_acl_references(x, refs(x))
                                          /\ r \notin All(x, "acl", "number")}
<1>1. row \in detect_management_acl_not_found(d)
  <2>1. /\ row \notin detect_snmp_v2c(d) /\ row \notin detect_snmp_write_community(d)
        /\ row \notin detect_snmp_without_acl(d) /\ row \notin detect_telnet_enabled(d)
    BY CodeOf DEF missing_codes, detect_snmp_v2c, detect_snmp_write_community,
                  detect_snmp_without_acl, detect_telnet_enabled
  <2>2. /\ row \notin detect_local_user_high_privilege(d) /\ row \notin detect_ntp_without_auth(d)
        /\ row \notin detect_syslog_without_loghost(d) /\ row \notin detect_vty_without_acl(d)
    BY CodeOf DEF missing_codes, detect_local_user_high_privilege, detect_ntp_without_auth,
                  detect_syslog_without_loghost, detect_vty_without_acl
  <2> QED
    BY <2>1, <2>2 DEF detect_management_issues
<1>2. \A x : detect_management_acl_not_found(x)
               = Report("management_acl_reference_not_found", missing(x))
  BY DEF detect_management_acl_not_found
<1>3. missing(d) \subseteq missing(c)
  <2>1. refs(d) \subseteq refs(c)
    BY SettledValues DEF reference_fields
  <2>2. get_acl_names(c) \subseteq get_acl_names(d)
    BY SettledAcls
  <2>3. All(c, "acl", "number") \subseteq All(d, "acl", "number")
    BY SettledValues
  <2>4. \A x : enrich_acl_references(x, refs(x)) = {r \in refs(x) : r \in get_acl_names(x)}
    BY DEF enrich_acl_references
  <2> HIDE DEF refs
  <2> QED
    BY <2>1, <2>2, <2>3, <2>4
<1> HIDE DEF missing
<1>4. row \in detect_management_acl_not_found(c)
  BY <1>1, <1>2, <1>3, FewerRows
<1> QED
  BY <1>4 DEF detect_management_issues

\* No filter of a policy goes missing, and no policy of a peer.
LEMMA PolicyReferences ==
    ASSUME NEW c, NEW d, Settles(c, d), NEW row \in detect_policy_issues(d),
           row[1] \in missing_codes
    PROVE  row \in detect_policy_issues(c)
<1> DEFINE paths(x) == All(x, "route_policy", "as-path-filter") \ Names(x, "as_path_filter")
           communities(x) == All(x, "route_policy", "community-filter") \ Names(x, "community_filter")
           missing(x) == Report("route_policy_as_path_filter_not_found", paths(x))
                           \cup Report("route_policy_community_filter_not_found", communities(x))
                           \cup Report("bgp_route_policy_not_found", missing_policies(x))
<1>1. row \in missing(d)
  <2>1. row \notin orphan_policy_issues(d) /\ row \notin permit_any_issues(d)
    BY CodeOf DEF missing_codes, orphan_policy_issues, permit_any_issues
  <2>2. row \in route_policy_node_issues(d)
          => row \in Report("route_policy_as_path_filter_not_found", paths(d))
                       \cup Report("route_policy_community_filter_not_found", communities(d))
    BY CodeOf DEF missing_codes, route_policy_node_issues
  <2> QED
    BY <2>1, <2>2 DEF detect_policy_issues, find_policy_issues
<1>2. missing(c) \subseteq detect_policy_issues(c)
  BY DEF detect_policy_issues, find_policy_issues, route_policy_node_issues
<1>3. paths(d) \subseteq paths(c) /\ communities(d) \subseteq communities(c)
  BY SettledValues DEF reference_fields, Names
<1>4. missing_policies(d) \subseteq missing_policies(c)
  <2> SUFFICES ASSUME NEW ref \in missing_policies(d) PROVE ref \in missing_policies(c)
    OBVIOUS
  <2>1. PICK p \in Objects(d, "bgp_peer"), field \in policy_directions, v \in referenced_policies(d) :
          ref = <<p, field, v>>
    BY DEF missing_policies
  <2>2. v \in Values(d, p, field) /\ v \notin Names(d, "route_policy")
    BY <2>1 DEF missing_policies
  <2>3. field \in reference_fields
    BY DEF policy_directions, reference_fields
  <2>4. v \in Values(c, p, field) /\ p \in Objects(c, "bgp_peer")
    BY <2>1, <2>2, <2>3, SettledReference
  <2>5. v \notin Names(c, "route_policy")
    BY <2>2, SettledValues DEF Names
  <2>6. v \in referenced_policies(c)
    BY <2>4 DEF referenced_policies, policies_of, policy_directions
  <2> QED
    BY <2>1, <2>4, <2>5, <2>6 DEF missing_policies
<1> HIDE DEF paths, communities
<1> QED
  BY <1>1, <1>2, <1>3, <1>4, FewerRows

\* No ISIS process of an interface goes missing.
LEMMA CoreReferences ==
    ASSUME NEW c, NEW d, Settles(c, d), NEW row \in detect_core_issues(d), row[1] \in missing_codes
    PROVE  row \in detect_core_issues(c)
<1>1. row \in detect_isis_interface_unknown_process(d)
  BY CodeOf DEF missing_codes, detect_core_issues, detect_ospf_passive_missing,
        detect_ospf_redistribution_without_filter, detect_isis_without_network_entity,
        detect_ospf_no_router_id, detect_isis_plain_authentication,
        detect_mpls_without_lsr_id, detect_ldp_without_mpls, detect_interface_ldp_without_mpls,
        detect_mpls_interface_without_ldp, detect_ldp_remote_peer_without_ip
<1>2. Dangling(d, "interface", "isis_process_id", All(d, "isis", "process_id"))
        \subseteq Dangling(c, "interface", "isis_process_id", All(c, "isis", "process_id"))
  <2>1. All(c, "isis", "process_id") \subseteq All(d, "isis", "process_id")
    BY SettledValues
  <2>2. "isis_process_id" \in reference_fields
    BY DEF reference_fields
  <2> QED
    BY <2>1, <2>2, SettledDangling
<1>3. row \in detect_isis_interface_unknown_process(c)
  BY <1>1, <1>2, FewerRows DEF detect_isis_interface_unknown_process
<1> QED
  BY <1>3 DEF detect_core_issues

\* No VPN instance goes missing.
LEMMA VpnReferences ==
    ASSUME NEW c, NEW d, Settles(c, d), NEW row \in detect_vpn_issues(d), row[1] \in missing_codes
    PROVE  row \in detect_vpn_issues(c)
<1>1. \/ row \in detect_interface_vpn_instance_not_found(d)
      \/ row \in detect_static_route_vpn_instance_not_found(d)
      \/ row \in detect_bgp_vpn_instance_not_found(d)
  BY CodeOf DEF missing_codes, detect_vpn_issues, detect_vpn_instance_without_rt,
        detect_vpn_instance_without_rd, detect_vpnv4_peer_not_enabled,
        detect_vpn_instance_without_interface,
        detect_vpn_instance_without_routes, detect_duplicate_route_distinguisher
<1>2. get_vpn_instance_names(c) \subseteq get_vpn_instance_names(d)
  BY SettledValues DEF get_vpn_instance_names, Names
<1>3. \A kind : Dangling(d, kind, "vpn_instance", get_vpn_instance_names(d))
                  \subseteq Dangling(c, kind, "vpn_instance", get_vpn_instance_names(c))
  <2>1. "vpn_instance" \in reference_fields
    BY DEF reference_fields
  <2> QED
    BY <1>2, <2>1, SettledDangling
<1>4. Names(d, "bgp_vpn") \ get_vpn_instance_names(d)
        \subseteq Names(c, "bgp_vpn") \ get_vpn_instance_names(c)
  BY <1>2, SettledValues
<1>5. \/ row \in detect_interface_vpn_instance_not_found(c)
      \/ row \in detect_static_route_vpn_instance_not_found(c)
      \/ row \in detect_bgp_vpn_instance_not_found(c)
  BY <1>1, <1>3, <1>4, FewerRows DEF detect_interface_vpn_instance_not_found,
     detect_static_route_vpn_instance_not_found, detect_bgp_vpn_instance_not_found
<1> QED
  BY <1>5 DEF detect_vpn_issues

\* Nothing that is applied to an interface goes missing.
LEMMA SettledApplied ==
    ASSUME NEW c, NEW d, Settles(c, d), NEW field \in reference_fields, NEW C, NEW D, C \subseteq D
    PROVE  applied_undefined(d, field, D) \subseteq applied_undefined(c, field, C)
<1> SUFFICES ASSUME NEW ref \in applied_undefined(d, field, D)
             PROVE  ref \in applied_undefined(c, field, C)
  OBVIOUS
<1>1. PICK i \in Interfaces(d), applied \in All(d, "interface", field) : ref = <<i, applied>>
  BY DEF applied_undefined
<1>2. applied \in Values(d, i, field) /\ applied[1] \notin D
  BY <1>1 DEF applied_undefined
<1>3. applied \in Values(c, i, field) /\ i \in Interfaces(c)
  BY <1>1, <1>2, SettledReference DEF Interfaces
<1>4. applied \in All(c, "interface", field)
  BY <1>3 DEF All, Interfaces
<1> QED
  BY <1>1, <1>2, <1>3, <1>4 DEF applied_undefined

\* Nothing of a traffic policy goes missing.
LEMMA QosReferences ==
    ASSUME NEW c, NEW d, Settles(c, d), NEW row \in detect_qos_issues(d), row[1] \in missing_codes
    PROVE  row \in detect_qos_issues(c)
<1>1. \/ row \in detect_traffic_policy_not_found(d)
      \/ row \in detect_traffic_classifier_not_found(d)
      \/ row \in detect_traffic_behavior_not_found(d)
      \/ row \in detect_qos_classifier_acl_not_found(d)
      \/ row \in detect_qos_profile_not_found(d)
  BY CodeOf DEF missing_codes, detect_qos_issues, detect_traffic_classifier_orphan,
        detect_traffic_policy_orphan, detect_traffic_behavior_orphan, detect_qos_profile_orphan,
        detect_qos_car_without_red_discard, detect_customer_interface_without_qos
<1>2. {"traffic_policies_applied", "qos_profiles_applied", "classifier", "behavior", "if_match_acl"}
        \subseteq reference_fields
  BY DEF reference_fields
<1>3. \A kind : Names(c, kind) \subseteq Names(d, kind)
  BY SettledValues DEF Names
<1>4. /\ applied_undefined(d, "traffic_policies_applied", Names(d, "traffic_policy"))
           \subseteq applied_undefined(c, "traffic_policies_applied", Names(c, "traffic_policy"))
      /\ applied_undefined(d, "qos_profiles_applied", Names(d, "qos_profile"))
           \subseteq applied_undefined(c, "qos_profiles_applied", Names(c, "qos_profile"))
  BY <1>2, <1>3, SettledApplied
<1>5. /\ All(d, "traffic_policy", "classifier") \ Names(d, "traffic_classifier")
           \subseteq All(c, "traffic_policy", "classifier") \ Names(c, "traffic_classifier")
      /\ All(d, "traffic_policy", "behavior") \ Names(d, "traffic_behavior")
           \subseteq All(c, "traffic_policy", "behavior") \ Names(c, "traffic_behavior")
      /\ All(d, "traffic_classifier", "if_match_acl") \ get_acl_names(d)
           \subseteq All(c, "traffic_classifier", "if_match_acl") \ get_acl_names(c)
  BY <1>2, <1>3, SettledValues, SettledAcls
<1>6. /\ detect_traffic_policy_not_found(d) \subseteq detect_traffic_policy_not_found(c)
      /\ detect_qos_profile_not_found(d) \subseteq detect_qos_profile_not_found(c)
      /\ detect_traffic_classifier_not_found(d) \subseteq detect_traffic_classifier_not_found(c)
      /\ detect_traffic_behavior_not_found(d) \subseteq detect_traffic_behavior_not_found(c)
      /\ detect_qos_classifier_acl_not_found(d) \subseteq detect_qos_classifier_acl_not_found(c)
  BY <1>4, <1>5, FewerRows DEF detect_traffic_policy_not_found, detect_qos_profile_not_found,
     detect_traffic_classifier_not_found, detect_traffic_behavior_not_found,
     detect_qos_classifier_acl_not_found
<1> QED
  BY <1>1, <1>6 DEF detect_qos_issues

\* No ACL, address group or VPN instance of NAT goes missing.
LEMMA NatReferences ==
    ASSUME NEW c, NEW d, Settles(c, d), NEW row \in detect_nat_issues(d), row[1] \in missing_codes
    PROVE  row \in detect_nat_issues(c)
<1>1. \/ row \in detect_nat_acl_not_found(d)
      \/ row \in detect_nat_address_group_not_found(d)
      \/ row \in detect_nat_vpn_instance_not_found(d)
  BY CodeOf DEF missing_codes, detect_nat_issues, detect_nat_outbound_without_address_group,
        detect_nat_address_group_orphan, detect_nat_static_private_global_ip,
        detect_nat_server_sensitive_port, detect_nat_server_without_protocol,
        detect_nat_interface_missing_description, detect_nat_alg_sip_enabled
<1>2. {"acl", "address_group", "vpn_instance"} \subseteq reference_fields
  BY DEF reference_fields
<1>3. \A kind : Names(c, kind) \subseteq Names(d, kind)
  BY SettledValues DEF Names
<1>4. /\ All(d, "nat_outbound", "acl") \ get_acl_names(d)
           \subseteq All(c, "nat_outbound", "acl") \ get_acl_names(c)
      /\ All(d, "nat_outbound", "address_group") \ get_nat_address_group_names(d)
           \subseteq All(c, "nat_outbound", "address_group") \ get_nat_address_group_names(c)
  BY <1>2, <1>3, SettledValues, SettledAcls DEF get_nat_address_group_names
<1> DEFINE missing(x, kind) == Dangling(x, kind, "vpn_instance", get_vpn_instance_names(x))
<1>5. \A kind : missing(d, kind) \subseteq missing(c, kind)
  BY <1>2, <1>3, SettledDangling DEF get_vpn_instance_names
<1>6. \A x : detect_nat_vpn_instance_not_found(x)
               = Report("nat_vpn_instance_not_found",
                        UNION {missing(x, kind) : kind \in {"nat_address_group", "nat_outbound"}})
  BY DEF detect_nat_vpn_instance_not_found
<1> HIDE DEF missing
<1>7. (UNION {missing(d, kind) : kind \in {"nat_address_group", "nat_outbound"}})
        \subseteq UNION {missing(c, kind) : kind \in {"nat_address_group", "nat_outbound"}}
  BY <1>5
<1>8. /\ detect_nat_acl_not_found(d) \subseteq detect_nat_acl_not_found(c)
      /\ detect_nat_address_group_not_found(d) \subseteq detect_nat_address_group_not_found(c)
      /\ detect_nat_vpn_instance_not_found(d) \subseteq detect_nat_vpn_instance_not_found(c)
  BY <1>4, <1>6, <1>7, FewerRows DEF detect_nat_acl_not_found, detect_nat_address_group_not_found
<1> QED
  BY <1>1, <1>8 DEF detect_nat_issues

\* No domain of a BAS interface goes missing, and nothing of a domain.
LEMMA BngReferences ==
    ASSUME NEW c, NEW d, Settles(c, d), switched_on(c), NEW row \in detect_bng_issues(d),
           row[1] \in missing_codes
    PROVE  row \in detect_bng_issues(c)
<1> DEFINE unserved(x) == {i \in bas_interfaces(x) :
                             ~(Values(x, i, "bas.default_domain") \subseteq domain_names(x))}
           missing(x, ref) == Dangling(x, "aaa_domain", ref[2], Names(x, ref[3]))
           checks == {<<"bas_interface_without_authentication_method", "bas.authentication_method">>,
                      <<"bas_interface_without_user_vlan", "user_vlan">>,
                      <<"bas_interface_missing_description", "description">>}
<1>1. row \notin detect_radius_issues(d)
  BY CodeOf DEF missing_codes, detect_radius_issues
<1>2. row \in detect_bas_issues(d) => row \in Report("bas_domain_not_found", unserved(d))
  <2>1. \A check \in checks : check[1] \notin missing_codes
    BY DEF missing_codes
  <2>2. row \in detect_bas_issues(d)
          => \/ row \in Report("bas_domain_not_found", unserved(d))
             \/ \E check \in checks : row[1] = check[1]
    BY CodeOf DEF detect_bas_issues
  <2> HIDE DEF checks, unserved
  <2> QED
    BY <2>1, <2>2
<1>3. row \in detect_domain_issues(d)
        => \E ref \in domain_references : ref[1] \in missing_codes /\ row \in Report(ref[1], missing(d, ref))
  <2> DEFINE unaccounted == Lacking(d, "aaa_domain", "accounting_scheme")
                              \cup Lacking(d, "aaa_domains", "accounting_scheme")
  <2>1. detect_domain_issues(d) = (UNION {Report(ref[1], missing(d, ref)) : ref \in domain_references})
                                    \cup Report("domain_without_accounting", unaccounted)
    BY DEF detect_domain_issues
  <2>2. row \notin Report("domain_without_accounting", unaccounted)
    BY CodeOf DEF missing_codes
  <2> HIDE DEF missing, unaccounted
  <2> QED
    BY <2>1, <2>2, CodeOf
<1>4. \A kind : Names(c, kind) \subseteq Names(d, kind)
  BY SettledValues DEF Names
<1>5. ASSUME NEW ref \in domain_references, ref[1] \in missing_codes
      PROVE  missing(d, ref) \subseteq missing(c, ref)
  <2>1. ref[2] \in reference_fields
    BY <1>5 DEF domain_references, missing_codes, reference_fields
  <2> QED
    BY <1>4, <2>1, SettledDangling
<1>6. unserved(d) \subseteq unserved(c)
  <2> SUFFICES ASSUME NEW i \in unserved(d) PROVE i \in unserved(c)
    OBVIOUS
  <2>1. i \in Objects(d, "interface")
    BY DEF bas_interfaces, Interfaces
  <2>2. PICK v \in Values(d, i, "bas.default_domain") : v \notin domain_names(d)
    OBVIOUS
  <2>3. i \in Interfaces(c) /\ v \in Values(c, i, "bas.default_domain")
    BY <2>1, <2>2, SettledReference DEF reference_fields, Interfaces
  <2>4. Has(c, i, "bas.enabled")
    BY <2>3 DEF switched_on, Has, Values
  <2>5. v \notin domain_names(c)
    BY <1>4, <2>2 DEF domain_names
  <2> QED
    BY <2>3, <2>4, <2>5 DEF bas_interfaces
<1>7. CASE row \in detect_bas_issues(d)
  <2>1. row \in Report("bas_domain_not_found", unserved(c))
    BY <1>2, <1>6, <1>7, FewerRows
  <2>2. Report("bas_domain_not_found", unserved(c)) \subseteq detect_bas_issues(c)
    BY DEF detect_bas_issues
  <2> QED
    BY <2>1, <2>2 DEF detect_bng_issues
<1>8. CASE row \in detect_domain_issues(d)
  <2>1. PICK ref \in domain_references : ref[1] \in missing_codes /\ row \in Report(ref[1], missing(d, ref))
    BY <1>3, <1>8
  <2>2. row \in Report(ref[1], missing(c, ref))
    BY <1>5, <2>1, FewerRows
  <2>3. Report(ref[1], missing(c, ref)) \subseteq detect_domain_issues(c)
    BY DEF detect_domain_issues
  <2> QED
    BY <2>2, <2>3 DEF detect_bng_issues
<1> QED
  BY <1>1, <1>7, <1>8 DEF detect_bng_issues

\* No Virtual-Template of a PPPoE server goes missing, and no pool of a
\* Virtual-Template.
LEMMA PppoeReferences ==
    ASSUME NEW c, NEW d, Settles(c, d), AreFacts(c), AreFacts(d),
           switched_on(c), one_type(c), one_type(d),
           NEW row \in detect_pppoe_issues(d), row[1] \in missing_codes
    PROVE  row \in detect_pppoe_issues(c)
<1> DEFINE unserved(x) ==
               {i \in pppoe_servers(x) :
                   ~(Values(x, i, "pppoe.virtual_template") \subseteq vt_names(x))}
           dry(x) == {i \in virtual_templates(x) :
                        ~(Values(x, i, "remote_address_pool") \subseteq Names(x, "ip_pool"))}
<1>1. row \in detect_pppoe_server_issues(d)
        => row \in Report("pppoe_virtual_template_not_found", unserved(d))
  <2> HIDE DEF unserved
  <2>1. detect_pppoe_server_issues(d) =
          Report("pppoe_virtual_template_not_found", unserved(d))
            \cup Report("pppoe_interface_without_bas", pppoe_servers(d) \ bas_interfaces(d))
            \cup Report("pppoe_interface_without_domain",
                        {i \in pppoe_servers(d) \cap bas_interfaces(d) :
                            ~Has(d, i, "bas.default_domain")})
            \cup Report("pppoe_interface_without_user_vlan",
                        {i \in pppoe_servers(d) : ~Has(d, i, "user_vlan")})
            \cup Report("pppoe_without_max_sessions",
                        {i \in pppoe_servers(d) : ~Has(d, i, "pppoe.max_sessions")})
    BY DEF detect_pppoe_server_issues, unserved
  <2> QED
    BY <2>1, CodeOf DEF missing_codes
<1>2. row \in detect_virtual_template_issues(d)
        => row \in Report("virtual_template_pool_not_found", dry(d))
  BY CodeOf DEF missing_codes, detect_virtual_template_issues
<1>3. /\ Report("pppoe_virtual_template_not_found", unserved(c)) \subseteq detect_pppoe_issues(c)
      /\ Report("virtual_template_pool_not_found", dry(c)) \subseteq detect_pppoe_issues(c)
  BY DEF detect_pppoe_issues, detect_pppoe_server_issues, detect_virtual_template_issues
<1>4. virtual_templates(c) \subseteq virtual_templates(d)
  <2> SUFFICES ASSUME NEW i \in virtual_templates(c) PROVE i \in virtual_templates(d)
    OBVIOUS
  <2> DEFINE f == <<i, "type", "virtual-template">>
  <2>1. f \in c /\ f[1] = i /\ f[2] = "type" /\ i[1] = "interface"
    BY DEF virtual_templates, Is, Interfaces, Objects
  <2>2. f \in d
    BY <2>1 DEF Settles, is_definition
  <2> QED
    BY <2>1, <2>2 DEF virtual_templates, Is, Interfaces, Objects
<1>5. vt_names(c) \subseteq vt_names(d)
  <2>1. \A i : Values(c, i, "name") \subseteq Values(d, i, "name")
    BY DEF Values, Settles, is_definition
  <2> QED
    BY <1>4, <2>1 DEF vt_names
<1>6. unserved(d) \subseteq unserved(c)
  <2> SUFFICES ASSUME NEW i \in unserved(d) PROVE i \in unserved(c)
    OBVIOUS
  <2>1. i \in Objects(d, "interface")
    BY DEF pppoe_servers, Interfaces
  <2>2. PICK v \in Values(d, i, "pppoe.virtual_template") : v \notin vt_names(d)
    OBVIOUS
  <2>3. i \in Interfaces(c) /\ v \in Values(c, i, "pppoe.virtual_template")
    BY <2>1, <2>2, SettledReference DEF reference_fields, Interfaces
  <2>4. Has(c, i, "pppoe.enabled")
    BY <2>3 DEF switched_on, Has, Values
  <2> QED
    BY <1>5, <2>2, <2>3, <2>4 DEF pppoe_servers
<1>7. dry(d) \subseteq dry(c)
  <2> SUFFICES ASSUME NEW i \in dry(d) PROVE i \in dry(c)
    OBVIOUS
  <2>1. i \in Objects(d, "interface") /\ Is(d, i, "type", "virtual-template")
    BY DEF virtual_templates, Interfaces
  <2>2. PICK v \in Values(d, i, "remote_address_pool") : v \notin Names(d, "ip_pool")
    OBVIOUS
  <2>3. i \in Interfaces(c) /\ v \in Values(c, i, "remote_address_pool")
    BY <2>1, <2>2, SettledReference DEF reference_fields, Interfaces
  <2>4. PICK type \in Values(c, i, "type") : Values(c, i, "type") = {type}
    BY <2>3 DEF one_type
  <2>5. type \in Values(d, i, "type")
    <3>1. PICK f \in c : f[2] = "type" /\ f[1] = i /\ f[3] = type
      BY <2>4 DEF Values
    <3> QED
      BY <3>1 DEF Settles, is_definition, Values
  <2>6. type = "virtual-template"
    BY <2>1, <2>5, ValueIs DEF one_type, Interfaces
  <2>7. i \in virtual_templates(c)
    BY <2>3, <2>4, <2>6, ValueIs DEF virtual_templates
  <2>8. v \notin Names(c, "ip_pool")
    BY <2>2, SettledValues DEF Names
  <2> QED
    BY <2>3, <2>7, <2>8
<1> HIDE DEF unserved, dry
<1> QED
  BY <1>1, <1>2, <1>3, <1>6, <1>7, FewerRows DEF detect_pppoe_issues

\* No interface of a BFD session goes missing.
LEMMA HaReferences ==
    ASSUME NEW c, NEW d, Settles(c, d), NEW row \in detect_ha_issues(d), row[1] \in missing_codes
    PROVE  row \in detect_ha_issues(c)
<1> DEFINE missing(x) == Dangling(x, "bfd_session", "interface", Names(x, "interface"))
<1>1. row \in detect_bfd_session_issues(d)
        => row \in Report("bfd_session_interface_not_found", missing(d))
  BY CodeOf DEF missing_codes, detect_bfd_session_issues
<1>2. row \notin detect_bfd_coverage_issues(d)
  BY CodeOf DEF missing_codes, detect_bfd_coverage_issues
<1>3. row \notin detect_restart_issues(d)
  <2> DEFINE unprotected(kind) ==
               \E o \in Lacking(d, kind, "nsr_enabled") : Has(d, o, "graceful_restart")
             ldp == Flag(d, "mpls_ldp", "enabled") /\ ~Flag(d, "graceful_restart", "ldp")
  <2>1. detect_restart_issues(d)
          = (UNION {ReportIf("graceful_restart_without_nsr", unprotected(kind)) :
                       kind \in {"isis", "ospf"}})
              \cup ReportIf("ldp_without_graceful_restart", ldp)
    BY DEF detect_restart_issues
  <2> HIDE DEF unprotected, ldp
  <2> QED
    BY <2>1, CodeOf DEF missing_codes
<1>4. row \notin detect_igp_bfd_issues(d)
  BY CodeOf DEF missing_codes, detect_igp_bfd_issues
<1>5. missing(d) \subseteq missing(c)
  <2>1. Names(c, "interface") \subseteq Names(d, "interface")
    BY SettledValues DEF Names
  <2>2. "interface" \in reference_fields
    BY DEF reference_fields
  <2> QED
    BY <2>1, <2>2, SettledDangling
<1>6. Report("bfd_session_interface_not_found", missing(c)) \subseteq detect_ha_issues(c)
  BY DEF detect_ha_issues, detect_bfd_session_issues
<1> HIDE DEF missing
<1> QED
  BY <1>1, <1>2, <1>3, <1>4, <1>5, <1>6, FewerRows DEF detect_ha_issues

\* No VPN instance of a multicast or PIM instance goes missing.
LEMMA MulticastReferences ==
    ASSUME NEW c, NEW d, Settles(c, d), NEW row \in detect_multicast_issues(d),
           row[1] \in missing_codes
    PROVE  row \in detect_multicast_issues(c)
<1> DEFINE missing(x) == (Names(x, "multicast_vpn") \cup Names(x, "pim_vpn")) \ Names(x, "vpn_instance")
<1>1. row \in Report("multicast_vpn_instance_not_found", missing(d))
  BY CodeOf DEF missing_codes, detect_multicast_issues, detect_multicast_interface_issues,
        detect_multicast_global_issues
<1>2. missing(d) \subseteq missing(c)
  <2>1. Names(c, "vpn_instance") \subseteq Names(d, "vpn_instance")
    BY SettledValues DEF Names
  <2> QED
    BY <2>1, SettledValues
<1>3. Report("multicast_vpn_instance_not_found", missing(c)) \subseteq detect_multicast_issues(c)
  BY DEF detect_multicast_issues, detect_multicast_global_issues
<1> HIDE DEF missing
<1> QED
  BY <1>1, <1>2, <1>3, FewerRows

\* Of what refers to something no more goes missing in any part of the
\* configuration.
LEMMA ReferencesStay ==
    ASSUME NEW c, NEW d, Settles(c, d), AreFacts(c), AreFacts(d),
           switched_on(c), one_type(c), one_type(d)
    PROVE  {row \in detect_issues(d) : row[1] \in missing_codes} \subseteq detect_issues(c)
<1> SUFFICES ASSUME NEW row \in detect_issues(d), row[1] \in missing_codes
             PROVE  row \in detect_issues(c)
  OBVIOUS
<1>1. /\ row \notin detect_base_issues(d) /\ row \notin detect_l2_issues(d)
      /\ row \notin detect_huawei_advanced_issues(d) /\ row \notin detect_zte_olt_issues(d)
  BY BaseReferences, SwitchingReferences, VendorReferences
<1>2. /\ row \in detect_management_issues(d) => row \in detect_management_issues(c)
      /\ row \in detect_policy_issues(d) => row \in detect_policy_issues(c)
      /\ row \in detect_core_issues(d) => row \in detect_core_issues(c)
      /\ row \in detect_vpn_issues(d) => row \in detect_vpn_issues(c)
      /\ row \in detect_qos_issues(d) => row \in detect_qos_issues(c)
      /\ row \in detect_nat_issues(d) => row \in detect_nat_issues(c)
  BY ManagementReferences, PolicyReferences, CoreReferences, VpnReferences, QosReferences,
     NatReferences
<1>3. /\ row \in detect_bng_issues(d) => row \in detect_bng_issues(c)
      /\ row \in detect_pppoe_issues(d) => row \in detect_pppoe_issues(c)
      /\ row \in detect_ha_issues(d) => row \in detect_ha_issues(c)
      /\ row \in detect_multicast_issues(d) => row \in detect_multicast_issues(c)
  BY BngReferences, PppoeReferences, HaReferences, MulticastReferences
<1> QED
  BY <1>1, <1>2, <1>3 DEF detect_issues

\* What the parser adds refers to nothing, and defines domains only that have a
\* block.
LEMMA ParsedSettle ==
    ASSUME NEW c, NEW d, Settles(c, d), named_blocks(c)
    PROVE  Settles(parse_vlan_batch(extract_aaa_sub_blocks(c)),
                   parse_vlan_batch(extract_aaa_sub_blocks(d)))
<1> DEFINE domains(x) == {<<<<"aaa_domains", o[2]>>, "name", o[2]>> : o \in Objects(x, "aaa_domain")}
           again(x) == extract_aaa_sub_blocks(x)
           batch(x) == {<<<<"vlan", v>>, "vlan_id", v>> :
                           v \in UNION {expand_huawei_vlan_list(words) :
                                           words \in All(again(x), "vlan_batch", "words")}}
           parsed(x) == parse_vlan_batch(again(x))
<1>1. \A x : parsed(x) = (x \cup domains(x)) \cup batch(x)
  BY DEF extract_aaa_sub_blocks, parse_vlan_batch
<1>2. \A x : \A f \in batch(x) : ~is_reference(f) /\ ~is_definition(f)
  BY DEF is_reference, is_definition, reference_fields
<1>3. \A x : \A f \in domains(x) : ~is_reference(f)
  BY DEF is_reference, reference_fields
<1>4. domains(c) \subseteq domains(d)
  <2> SUFFICES ASSUME NEW o \in Objects(c, "aaa_domain")
               PROVE  o \in Objects(d, "aaa_domain")
    OBVIOUS
  <2>1. o[2] \in Values(c, o, "name") /\ o[1] = "aaa_domain"
    BY DEF named_blocks, Objects
  <2>2. PICK f \in c : f[2] = "name" /\ f[1] = o
    BY <2>1 DEF Values
  <2>3. f \in d
    BY <2>2 DEF Settles, is_definition
  <2> QED
    BY <2>1, <2>2, <2>3 DEF Objects
<1> HIDE DEF domains, batch, parsed
<1>5. Settles(parsed(c), parsed(d))
  BY <1>1, <1>2, <1>3, <1>4 DEF Settles
<1> QED
  BY <1>5 DEF parsed

\* What is known of the configuration of lines that are in their blocks.
LEMMA ParsedLines ==
    ASSUME NEW s \in Scenarios, NEW entered, InBlocks(s, entered)
    PROVE  LET c == facts_of(s, entered)
               parsed == parse_vlan_batch(extract_aaa_sub_blocks(c))
           IN  /\ named_blocks(c)
               /\ AreFacts(parsed) /\ switched_on(parsed) /\ one_type(parsed)
<1> DEFINE c == facts_of(s, entered)
           domains == {<<<<"aaa_domains", o[2]>>, "name", o[2]>> : o \in Objects(c, "aaa_domain")}
           again == extract_aaa_sub_blocks(c)
           batch == {<<<<"vlan", v>>, "vlan_id", v>> :
                        v \in UNION {expand_huawei_vlan_list(words) :
                                        words \in All(again, "vlan_batch", "words")}}
           parsed == parse_vlan_batch(extract_aaa_sub_blocks(c))
<1>1. entered \in SUBSET s.lines /\ \A l \in entered : l.needs \subseteq c
  BY DEF InBlocks
<1>2. AreFacts(c) /\ switched_on(c) /\ named_blocks(c)
  BY <1>1, ReviewAssumption
<1>3. AreFacts(domains) /\ AreFacts(batch)
  BY DEF AreFacts
<1>4. parsed = (c \cup domains) \cup batch
  BY DEF extract_aaa_sub_blocks, parse_vlan_batch
<1>5. \A f : f[1][1] \notin {"aaa_domains", "vlan"} => (f \in parsed <=> f \in c)
  BY ParsedBlocks
<1> HIDE DEF c, domains, batch, parsed
<1>6. AreFacts(parsed)
  BY <1>2, <1>3, <1>4 DEF AreFacts
<1>7. one_type(parsed)
  BY <1>2, <1>5, SameNames DEF named_blocks
<1>8. switched_on(parsed)
  <2>1. Interfaces(parsed) = Interfaces(c) /\ \A i \in Interfaces(c) : i[1] = "interface"
    BY <1>5 DEF Interfaces, Objects
  <2>2. \A i \in Interfaces(c) : \A field : Has(parsed, i, field) <=> Has(c, i, field)
    BY <1>5, <2>1 DEF Has
  <2> QED
    BY <1>2, <2>1, <2>2 DEF switched_on
<1> QED
  BY <1>2, <1>6, <1>7, <1>8 DEF c, parsed

\* Where more lines are entered no more references are missing, unless one of
\* the facts that come refers to something; and likewise where lines are undone.
LEMMA MissingReferences ==
    ASSUME scenario \in Scenarios,
           NEW few, NEW many, InBlocks(scenario, few), InBlocks(scenario, many),
           few \subseteq many, ~refers(facts(many) \ facts(few))
    PROVE  missing_references(many) \subseteq missing_references(few)
<1> DEFINE c == facts(few)
           d == facts(many)
           p == parse_vlan_batch(extract_aaa_sub_blocks(c))
           q == parse_vlan_batch(extract_aaa_sub_blocks(d))
<1>1. Settles(c, d)
  <2>1. \A f \in d : is_reference(f) => f \in c
    BY DEF refers
  <2>2. ASSUME NEW f \in c, is_definition(f) PROVE f \in d
    <3>1. few \subseteq scenario.lines
      BY DEF InBlocks
    <3>2. \A l \in scenario.lines : f \notin l.otherwise
      BY <2>2, ReviewAssumption
    <3>3. f \in scenario.fixed \/ \E l \in few : f \in l.adds
      BY <3>2 DEF facts, facts_of
    <3> QED
      BY <3>3 DEF facts, facts_of
  <2> QED
    BY <2>1, <2>2 DEF Settles
<1>2. /\ named_blocks(c) /\ AreFacts(p) /\ switched_on(p) /\ one_type(p)
      /\ AreFacts(q) /\ one_type(q)
  BY ParsedLines DEF facts
<1> HIDE DEF c, d
<1>3. Settles(p, q)
  BY <1>1, <1>2, ParsedSettle
<1>4. parse(few) = p /\ parse(many) = q
  BY DEF parse, c, d
<1> HIDE DEF p, q
<1>5. {row \in detect_issues(q) : row[1] \in missing_codes} \subseteq detect_issues(p)
  BY <1>2, <1>3, ReferencesStay
<1> QED
  BY <1>4, <1>5 DEF missing_references

\* A line that refers to nothing never makes a reference dangle when it is
\* entered and never repairs one when it is undone, whatever was entered before:
\* the checks for what is not found (_detect_*_not_found) look at nothing but
\* what refers and what is defined.
THEOREM References == Spec => ReferencesSettle
<1>1. ASSUME TypeOK, TypeOK', [Next]_vars
      PROVE  [/\ just_taken /\ lines \subseteq lines' /\ ~refers(facts(lines') \ facts(lines))
                   => missing_references(lines') \subseteq missing_references(lines)
              /\ just_taken /\ lines' \subseteq lines /\ ~refers(facts(lines) \ facts(lines'))
                   => missing_references(lines) \subseteq missing_references(lines')]_vars
  <2>1. scenario' = scenario
    BY <1>1 DEF Next, EnterLine, UndoLine, TakeSnapshot, vars
  <2>2. scenario \in Scenarios /\ InBlocks(scenario, lines)
    BY <1>1 DEF TypeOK, InBlocks, facts
  <2>3. InBlocks(scenario, lines')
    BY <1>1, <2>1 DEF TypeOK, InBlocks, facts
  <2> QED
    BY <2>2, <2>3, MissingReferences
<1> QED
  BY <1>1, TypeCorrect, PTL DEF Spec, ReferencesSettle

-----------------------------------------------------------------------------
(* What a comparison without a change says                                  *)

\* A record of sections without a change has none in any section.
LEMMA NoSection ==
    ASSUME NEW sections, sections_changed(sections) = {}
    PROVE  \A s \in DOMAIN sections : ~any_change(sections[s])
  BY DEF sections_changed

\* Without a change both sides have the same keys, and none of those differs.
LEMMA NoDiff ==
    ASSUME NEW before, NEW after, NEW different, ~any_change(Diff(before, after, different))
    PROVE  before = after /\ before \cap different = {}
  BY DEF any_change, Diff

\* A fact of the one configuration only is a changed field of its entry.
LEMMA ChangedField ==
    ASSUME NEW b, NEW t, NEW f \in differing(b, t), NEW fields, changed_fields(b, t, f[1], fields) = {}
    PROVE  f[2] \notin fields
  BY DEF changed_fields

\* Such a fact belongs to an entry of one of the two.
LEMMA OfAnEntry ==
    ASSUME NEW b, NEW t, NEW f \in differing(b, t)
    PROVE  f[1] \in Objects(b, f[1][1]) \cup Objects(t, f[1][1])
  BY DEF differing, Objects

\* A list whose entries are compared in some fields has the same entries on
\* both sides, and they agree in those.
LEMMA EntriesAgree ==
    ASSUME NEW b, NEW t, NEW kind, NEW fields,
           ~any_change(compare_fields(b, t, Objects(b, kind), Objects(t, kind), fields))
    PROVE  /\ Objects(b, kind) = Objects(t, kind)
           /\ \A f \in differing(b, t) : f[1][1] = kind => f[2] \notin fields
<1>1. /\ Objects(b, kind) = Objects(t, kind)
      /\ Objects(b, kind) \cap {o \in Objects(b, kind) : changed_fields(b, t, o, fields) # {}} = {}
  BY NoDiff DEF compare_fields
<1>2. ASSUME NEW f \in differing(b, t), f[1][1] = kind PROVE f[2] \notin fields
  <2>1. f[1] \in Objects(b, kind)
    BY <1>1, <1>2, OfAnEntry
  <2>2. changed_fields(b, t, f[1], fields) = {}
    BY <1>1, <2>1
  <2> QED
    BY <2>2, ChangedField
<1> QED
  BY <1>1, <1>2

\* A list whose entries are compared whole is the same on both sides.
LEMMA KindAgrees ==
    ASSUME NEW b, NEW t, NEW kind, ~any_change(compare_kind(b, t, kind))
    PROVE  /\ Objects(b, kind) = Objects(t, kind)
           /\ \A f \in differing(b, t) : f[1][1] # kind
<1>1. /\ Objects(b, kind) = Objects(t, kind)
      /\ Objects(b, kind) \cap {f[1] : f \in differing(b, t)} = {}
  BY NoDiff DEF compare_kind, compare_whole
<1>2. ASSUME NEW f \in differing(b, t), f[1][1] = kind PROVE FALSE
  BY <1>1, <1>2, OfAnEntry
<1> QED
  BY <1>1, <1>2

\* The interfaces with a role agree in the fields compared for it.
LEMMA RoleAgrees ==
    ASSUME NEW b, NEW t, NEW role, NEW fields,
           ~any_change(compare_fields(b, t, InterfacesOf(b, role), InterfacesOf(t, role), fields)),
           NEW f \in differing(b, t), f[1] \in Interfaces(b) \cap Interfaces(t),
           Has(b, f[1], role) \/ Has(t, f[1], role)
    PROVE  f[2] \notin fields
<1>1. /\ InterfacesOf(b, role) = InterfacesOf(t, role)
      /\ InterfacesOf(b, role)
           \cap {o \in InterfacesOf(b, role) : changed_fields(b, t, o, fields) # {}} = {}
  BY NoDiff DEF compare_fields
<1>2. f[1] \in InterfacesOf(b, role)
  BY <1>1 DEF InterfacesOf
<1>3. changed_fields(b, t, f[1], fields) = {}
  BY <1>1, <1>2
<1> QED
  BY <1>3, ChangedField

\* What is configured once agrees in a field that is not reported as different.
LEMMA SettingAgrees ==
    ASSUME NEW b, NEW t, NEW kind, NEW field, ~differ(b, t, kind, field),
           NEW f \in differing(b, t), f[1] = <<kind, "">>
    PROVE  f[2] # field
<1>1. changed_fields(b, t, f[1], {field}) = {}
  BY DEF differ
<1> QED
  BY <1>1, ChangedField

\* The sections of the comparison that have no change when nothing is shown.
LEMMA QuietLists ==
    ASSUME NEW b, NEW t, compare_config_snapshots(b, t) = {}
    PROVE  /\ ~any_change(compare_interfaces(b, t))
           /\ ~any_change(compare_static_routes(b, t))
           /\ ~any_change(compare_bgp(b, t).peers)
           /\ ~any_change(compare_bgp(b, t).networks)
           /\ ~any_change(compare_isis(b, t).processes)
           /\ ~any_change(compare_vpn_instances(b, t))
           /\ ~any_change(compare_vlans(b, t))
           /\ ~any_change(compare_stp(b, t).instances)
           /\ ~any_change(compare_mpls_ldp(b, t).remote_peers)
           /\ ~any_change(compare_ip_prefixes(b, t))
           /\ ~any_change(compare_route_policies(b, t))
           /\ ~any_change(compare_acls(b, t))
           /\ ~any_change(compare_as_path_filters(b, t))
           /\ ~any_change(compare_community_filters(b, t))
           /\ ~any_change(compare_huawei_advanced(b, t))
           /\ ~any_change(compare_mpls(b, t).interfaces)
           /\ ~any_change(compare_mpls_ldp(b, t).interfaces)
<1>1. sections_changed(lists(b, t)) = {}
  BY DEF compare_config_snapshots
<1>2. \A s \in DOMAIN lists(b, t) : ~any_change(lists(b, t)[s])
  BY <1>1, NoSection
<1>3. {"interfaces", "static_routes", "peers", "networks", "isis", "vpn_instances", "vlans", "stp",
       "ldp_remote_peers", "ip_prefixes", "route_policies", "acls", "as_path_filters",
       "community_filters", "huawei_advanced", "mpls", "ldp_interfaces"} \subseteq DOMAIN lists(b, t)
  BY DEF lists
<1>4. /\ lists(b, t)["interfaces"] = compare_interfaces(b, t)
      /\ lists(b, t)["static_routes"] = compare_static_routes(b, t)
      /\ lists(b, t)["peers"] = compare_bgp(b, t).peers
      /\ lists(b, t)["networks"] = compare_bgp(b, t).networks
      /\ lists(b, t)["isis"] = compare_isis(b, t).processes
      /\ lists(b, t)["vpn_instances"] = compare_vpn_instances(b, t)
      /\ lists(b, t)["vlans"] = compare_vlans(b, t)
      /\ lists(b, t)["stp"] = compare_stp(b, t).instances
      /\ lists(b, t)["ldp_remote_peers"] = compare_mpls_ldp(b, t).remote_peers
      /\ lists(b, t)["ip_prefixes"] = compare_ip_prefixes(b, t)
      /\ lists(b, t)["route_policies"] = compare_route_policies(b, t)
      /\ lists(b, t)["acls"] = compare_acls(b, t)
      /\ lists(b, t)["as_path_filters"] = compare_as_path_filters(b, t)
      /\ lists(b, t)["community_filters"] = compare_community_filters(b, t)
      /\ lists(b, t)["huawei_advanced"] = compare_huawei_advanced(b, t)
      /\ lists(b, t)["mpls"] = compare_mpls(b, t).interfaces
      /\ lists(b, t)["ldp_interfaces"] = compare_mpls_ldp(b, t).interfaces
  BY DEF lists
<1> QED
  BY <1>2, <1>3, <1>4

\* Nor has any of the sections of IPv6, of subscriber access, of high
\* availability, of multicast and of an OLT.
LEMMA QuietSections ==
    ASSUME NEW b, NEW t, compare_config_snapshots(b, t) = {}
    PROVE  /\ \A s \in {"interfaces", "routes", "bgp_peers", "bgp_networks", "prefix_lists",
                        "vpnv6_peers", "ospfv3", "isis_ipv6"} : ~any_change(compare_ipv6(b, t)[s])
           /\ \A s \in {"subscriber_domains", "radius_groups", "ip_pools", "bas_interfaces",
                        "pppoe_interfaces", "virtual_templates"} : ~any_change(compare_bng(b, t)[s])
           /\ \A s \in {"bfd", "bgp_ha", "isis_ha", "nsr"} : ~any_change(compare_ha(b, t)[s])
           /\ \A s \in {"global", "pim", "igmp", "igmp_snooping", "mld", "vpn_instances"} :
                 ~any_change(compare_multicast(b, t)[s])
           /\ \A s \in {"pon_ports", "onus", "service_ports", "vlans"} :
                 ~any_change(compare_zte_olt(b, t)[s])
           /\ ~other_changes(b, t)
<1>1. /\ sections_changed(compare_ipv6(b, t)) = {}
      /\ sections_changed(compare_bng(b, t)) = {}
      /\ sections_changed(compare_ha(b, t)) = {}
      /\ sections_changed(compare_multicast(b, t)) = {}
      /\ sections_changed(compare_zte_olt(b, t)) = {}
      /\ ~other_changes(b, t)
  BY DEF compare_config_snapshots
<1>2. /\ {"interfaces", "routes", "bgp_peers", "bgp_networks", "prefix_lists", "vpnv6_peers",
          "ospfv3", "isis_ipv6"}
           \subseteq DOMAIN compare_ipv6(b, t)
      /\ {"subscriber_domains", "radius_groups", "ip_pools", "bas_interfaces", "pppoe_interfaces",
          "virtual_templates"} \subseteq DOMAIN compare_bng(b, t)
      /\ {"bfd", "bgp_ha", "isis_ha", "nsr"} \subseteq DOMAIN compare_ha(b, t)
      /\ {"global", "pim", "igmp", "igmp_snooping", "mld", "vpn_instances"}
           \subseteq DOMAIN compare_multicast(b, t)
      /\ {"pon_ports", "onus", "service_ports", "vlans"} \subseteq DOMAIN compare_zte_olt(b, t)
  BY DEF compare_ipv6, compare_bng, compare_ha, compare_multicast, compare_zte_olt
<1> QED
  BY <1>1, <1>2, NoSection

\* The lists of PIM and of IGMP snooping also stand for their global settings.
LEMMA QuietSnooping ==
    ASSUME NEW b, NEW t, compare_config_snapshots(b, t) = {}
    PROVE  /\ ~any_change(compare_interface_role(b, t, "pim_enabled", {"pim_mode", "pim_hello_holdtime"}))
           /\ ~any_change(compare_fields(b, t, Objects(b, "igmp_snooping_vlan"),
                  Objects(t, "igmp_snooping_vlan"), {"enabled", "version", "querier_enabled"}))
           /\ \A field \in pim_global : ~differ(b, t, "pim", field)
           /\ pim_mode(b) = pim_mode(t)
           /\ ~differ(b, t, "igmp_snooping", "global_enabled")
<1> DEFINE also(d, condition, section) ==
              IF condition THEN [d EXCEPT !.changed = @ \cup {<<section, "">>}] ELSE d
           pim == compare_interface_role(b, t, "pim_enabled", {"pim_mode", "pim_hello_holdtime"})
           snooping == compare_fields(b, t, Objects(b, "igmp_snooping_vlan"),
                           Objects(t, "igmp_snooping_vlan"), {"enabled", "version", "querier_enabled"})
           settings == pim_changed(b, t)
           globally == differ(b, t, "igmp_snooping", "global_enabled")
<1>1. ~any_change(compare_multicast(b, t).pim) /\ ~any_change(compare_multicast(b, t).igmp_snooping)
  BY QuietSections
<1>2. /\ ~any_change(also(pim, settings, "pim"))
      /\ ~any_change(also(snooping, globally, "igmp_snooping"))
  BY <1>1 DEF compare_multicast
<1>3. /\ pim = [added |-> pim.added, removed |-> pim.removed, changed |-> pim.changed]
      /\ snooping = [added |-> snooping.added, removed |-> snooping.removed, changed |-> snooping.changed]
  BY DEF compare_interface_role, compare_fields, Diff
<1>4. ASSUME NEW d, d = [added |-> d.added, removed |-> d.removed, changed |-> d.changed],
             NEW condition \in BOOLEAN, NEW section, ~any_change(also(d, condition, section))
      PROVE  ~condition /\ ~any_change(d)
  BY <1>4 DEF any_change
<1> HIDE DEF pim, snooping, settings, globally, also
<1>5. settings \in BOOLEAN /\ globally \in BOOLEAN
  BY DEF settings, globally, differ, pim_changed
<1>6. ~settings /\ ~any_change(pim) /\ ~globally /\ ~any_change(snooping)
  BY <1>2, <1>3, <1>4, <1>5
<1> QED
  BY <1>6 DEF pim, snooping, settings, globally, pim_changed

\* A comparison in which nothing is shown covers the blocks compared whole.
LEMMA KindsCompared ==
    ASSUME NEW b, NEW t, compare_config_snapshots(b, t) = {}, AreFacts(b), AreFacts(t),
           named_blocks(b), named_blocks(t), NEW f \in differing(b, t)
    PROVE  f[1][1] \notin compared_kinds
<1>1. \A kind \in {"route_policy", "acl", "as_path_filter", "community_filter",
                   "nat_address_group", "vpnv6_peer", "ospfv3", "pim_vpn", "zte_pon", "zte_onu",
                   "zte_service_port", "zte_vlan"} : ~any_change(compare_kind(b, t, kind))
  <2>1. \A kind \in {"route_policy", "acl", "as_path_filter", "community_filter"} :
           ~any_change(compare_kind(b, t, kind))
    BY QuietLists DEF compare_route_policies, compare_acls, compare_as_path_filters,
                      compare_community_filters
  <2>2. ~any_change(compare_kind(b, t, "nat_address_group"))
    <3>1. ~any_change(compare_nat(b, t).address_groups)
      BY QuietSections DEF other_changes
    <3> QED
      BY <3>1 DEF compare_nat
  <2>3. ~any_change(compare_kind(b, t, "vpnv6_peer")) /\ ~any_change(compare_kind(b, t, "ospfv3"))
    <3>1. ~any_change(compare_ipv6(b, t).vpnv6_peers) /\ ~any_change(compare_ipv6(b, t).ospfv3)
      BY QuietSections
    <3> QED
      BY <3>1 DEF compare_ipv6
  <2>4. ~any_change(compare_kind(b, t, "pim_vpn"))
    <3>1. ~any_change(compare_multicast(b, t).vpn_instances)
      BY QuietSections
    <3> QED
      BY <3>1 DEF compare_multicast
  <2>5. \A kind \in {"zte_pon", "zte_onu", "zte_service_port", "zte_vlan"} :
           ~any_change(compare_kind(b, t, kind))
    <3>1. \A s \in {"pon_ports", "onus", "service_ports", "vlans"} :
             ~any_change(compare_zte_olt(b, t)[s])
      BY QuietSections
    <3> QED
      BY <3>1 DEF compare_zte_olt
  <2> QED
    BY <2>1, <2>2, <2>3, <2>4, <2>5
<1>2. f[1][1] # "stp_region"
  <2>1. ~compare_stp(b, t).region_changed
    BY QuietSections DEF other_changes
  <2>2. regions(b) = regions(t)
    BY <2>1 DEF compare_stp
  <2> QED
    BY <2>2 DEF regions, differing
<1>3. f[1][1] \notin huawei_categories
  <2>1. ~any_change(compare_huawei_advanced(b, t))
    BY QuietLists
  <2> DEFINE before == enabled_categories(b)
             after == enabled_categories(t)
             edited == {g[1][1] : g \in differing(b, t)} \cap huawei_categories
  <2>2. /\ before \subseteq after /\ after \subseteq before
        /\ \A k \in edited : ~(k \in before <=> k \in after)
    BY <2>1 DEF compare_huawei_advanced, any_change
  <2>3. f[1][1] \in huawei_categories => f[1][1] \in edited
    OBVIOUS
  <2> HIDE DEF before, after, edited
  <2> QED
    BY <2>2, <2>3
<1>4. f[1][1] # "vpn_af"
  <2> SUFFICES ASSUME f[1][1] = "vpn_af" PROVE FALSE
    OBVIOUS
  <2>1. ~any_change(compare_vpn_instances(b, t))
    BY QuietLists
  <2>2. Objects(b, "vpn_instance") = Objects(t, "vpn_instance")
    BY <2>1, NoDiff DEF compare_vpn_instances
  <2>3. \A v \in Objects(b, "vpn_instance") : families(b, v) = families(t, v)
    BY <2>1, NoDiff DEF compare_vpn_instances
  <2>4. ASSUME NEW c \in {b, t}, f \in c PROVE \E v \in Objects(b, "vpn_instance") : f \in families(c, v)
    <3>1. f[1] \in Objects(c, "vpn_af")
      BY <2>4 DEF Objects
    <3>2. PICK n \in Values(c, f[1], "vpn_instance") : n \in Names(c, "vpn_instance")
      BY <3>1 DEF named_blocks
    <3>3. Is(c, f[1], "vpn_instance", n)
      BY <3>2 DEF Values, AreFacts, Is
    <3>4. PICK v \in Objects(c, "vpn_instance") : n \in Values(c, v, "name")
      BY <3>2 DEF Names, All
    <3>5. v[2] = n
      BY <3>4 DEF named_blocks
    <3>6. f \in families(c, v)
      BY <2>4, <3>1, <3>3, <3>5 DEF families
    <3> QED
      BY <2>2, <3>4, <3>6
  <2>5. f \in b \/ f \in t
    BY DEF differing
  <2>6. PICK v \in Objects(b, "vpn_instance") : f \in families(b, v) \/ f \in families(t, v)
    BY <2>4, <2>5
  <2>7. f \in b /\ f \in t
    BY <2>3, <2>6 DEF families
  <2> QED
    BY <2>7 DEF differing
<1>5. \A kind \in {"route_policy", "acl", "as_path_filter", "community_filter",
                   "nat_address_group", "vpnv6_peer", "ospfv3", "pim_vpn", "zte_pon", "zte_onu",
                   "zte_service_port", "zte_vlan"} : f[1][1] # kind
  BY <1>1, KindAgrees
<1> QED
  BY <1>2, <1>3, <1>4, <1>5 DEF compared_kinds

\* The address pools are the same, agree in their fields, and their sections
\* start at the same addresses.
LEMMA QuietPools ==
    ASSUME NEW b, NEW t, ~any_change(compare_bng_ip_pools(b, t))
    PROVE  /\ ~any_change(compare_fields(b, t, Objects(b, "ip_pool"), Objects(t, "ip_pool"),
                 {"gateway", "mask", "lease", "radius_server_group", "mode", "type", "dns_servers"}))
           /\ Objects(b, "ip_pool") = Objects(t, "ip_pool")
           /\ \A p \in Objects(b, "ip_pool") : starts(b, p) = starts(t, p)
<1> DEFINE changed == {p \in Objects(b, "ip_pool") : pool_changes(b, t, p) # {}}
           fields == {"gateway", "mask", "lease", "radius_server_group", "mode", "type", "dns_servers"}
<1>1. Objects(b, "ip_pool") = Objects(t, "ip_pool") /\ Objects(b, "ip_pool") \cap changed = {}
  <2>1. ~any_change(Diff(Objects(b, "ip_pool"), Objects(t, "ip_pool"), changed))
    BY DEF compare_bng_ip_pools
  <2> HIDE DEF changed
  <2> QED
    BY <2>1, NoDiff
<1>2. \A p \in Objects(b, "ip_pool") : pool_changes(b, t, p) = {}
  BY <1>1
<1>3. \A p \in Objects(b, "ip_pool") : changed_fields(b, t, p, fields) = {} /\ starts(b, p) = starts(t, p)
  BY <1>2 DEF pool_changes
<1> HIDE DEF fields
<1>4. ~any_change(compare_fields(b, t, Objects(b, "ip_pool"), Objects(t, "ip_pool"), fields))
  BY <1>1, <1>3 DEF compare_fields, Diff, any_change
<1> QED
  BY <1>1, <1>3, <1>4 DEF fields

\* The blocks that are compared in some fields are the same on both sides, and
\* agree in those.
LEMMA FieldsCompared ==
    ASSUME NEW b, NEW t, compare_config_snapshots(b, t) = {}
    PROVE  /\ \A kind \in {"interface", "bgp_peer", "vlan", "isis", "vpn_instance", "aaa_domain",
                           "radius_server", "ip_pool", "bfd_session", "nat_address_group",
                           "stp_instance", "ldp_remote_peer", "igmp_snooping_vlan",
                           "bgp_ipv6_peer", "bgp_ipv6_network"} :
                 Objects(b, kind) = Objects(t, kind)
           /\ \A f \in differing(b, t) : <<f[1][1], f[2]>> \notin compared_fields
<1> DEFINE agree(kind, fields) == /\ Objects(b, kind) = Objects(t, kind)
                                  /\ \A f \in differing(b, t) : f[1][1] = kind => f[2] \notin fields
<1>1. agree("interface", {"description", "ip_address", "vlan_id", "second_vlan_id", "vsi_name",
                          "shutdown", "port_mode", "access_vlan", "trunk_allowed_vlans",
                          "trunk_pvid", "stp_enabled", "stp_disabled", "stp_edge_port"})
  <2> DEFINE fields == {"description", "ip_address", "vlan_id", "second_vlan_id", "vsi_name",
                        "shutdown", "port_mode", "access_vlan", "trunk_allowed_vlans", "trunk_pvid",
                        "stp_enabled", "stp_disabled", "stp_edge_port"}
  <2>1. ~any_change(compare_interfaces(b, t))
    BY QuietLists
  <2>2. compare_interfaces(b, t)
          = compare_fields(b, t, Objects(b, "interface"), Objects(t, "interface"), fields)
    BY DEF compare_interfaces, detect_iface_changes, compare_fields, Interfaces
  <2> HIDE DEF fields
  <2>3. agree("interface", fields)
    BY <2>1, <2>2, EntriesAgree
  <2> QED
    BY <2>3 DEF fields
<1>2. \A f \in differing(b, t) : f[1][1] = "interface" => f[2] # "traffic_policies_applied"
  <2>1. compare_qos(b, t).bindings = {}
    BY QuietSections DEF other_changes, compare_qos
  <2>2. \A i \in Interfaces(b) \cup Interfaces(t) :
           changed_fields(b, t, i, {"traffic_policies_applied"}) = {}
    BY <2>1 DEF compare_qos
  <2> QED
    BY <2>2, OfAnEntry, ChangedField DEF Interfaces
<1>3. \A f \in differing(b, t) : f[1][1] = "interface" => f[2] # "ipv6_addresses"
  <2> SUFFICES ASSUME NEW f \in differing(b, t), f[1][1] = "interface", f[2] = "ipv6_addresses"
               PROVE  FALSE
    OBVIOUS
  <2>1. ~any_change(compare_ipv6(b, t).interfaces)
    BY QuietSections
  <2>2. ~any_change(compare_fields(b, t, InterfacesOf(b, "ipv6_addresses"),
                                   InterfacesOf(t, "ipv6_addresses"), {"ipv6_addresses"}))
    BY <2>1 DEF compare_ipv6, compare_interface_role
  <2>3. f[1] \in Interfaces(b) \cap Interfaces(t)
    BY <1>1, OfAnEntry DEF Interfaces
  <2>4. Has(b, f[1], "ipv6_addresses") \/ Has(t, f[1], "ipv6_addresses")
    BY DEF differing, Has
  <2> QED
    BY <2>2, <2>3, <2>4, RoleAgrees
<1>4. agree("bgp_peer", bgp_fields)
  BY QuietLists, EntriesAgree DEF compare_bgp
<1>5. \A f \in differing(b, t) : f[1][1] = "bgp_peer" => f[2] \notin {"bfd_enabled", "graceful_restart"}
  <2>1. ~any_change(compare_ha(b, t).bgp_ha)
    BY QuietSections
  <2>2. Objects(b, "bgp_peer") \cap Objects(t, "bgp_peer") = Objects(b, "bgp_peer")
        /\ Objects(b, "bgp_peer") = Objects(t, "bgp_peer")
    BY <1>4
  <2>3. ~any_change(compare_fields(b, t, Objects(b, "bgp_peer"), Objects(t, "bgp_peer"),
                                   {"bfd_enabled", "graceful_restart"}))
    BY <2>1, <2>2 DEF compare_ha
  <2> QED
    BY <2>3, EntriesAgree
<1>6. agree("vlan", {"description", "name"})
  BY QuietLists, EntriesAgree DEF compare_vlans
<1>7. agree("isis", {"network_entity", "is_level", "cost_style", "import_routes"})
  <2>1. /\ Objects(b, "isis") = Objects(t, "isis")
        /\ \A p \in Objects(b, "isis") : isis_process_changes(b, t, p) = {}
    <3> DEFINE common == Objects(b, "isis") \cap Objects(t, "isis")
               changed == {p \in common : \/ isis_process_changes(b, t, p) # {}
                                          \/ any_change(isis_interface_changes(b, t, p))}
    <3>1. ~any_change(Diff(Objects(b, "isis"), Objects(t, "isis"), changed))
      BY QuietLists DEF compare_isis
    <3>2. Objects(b, "isis") = Objects(t, "isis") /\ Objects(b, "isis") \cap changed = {}
      <4> HIDE DEF changed
      <4> QED
        BY <3>1, NoDiff
    <3> QED
      BY <3>2
  <2> QED
    BY <2>1, OfAnEntry, ChangedField DEF isis_process_changes
<1>8. /\ Objects(b, "vpn_instance") = Objects(t, "vpn_instance")
      /\ \A f \in differing(b, t) : f[1][1] = "vpn_instance" => f[2] # "description"
  <2>1. /\ Objects(b, "vpn_instance") = Objects(t, "vpn_instance")
        /\ \A v \in Objects(b, "vpn_instance") : changed_fields(b, t, v, {"description"}) = {}
    <3> DEFINE changed == {v \in Objects(b, "vpn_instance") :
                             \/ changed_fields(b, t, v, {"description"}) # {}
                             \/ families(b, v) # families(t, v)}
    <3>1. ~any_change(Diff(Objects(b, "vpn_instance"), Objects(t, "vpn_instance"), changed))
      BY QuietLists DEF compare_vpn_instances
    <3>2. /\ Objects(b, "vpn_instance") = Objects(t, "vpn_instance")
          /\ Objects(b, "vpn_instance") \cap changed = {}
      <4> HIDE DEF changed
      <4> QED
        BY <3>1, NoDiff
    <3> QED
      BY <3>2
  <2> QED
    BY <2>1, OfAnEntry, ChangedField
<1>9. /\ agree("aaa_domain", {"authentication_scheme", "accounting_scheme", "authorization_scheme",
                              "radius_server_group", "ip_pool", "dns_primary", "dns_secondary"})
      /\ agree("radius_server", {"authentication_servers", "accounting_servers", "retransmit",
                                 "timeout", "shared_key_type"})
      /\ agree("ip_pool", {"gateway", "mask", "lease", "radius_server_group", "mode", "type",
                           "dns_servers"})
  <2>1. /\ ~any_change(compare_bng(b, t).subscriber_domains)
        /\ ~any_change(compare_bng(b, t).radius_groups)
        /\ ~any_change(compare_bng(b, t).ip_pools)
    BY QuietSections
  <2>2. /\ ~any_change(compare_bng_domains(b, t))
        /\ ~any_change(compare_bng_radius_groups(b, t))
        /\ ~any_change(compare_bng_ip_pools(b, t))
    BY <2>1 DEF compare_bng
  <2>3. ~any_change(compare_fields(b, t, Objects(b, "radius_server"), Objects(t, "radius_server"),
                        {"authentication_servers", "accounting_servers", "retransmit", "timeout",
                         "shared_key_type"}))
    BY <2>2 DEF compare_bng_radius_groups, radius_changes, compare_fields
  <2>4. ~any_change(compare_fields(b, t, Objects(b, "ip_pool"), Objects(t, "ip_pool"),
                        {"gateway", "mask", "lease", "radius_server_group", "mode", "type",
                         "dns_servers"}))
    BY <2>2, QuietPools
  <2> QED
    BY <2>2, <2>3, <2>4, EntriesAgree DEF compare_bng_domains
<1>10. agree("bfd_session", {"peer_ip", "peer_ipv6", "interface", "local_discriminator",
                             "remote_discriminator", "min_tx_interval", "min_rx_interval",
                             "detect_multiplier", "committed"})
  <2>1. ~any_change(compare_ha(b, t).bfd)
    BY QuietSections
  <2> QED
    BY <2>1, EntriesAgree DEF compare_ha
<1>11. /\ agree("bgp_ipv6_peer", {"enabled", "route_policy_import", "route_policy_export"})
       /\ agree("bgp_ipv6_network", {})
  <2>1. /\ ~any_change(compare_ipv6(b, t).bgp_peers)
        /\ ~any_change(compare_ipv6(b, t).bgp_networks)
    BY QuietSections
  <2> QED
    BY <2>1, EntriesAgree DEF compare_ipv6
<1>12. agree("igmp_snooping_vlan", {"enabled", "version", "querier_enabled"})
  BY QuietSnooping, EntriesAgree
<1>13. agree("stp_instance", {"vlans"}) /\ agree("ldp_remote_peer", {"remote_ip"})
  BY QuietLists, EntriesAgree DEF compare_stp, compare_mpls_ldp
<1>14. Objects(b, "nat_address_group") = Objects(t, "nat_address_group")
  <2>1. ~any_change(compare_nat(b, t).address_groups)
    BY QuietSections DEF other_changes
  <2> QED
    BY <2>1, KindAgrees DEF compare_nat
<1>15. ASSUME NEW f \in differing(b, t), <<f[1][1], f[2]>> \in compared_fields PROVE FALSE
  BY <1>1, <1>2, <1>3, <1>4, <1>5, <1>6, <1>7, <1>8, <1>9, <1>10, <1>11, <1>12, <1>13, <1>15
     DEF compared_fields
<1> QED
  BY <1>1, <1>4, <1>6, <1>7, <1>8, <1>9, <1>10, <1>11, <1>12, <1>13, <1>14, <1>15

\* Neither do the settings that a comparison looks at differ.
LEMMA SettingsCompared ==
    ASSUME NEW b, NEW t, compare_config_snapshots(b, t) = {}, NEW f \in differing(b, t),
           f[1] = <<f[1][1], "">>
    PROVE  <<f[1][1], f[2]>> \notin compared_settings /\ f[1][1] # "nat_alg"
<1>1. \A field \in {"enabled", "lsr_id", "te_enabled"} : ~differ(b, t, "mpls", field)
  <2>1. compare_mpls(b, t).fields = {}
    BY QuietSections DEF other_changes
  <2> QED
    BY <2>1 DEF compare_mpls
<1>2. \A field \in {"enabled", "graceful_restart"} : ~differ(b, t, "mpls_ldp", field)
  <2>1. compare_mpls_ldp(b, t).fields = {}
    BY QuietSections DEF other_changes
  <2> QED
    BY <2>1 DEF compare_mpls_ldp
<1>3. \A field \in {"ipv4_routing_enabled", "ipv6_routing_enabled"} : ~differ(b, t, "multicast", field)
  <2> DEFINE routing == {field \in {"ipv4_routing_enabled", "ipv6_routing_enabled"} :
                           differ(b, t, "multicast", field)}
  <2>1. ~any_change(compare_multicast(b, t).global)
    BY QuietSections
  <2>2. ~any_change(Diff(routing, routing, routing))
    BY <2>1 DEF compare_multicast
  <2>3. routing \cap routing = {}
    <3> HIDE DEF routing
    <3> QED
      BY <2>2, NoDiff
  <2> QED
    BY <2>3
<1>4. \A kind \in {"graceful_restart", "nsr"}, p \in {"bgp", "isis", "ospf", "ldp"} :
         ~differ(b, t, kind, p)
  <2> DEFINE of_protocols(kind) == {p \in {"bgp", "isis", "ospf", "ldp"} : differ(b, t, kind, p)}
  <2>1. ~any_change(compare_ha(b, t).isis_ha) /\ ~any_change(compare_ha(b, t).nsr)
    BY QuietSections
  <2>2. \A kind \in {"graceful_restart", "nsr"} :
           ~any_change(Diff(of_protocols(kind), of_protocols(kind), of_protocols(kind)))
    BY <2>1 DEF compare_ha
  <2>3. \A kind \in {"graceful_restart", "nsr"} : of_protocols(kind) \cap of_protocols(kind) = {}
    <3> HIDE DEF of_protocols
    <3> QED
      BY <2>2, NoDiff
  <2> QED
    BY <2>3
<1>5. ~differ(b, t, "stp", "enabled") /\ ~differ(b, t, "stp", "mode")
  <2>1. ~compare_stp(b, t).enabled_changed /\ ~compare_stp(b, t).mode_changed
    BY QuietSections DEF other_changes
  <2> QED
    BY <2>1 DEF compare_stp
<1>6. f[1][1] # "nat_alg"
  <2>1. ~compare_nat(b, t).alg_changed
    BY QuietSections DEF other_changes
  <2>2. whole(b, <<"nat_alg", "">>) = whole(t, <<"nat_alg", "">>)
    BY <2>1 DEF compare_nat
  <2> QED
    BY <2>2 DEF whole, differing
<1>7. ASSUME <<f[1][1], f[2]>> \in compared_settings PROVE differ(b, t, f[1][1], f[2])
  BY SettingAgrees
<1>8. /\ ~differ(b, t, "igmp_snooping", "global_enabled")
      /\ \A field \in pim_global : ~differ(b, t, "pim", field)
  BY QuietSnooping
<1>9. ASSUME <<f[1][1], f[2]>> \in compared_settings PROVE ~differ(b, t, f[1][1], f[2])
  <2> DEFINE kind == f[1][1]
             field == f[2]
  <2>1. \/ kind = "mpls" /\ field \in {"enabled", "lsr_id", "te_enabled"}
        \/ kind = "mpls_ldp" /\ field \in {"enabled", "graceful_restart"}
        \/ kind = "multicast" /\ field \in {"ipv4_routing_enabled", "ipv6_routing_enabled"}
        \/ kind = "pim" /\ field \in pim_global
        \/ kind \in {"graceful_restart", "nsr"} /\ field \in {"bgp", "isis", "ospf", "ldp"}
        \/ kind = "stp" /\ field \in {"enabled", "mode"}
        \/ kind = "igmp_snooping" /\ field = "global_enabled"
    BY <1>9 DEF compared_settings
  <2> HIDE DEF kind, field
  <2>2. ~differ(b, t, kind, field)
    BY <1>1, <1>2, <1>3, <1>4, <1>5, <1>8, <2>1
  <2> QED
    BY <2>2 DEF kind, field
<1> QED
  BY <1>6, <1>7, <1>9

\* What the comparison of BAS and of PPPoE interfaces looks at.
bas_fields == {"description", "user_vlan", "qinq_vlan", "bas.default_domain",
               "bas.pre_authentication_domain", "bas.authentication_method", "bas.access_type",
               "bas.accounting_copy_radius_group", "bas.ip_trigger", "bas.arp_trigger",
               "bas.ipv6_trigger"}

pppoe_fields == {"pppoe.virtual_template", "pppoe.max_sessions", "user_vlan", "qinq_vlan",
                 "description", "bas.default_domain"}

\* The lists of interfaces with a role show nothing.
LEMMA QuietRoles ==
    ASSUME NEW b, NEW t, compare_config_snapshots(b, t) = {}
    PROVE  /\ ~any_change(compare_interface_role(b, t, "pim_enabled", {"pim_mode", "pim_hello_holdtime"}))
           /\ ~any_change(compare_interface_role(b, t, "igmp_enabled",
                  {"igmp_version", "igmp_limit", "igmp_static_groups", "igmp_join_groups"}))
           /\ ~any_change(compare_interface_role(b, t, "mld_enabled", {"mld_version", "mld_static_groups"}))
           /\ ~any_change(compare_interface_role(b, t, "isis_ipv6_enabled",
                  {"isis_ipv6_process_id", "isis_ipv6_cost"}))
           /\ ~any_change(compare_interface_role(b, t, "bas.enabled", bas_fields))
           /\ ~any_change(compare_interface_role(b, t, "pppoe.enabled", pppoe_fields))
<1>1. /\ ~any_change(compare_interface_role(b, t, "igmp_enabled",
            {"igmp_version", "igmp_limit", "igmp_static_groups", "igmp_join_groups"}))
      /\ ~any_change(compare_interface_role(b, t, "mld_enabled", {"mld_version", "mld_static_groups"}))
  <2>1. ~any_change(compare_multicast(b, t).igmp) /\ ~any_change(compare_multicast(b, t).mld)
    BY QuietSections
  <2> QED
    BY <2>1 DEF compare_multicast
<1>2. ~any_change(compare_interface_role(b, t, "isis_ipv6_enabled",
            {"isis_ipv6_process_id", "isis_ipv6_cost"}))
  <2>1. ~any_change(compare_ipv6(b, t).isis_ipv6)
    BY QuietSections
  <2> QED
    BY <2>1 DEF compare_ipv6
<1>3. ~any_change(compare_interface_role(b, t, "bas.enabled", bas_fields))
  <2>1. ~any_change(compare_bng(b, t).bas_interfaces)
    BY QuietSections
  <2>2. ~any_change(compare_bng_bas_interfaces(b, t))
    BY <2>1 DEF compare_bng
  <2>3. \A c : bas_interfaces(c) = InterfacesOf(c, "bas.enabled")
    BY DEF bas_interfaces, InterfacesOf
  <2>4. \A i : bas_changes(b, t, i) = changed_fields(b, t, i, bas_fields)
    BY DEF bas_changes, bas_fields
  <2> QED
    BY <2>2, <2>3, <2>4 DEF compare_bng_bas_interfaces, compare_interface_role, compare_fields
<1>4. ~any_change(compare_interface_role(b, t, "pppoe.enabled", pppoe_fields))
  <2>1. ~any_change(compare_bng(b, t).pppoe_interfaces)
    BY QuietSections
  <2>2. ~any_change(compare_pppoe_interfaces(b, t))
    BY <2>1 DEF compare_bng
  <2>3. \A c : pppoe_servers(c) = InterfacesOf(c, "pppoe.enabled")
    BY DEF pppoe_servers, InterfacesOf
  <2>4. \A i : pppoe_changes(b, t, i) = changed_fields(b, t, i, pppoe_fields)
    BY DEF pppoe_changes, pppoe_fields
  <2> QED
    BY <2>2, <2>3, <2>4 DEF compare_pppoe_interfaces, compare_interface_role, compare_fields
<1> QED
  BY <1>1, <1>2, <1>3, <1>4, QuietSnooping

\* A pair of compared_by_role names a role and a field that is compared for it.
LEMMA RoleFields ==
    ASSUME NEW b, NEW t, compare_config_snapshots(b, t) = {}, NEW p \in compared_by_role
    PROVE  \E fields : p[2] \in fields /\ ~any_change(compare_interface_role(b, t, p[1], fields))
<1>1. CASE p \in {"pim_enabled"} \X {"pim_mode", "pim_hello_holdtime"}
  <2>1. p[1] = "pim_enabled" /\ p[2] \in {"pim_mode", "pim_hello_holdtime"}
    BY <1>1
  <2> QED
    BY <2>1, QuietRoles
<1>2. CASE p \in {"igmp_enabled"} \X {"igmp_version", "igmp_limit", "igmp_static_groups",
                                      "igmp_join_groups"}
  <2>1. /\ p[1] = "igmp_enabled"
        /\ p[2] \in {"igmp_version", "igmp_limit", "igmp_static_groups", "igmp_join_groups"}
    BY <1>2
  <2> QED
    BY <2>1, QuietRoles
<1>3. CASE p \in {"mld_enabled"} \X {"mld_version", "mld_static_groups"}
  <2>1. p[1] = "mld_enabled" /\ p[2] \in {"mld_version", "mld_static_groups"}
    BY <1>3
  <2> QED
    BY <2>1, QuietRoles
<1>4. CASE p \in {"isis_ipv6_enabled"} \X {"isis_ipv6_process_id", "isis_ipv6_cost"}
  <2>1. p[1] = "isis_ipv6_enabled" /\ p[2] \in {"isis_ipv6_process_id", "isis_ipv6_cost"}
    BY <1>4
  <2> QED
    BY <2>1, QuietRoles
<1>5. CASE p \in {"bas.enabled"} \X {"user_vlan", "qinq_vlan", "bas.default_domain",
                 "bas.pre_authentication_domain", "bas.authentication_method", "bas.access_type",
                 "bas.accounting_copy_radius_group", "bas.ip_trigger", "bas.arp_trigger",
                 "bas.ipv6_trigger"}
  <2>1. p[1] = "bas.enabled" /\ p[2] \in bas_fields
    BY <1>5 DEF bas_fields
  <2> QED
    BY <2>1, QuietRoles
<1>6. CASE p \in {"pppoe.enabled"} \X {"pppoe.virtual_template", "pppoe.max_sessions", "user_vlan",
                                        "qinq_vlan", "bas.default_domain"}
  <2>1. p[1] = "pppoe.enabled" /\ p[2] \in pppoe_fields
    BY <1>6 DEF pppoe_fields
  <2> QED
    BY <2>1, QuietRoles
<1> QED
  BY <1>1, <1>2, <1>3, <1>4, <1>5, <1>6 DEF compared_by_role

\* Nor does what is compared of an interface in a role differ.
LEMMA RolesCompared ==
    ASSUME NEW b, NEW t, compare_config_snapshots(b, t) = {}, NEW f \in differing(b, t),
           f[1] \in Interfaces(b) \cap Interfaces(t), NEW p \in compared_by_role,
           Has(b, f[1], p[1]) \/ Has(t, f[1], p[1])
    PROVE  p[2] # f[2]
<1>1. PICK fields : p[2] \in fields /\ ~any_change(compare_interface_role(b, t, p[1], fields))
  BY RoleFields
<1>2. f[2] \notin fields
  BY <1>1, RoleAgrees DEF compare_interface_role
<1> QED
  BY <1>1, <1>2

\* The same interfaces have each role.
LEMMA SameRoles ==
    ASSUME NEW b, NEW t, compare_config_snapshots(b, t) = {},
           NEW role \in {"mpls_enabled", "mpls_ldp_enabled"} \cup {p[1] : p \in compared_by_role}
    PROVE  InterfacesOf(b, role) = InterfacesOf(t, role)
<1>1. CASE role \in {"mpls_enabled", "mpls_ldp_enabled"}
  BY <1>1, QuietLists, NoDiff DEF compare_mpls, compare_mpls_ldp
<1>2. CASE role \in {p[1] : p \in compared_by_role}
  <2>1. PICK p \in compared_by_role : role = p[1]
    BY <1>2
  <2>2. PICK fields : ~any_change(compare_interface_role(b, t, role, fields))
    BY <2>1, RoleFields
  <2> QED
    BY <2>2, NoDiff DEF compare_interface_role, compare_fields
<1> QED
  BY <1>1, <1>2

\* The virtual templates are the same, and agree in what is compared of them.
LEMMA TemplatesCompared ==
    ASSUME NEW b, NEW t, compare_config_snapshots(b, t) = {}
    PROVE  /\ virtual_templates(b) = virtual_templates(t)
           /\ \A f \in differing(b, t) :
                 f[1] \in virtual_templates(b) => f[2] \notin compared_of_templates
<1> DEFINE changed == {i \in virtual_templates(b) : template_changes(b, t, i) # {}}
<1>1. ~any_change(compare_bng(b, t).virtual_templates)
  BY QuietSections
<1>2. ~any_change(Diff(virtual_templates(b), virtual_templates(t), changed))
  BY <1>1 DEF compare_bng, compare_pppoe_virtual_templates
<1>3. virtual_templates(b) = virtual_templates(t) /\ virtual_templates(b) \cap changed = {}
  <2> HIDE DEF changed
  <2> QED
    BY <1>2, NoDiff
<1>4. ASSUME NEW f \in differing(b, t), f[1] \in virtual_templates(b)
      PROVE  f[2] \notin compared_of_templates
  <2>1. template_changes(b, t, f[1]) = {}
    BY <1>3, <1>4
  <2> QED
    BY <2>1, ChangedField DEF template_changes, compared_of_templates
<1> QED
  BY <1>3, <1>4

\* No Eth-Trunk has other members.
LEMMA MembersCompared ==
    ASSUME NEW b, NEW t, compare_config_snapshots(b, t) = {}, AreFacts(b), AreFacts(t),
           NEW f \in differing(b, t), f[1] \in eth_trunks(b) \cup eth_trunks(t)
    PROVE  f[2] # "members"
<1> SUFFICES ASSUME f[2] = "members" PROVE FALSE
  OBVIOUS
<1>1. build_switching_section(b, t).eth_trunk_members = {}
  BY QuietSections DEF other_changes
<1>2. Values(b, f[1], "members") = Values(t, f[1], "members")
  BY <1>1 DEF build_switching_section
<1>3. ASSUME NEW c, NEW d, AreFacts(c), AreFacts(d), f \in c,
             Values(c, f[1], "members") = Values(d, f[1], "members")
      PROVE  f \in d
  <2>1. f[3] \in Values(d, f[1], "members")
    BY <1>3 DEF Values
  <2>2. PICK g \in d : g[1] = f[1] /\ g[2] = "members" /\ g[3] = f[3]
    BY <2>1 DEF Values
  <2>3. f = <<f[1], f[2], f[3]>> /\ g = <<g[1], g[2], g[3]>>
    BY <1>3, <2>2 DEF AreFacts
  <2> QED
    BY <2>2, <2>3
<1>4. f \in b /\ f \in t
  BY <1>2, <1>3 DEF differing
<1> QED
  BY <1>4 DEF differing

\* The interfaces of an ISIS process agree in what is compared for it.
LEMMA IsisCompared ==
    ASSUME NEW b, NEW t, compare_config_snapshots(b, t) = {}, NEW f \in differing(b, t),
           NEW p \in Objects(b, "isis"), f[1] \in isis_interfaces(b, p)
    PROVE  f[2] \notin {"isis_cost", "isis_circuit_type"}
<1> DEFINE common == Objects(b, "isis") \cap Objects(t, "isis")
           changed == {q \in common : \/ isis_process_changes(b, t, q) # {}
                                      \/ any_change(isis_interface_changes(b, t, q))}
<1>1. ~any_change(Diff(Objects(b, "isis"), Objects(t, "isis"), changed))
  BY QuietLists DEF compare_isis
<1>2. Objects(b, "isis") = Objects(t, "isis") /\ Objects(b, "isis") \cap changed = {}
  <2> HIDE DEF changed
  <2> QED
    BY <1>1, NoDiff
<1>3. ~any_change(isis_interface_changes(b, t, p))
  BY <1>2
<1> HIDE DEF changed, common
<1> DEFINE here == isis_interfaces(b, p)
           different == {i \in here : changed_fields(b, t, i, {"isis_cost", "isis_circuit_type"}) # {}}
<1>4. ~any_change(Diff(here, isis_interfaces(t, p), different))
  BY <1>3 DEF isis_interface_changes, compare_fields
<1>5. here \cap different = {}
  <2> HIDE DEF here, different
  <2> QED
    BY <1>4, NoDiff
<1>6. changed_fields(b, t, f[1], {"isis_cost", "isis_circuit_type"}) = {}
  BY <1>5
<1> QED
  BY <1>6, ChangedField

\* Of QoS only what both configurations define is compared.
LEMMA QosCompared ==
    ASSUME NEW b, NEW t, compare_config_snapshots(b, t) = {}, NEW f \in differing(b, t),
           NEW kind \in {"traffic_policy", "traffic_classifier", "traffic_behavior"}
    PROVE  f[1] \notin Objects(b, kind) \cap Objects(t, kind)
<1>1. /\ compare_qos(b, t).policies = {}
      /\ compare_qos(b, t).classifiers = {}
      /\ compare_qos(b, t).behaviors = {}
  BY QuietSections DEF other_changes, compare_qos
<1>2. compare_kind(b, t, kind).changed = {}
  BY <1>1 DEF compare_qos
<1> QED
  BY <1>2 DEF compare_kind, compare_whole, Diff

\* The last of the routes with one key says the same.
LEMMA RoutesCompared ==
    ASSUME NEW b, NEW t, compare_config_snapshots(b, t) = {}
    PROVE  condensed(b).routes = condensed(t).routes
<1> DEFINE said(c, key) == [f \in {"description", "preference", "tag"} |-> Values(c, kept_route(c, key), f)]
           common == route_keys(b) \cap route_keys(t)
           changed == {k \in common : detect_route_changes(b, t, k) # {}}
<1>1. ~any_change(Diff(route_keys(b), route_keys(t), changed))
  BY QuietLists DEF compare_static_routes
<1>2. route_keys(b) = route_keys(t) /\ route_keys(b) \cap changed = {}
  <2> HIDE DEF changed
  <2> QED
    BY <1>1, NoDiff
<1>3. ASSUME NEW key \in route_keys(b) PROVE said(b, key) = said(t, key)
  <2>1. detect_route_changes(b, t, key) = {}
    BY <1>2, <1>3
  <2>2. \A f \in {"description", "preference", "tag"} :
           Values(b, kept_route(b, key), f) = Values(t, kept_route(t, key), f)
    BY <2>1 DEF detect_route_changes
  <2> QED
    BY <2>2
<1>4. \A c : condensed(c).routes = {<<key, said(c, key)>> : key \in route_keys(c)}
  BY DEF condensed
<1> HIDE DEF said, changed, common
<1> QED
  BY <1>2, <1>3, <1>4

\* The last of the IPv6 routes to one prefix leads to the same next hop.
LEMMA Ipv6RoutesCompared ==
    ASSUME NEW b, NEW t, compare_config_snapshots(b, t) = {}
    PROVE  condensed(b).ipv6_routes = condensed(t).ipv6_routes
<1> DEFINE common == ipv6_prefixes(b) \cap ipv6_prefixes(t)
           changed == {p \in common : ipv6_next_hop(b, p) # ipv6_next_hop(t, p)}
<1>1. ~any_change(compare_ipv6(b, t).routes)
  BY QuietSections
<1>2. ~any_change(Diff(ipv6_prefixes(b), ipv6_prefixes(t), changed))
  BY <1>1 DEF compare_ipv6, compare_ipv6_routes
<1>3. ipv6_prefixes(b) = ipv6_prefixes(t) /\ ipv6_prefixes(b) \cap changed = {}
  <2> HIDE DEF changed
  <2> QED
    BY <1>2, NoDiff
<1>4. \A p \in ipv6_prefixes(b) : ipv6_next_hop(b, p) = ipv6_next_hop(t, p)
  BY <1>3
<1>5. \A c : condensed(c).ipv6_routes = {<<p, ipv6_next_hop(c, p)>> : p \in ipv6_prefixes(c)}
  BY DEF condensed
<1> HIDE DEF changed, common
<1> QED
  BY <1>3, <1>4, <1>5

\* The last lines of the prefix lists that are compared by them are the same.
LEMMA LastLinesAgree ==
    ASSUME NEW b, NEW t, NEW before, NEW after, ~any_change(compare_last_lines(b, t, before, after))
    PROVE  list_contents(b, before) = list_contents(t, after)
<1> DEFINE said(c, entries, n) == content(c, last_line(c, entries, n))
           common == names_of(b, before) \cap names_of(t, after)
           changed == {n \in common : said(b, before, n) # said(t, after, n)}
<1>1. ~any_change(Diff(names_of(b, before), names_of(t, after), changed))
  BY DEF compare_last_lines
<1>2. names_of(b, before) = names_of(t, after) /\ names_of(b, before) \cap changed = {}
  <2> HIDE DEF changed
  <2> QED
    BY <1>1, NoDiff
<1>3. \A n \in names_of(b, before) : said(b, before, n) = said(t, after, n)
  BY <1>2
<1>4. \A c, entries : list_contents(c, entries) = {<<n, said(c, entries, n)>> : n \in names_of(c, entries)}
  BY DEF list_contents
<1> HIDE DEF changed, common, said
<1> QED
  BY <1>2, <1>3, <1>4

\* When nothing is shown, what a comparison keeps of the data it condenses is
\* the same on both sides.
LEMMA CondensedAgrees ==
    ASSUME NEW b, NEW t, compare_config_snapshots(b, t) = {}
    PROVE  condensed(b) = condensed(t)
<1>1. condensed(b).routes = condensed(t).routes /\ condensed(b).ipv6_routes = condensed(t).ipv6_routes
  BY RoutesCompared, Ipv6RoutesCompared
<1>2. condensed(b).lists = condensed(t).lists
  <2>1. ~any_change(compare_last_lines(b, t, Objects(b, "prefix_list"), Objects(t, "prefix_list")))
    BY QuietLists DEF compare_ip_prefixes
  <2> QED
    BY <2>1, LastLinesAgree DEF condensed
<1>3. condensed(b).ipv6_lists = condensed(t).ipv6_lists
  <2>1. ~any_change(compare_ipv6(b, t).prefix_lists)
    BY QuietSections
  <2>2. ~any_change(compare_last_lines(b, t, ipv6_prefix_lists(b), ipv6_prefix_lists(t)))
    BY <2>1 DEF compare_ipv6
  <2> QED
    BY <2>2, LastLinesAgree DEF condensed
<1>4. condensed(b).sections = condensed(t).sections
  <2>1. ~any_change(compare_bng(b, t).ip_pools)
    BY QuietSections
  <2>2. ~any_change(compare_bng_ip_pools(b, t))
    BY <2>1 DEF compare_bng
  <2>3. /\ Objects(b, "ip_pool") = Objects(t, "ip_pool")
        /\ \A p \in Objects(b, "ip_pool") : starts(b, p) = starts(t, p)
    BY <2>2, QuietPools
  <2>4. \A c : condensed(c).sections = {<<p, starts(c, p)>> : p \in Objects(c, "ip_pool")}
    BY DEF condensed
  <2> QED
    BY <2>3, <2>4
<1>5. condensed(b).pim_mode = condensed(t).pim_mode
  BY QuietSnooping DEF condensed
<1>6. \A c : condensed(c) = [routes |-> condensed(c).routes, ipv6_routes |-> condensed(c).ipv6_routes,
                             lists |-> condensed(c).lists, ipv6_lists |-> condensed(c).ipv6_lists,
                             sections |-> condensed(c).sections, pim_mode |-> condensed(c).pim_mode]
  BY DEF condensed
<1> QED
  BY <1>1, <1>2, <1>3, <1>4, <1>5, <1>6

\* The networks of BGP and the rules of NAT are the same.
LEMMA ListsCompared ==
    ASSUME NEW b, NEW t, compare_config_snapshots(b, t) = {}
    PROVE  /\ All(b, "bgp", "networks") = All(t, "bgp", "networks")
           /\ \A kind \in {"nat_outbound", "nat_static", "nat_server"} : rules(b, kind) = rules(t, kind)
<1>1. All(b, "bgp", "networks") = All(t, "bgp", "networks")
  BY QuietLists, NoDiff DEF compare_bgp
<1>2. /\ ~any_change(compare_nat(b, t).outbound_rules)
      /\ ~any_change(compare_nat(b, t).static_rules)
      /\ ~any_change(compare_nat(b, t).server_rules)
  BY QuietSections DEF other_changes
<1>3. \A kind \in {"nat_outbound", "nat_static", "nat_server"} :
         ~any_change(Diff(rules(b, kind), rules(t, kind), {}))
  BY <1>2 DEF compare_nat
<1> QED
  BY <1>1, <1>3, NoDiff

\* What is parsed of either configuration has its blocks named.
LEMMA BothNamed ==
    ASSUME TypeOK
    PROVE  named_blocks(current) /\ named_blocks(previous)
<1>1. ASSUME NEW entered \in {lines, base} PROVE named_blocks(parse(entered))
  <2> DEFINE c == facts_of(scenario, entered)
  <2>1. scenario \in Scenarios /\ InBlocks(scenario, entered)
    BY DEF TypeOK, InBlocks, facts
  <2>2. named_blocks(c)
    BY <2>1, ParsedLines
  <2>3. parse(entered) = parse_vlan_batch(extract_aaa_sub_blocks(c))
    BY DEF parse, facts
  <2> HIDE DEF c
  <2> QED
    BY <2>2, <2>3, ParsedBlocks, SameNames
<1> QED
  BY <1>1 DEF current, previous

\* When a comparison shows nothing, the two configurations agree in all that
\* it compares, whatever the lines of the device are.
THEOREM ComparedData == Spec => []ComparedDataAgrees
<1>1. TypeOK => ComparedDataAgrees
  <2> SUFFICES ASSUME TypeOK, shown = {} PROVE ComparedDataAgrees
    BY DEF ComparedDataAgrees
  <2>1. /\ named_blocks(current) /\ named_blocks(previous)
        /\ AreFacts(current) /\ AreFacts(previous)
    BY BothNamed, ParsedFacts
  <2>2. compare_config_snapshots(previous, current) = {}
    BY DEF shown
  <2>3. ASSUME NEW f \in differing(previous, current) PROVE ~is_compared(previous, current, f)
    <3>1. f[1][1] \notin compared_kinds
      BY <2>1, <2>2, KindsCompared
    <3>2. <<f[1][1], f[2]>> \notin compared_fields
      BY <2>2, FieldsCompared
    <3>3. f[1] = <<f[1][1], "">> =>
            <<f[1][1], f[2]>> \notin compared_settings /\ f[1][1] # "nat_alg"
      BY <2>2, SettingsCompared
    <3>4. ASSUME f[1] \in Interfaces(previous) \cap Interfaces(current), NEW p \in compared_by_role,
                 p[2] = f[2], Has(previous, f[1], p[1]) \/ Has(current, f[1], p[1])
          PROVE  FALSE
      BY <2>2, <3>4, RolesCompared
    <3>5. ~ /\ f[1][1] \in {"traffic_policy", "traffic_classifier", "traffic_behavior"}
            /\ f[1] \in Objects(previous, f[1][1]) \cap Objects(current, f[1][1])
      BY <2>2, QosCompared
    <3>6. f[1] \in virtual_templates(previous) \cup virtual_templates(current)
            => f[2] \notin compared_of_templates
      BY <2>2, TemplatesCompared
    <3>7. f[1] \in eth_trunks(previous) \cup eth_trunks(current) => f[2] # "members"
      BY <2>1, <2>2, MembersCompared
    <3>8. (\E p \in Objects(previous, "isis") : f[1] \in isis_interfaces(previous, p))
            => f[2] \notin {"isis_cost", "isis_circuit_type"}
      BY <2>2, IsisCompared
    <3> QED
      BY <3>1, <3>2, <3>3, <3>4, <3>5, <3>6, <3>7, <3>8 DEF is_compared
  <2>4. /\ condensed(previous) = condensed(current)
        /\ All(previous, "bgp", "networks") = All(current, "bgp", "networks")
        /\ \A kind \in {"nat_outbound", "nat_static", "nat_server"} :
              rules(previous, kind) = rules(current, kind)
    BY <2>2, CondensedAgrees, ListsCompared
  <2>5. \A kind \in {"interface", "bgp_peer", "vlan", "isis", "vpn_instance", "aaa_domain",
                     "radius_server", "ip_pool", "bfd_session", "nat_address_group",
                     "stp_instance", "ldp_remote_peer", "igmp_snooping_vlan",
                     "bgp_ipv6_peer", "bgp_ipv6_network"} :
           Objects(previous, kind) = Objects(current, kind)
    BY <2>2, FieldsCompared
  <2>6. /\ \A role \in {"mpls_enabled", "mpls_ldp_enabled"} \cup {p[1] : p \in compared_by_role} :
              InterfacesOf(previous, role) = InterfacesOf(current, role)
        /\ virtual_templates(previous) = virtual_templates(current)
    BY <2>2, SameRoles, TemplatesCompared
  <2> QED
    BY <2>3, <2>4, <2>5, <2>6 DEF ComparedDataAgrees
<1> QED
  BY <1>1, TypeCorrect, PTL
=============================================================================
