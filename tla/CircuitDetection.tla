-------------------------- MODULE CircuitDetection --------------------------
(***************************************************************************)
(* detectors/circuits.py: the DetectedCircuit rows derived from subinter-   *)
(* faces, static routes, VSI blocks and ONUs.  A row is <<type, subject,    *)
(* details>>: the details are the routed prefix or the VLANs it shows and   *)
(* the confidence, in hundredths.  A network is a model value; Transit-   *)
(* Networks are the /30 networks other than 0.0.0.0/30.                       *)
(***************************************************************************)
EXTENDS ParsedData

CONSTANT TransitNetworks

Circuit(type, subject, details, confidence) == {<<type, subject, details, confidence>>}

-----------------------------------------------------------------------------
(* L3 transit: a dot1q subinterface with a /30 and a static route whose     *)
(* next hop lies in that network.                                           *)

find_transit_candidates(c) ==
    {i \in Interfaces(c) :
        /\ Is(c, i, "vlan_type", "dot1q")
        /\ Has(c, i, "vlan_id")
        /\ \E n \in Values(c, i, "ip_address") : n \in TransitNetworks}

\* A name of an interface, or NULL0, is no address.
is_non_ip_next_hop(hop) == hop \in {"NULL0", "an interface"}

is_default(c, r) == Is(c, r, "network", "0.0.0.0") /\ Is(c, r, "netmask", "0.0.0.0")

\* The destination, or None for a route to the transit network itself and for
\* one without network or mask.
extract_routed_prefix(c, r, transit) ==
    IF Has(c, r, "network") /\ Has(c, r, "netmask")
    THEN Values(c, r, "network") \ transit ELSE {}

routes_into(c, i) ==
    {r \in Objects(c, "static_route") :
        \E hop \in Values(c, r, "next_hop") :
           ~is_non_ip_next_hop(hop) /\ hop \in Values(c, i, "ip_address")}

default_routes(c, i) == {r \in routes_into(c, i) : is_default(c, r)}

specific_routes(c, i) == {r \in routes_into(c, i) : ~is_default(c, r)}

\* One circuit for each specific route; a default route adds one only when it
\* is alone.
detect_l3_transit_circuits(c) ==
    UNION {(UNION {Circuit("l3_transit", i,
                           <<r, extract_routed_prefix(c, r, Values(c, i, "ip_address"))>>, 80) :
                      r \in specific_routes(c, i)})
             \cup (IF specific_routes(c, i) = {} /\ default_routes(c, i) # {}
                   THEN Circuit("l3_transit", i, <<"default", {}>>, 60) ELSE {}) :
              i \in find_transit_candidates(c)}

-----------------------------------------------------------------------------
(* Transport of VLANs                                                       *)

\* Faulty: a second tag does not matter.
is_tagged_transport(c, i) ==
    /\ Is(c, i, "vlan_type", "dot1q")
    /\ Has(c, i, "vlan_id")
    /\ \A field \in {"ip_address", "pe_vid", "ce_vid", "vsi_name"} : ~Has(c, i, field)

is_vlan_transport(c, i) ==
    /\ Is(c, i, "vlan_type", "dot1q")
    /\ Has(c, i, "vlan_id")
    /\ \A field \in {"ip_address", "second_vlan_id", "pe_vid", "ce_vid", "vsi_name"} :
          ~Has(c, i, field)

detect_vlan_transport_circuits(c) ==
    UNION {Circuit("vlan_transport", i, Values(c, i, "vlan_id"),
                   IF Has(c, i, "description") THEN 70 ELSE 50) :
              i \in {j \in Interfaces(c) : is_vlan_transport(c, j)}}

is_qinq(c, i) ==
    \/ Is(c, i, "vlan_type", "dot1q") /\ Has(c, i, "second_vlan_id")
    \/ Is(c, i, "vlan_type", "qinq_termination") /\ Has(c, i, "pe_vid")

detect_qinq_transport_circuits(c) ==
    UNION {Circuit("qinq_transport", i,
                   UNION {Values(c, i, field) : field \in {"vlan_id", "second_vlan_id", "pe_vid", "ce_vid"}},
                   85) :
              i \in {j \in Interfaces(c) : is_qinq(c, j)}}

-----------------------------------------------------------------------------
(* VSIs and OLTs                                                            *)

NoInterface == <<"interface", "">>

\* One circuit for each binding, and one for each VSI that nothing binds.
detect_l2vpn_vsi_circuits(c) ==
    (UNION {Circuit("l2vpn_vsi", i, Values(c, i, "vsi_name"),
                    IF Values(c, i, "vsi_name") \subseteq Names(c, "vsi") THEN 90 ELSE 75) :
               i \in {j \in Interfaces(c) : Has(c, j, "vsi_name")}})
      \cup UNION {Circuit("l2vpn_vsi", NoInterface, {v}, 70) :
                     v \in Names(c, "vsi") \ All(c, "interface", "vsi_name")}

\* The VLANs of an ONU's service ports; each prefers the VLAN of the network
\* side to the user's.
service_vlans(c, onu) ==
    UNION {IF Has(c, s, "vlan") THEN Values(c, s, "vlan") ELSE Values(c, s, "user_vlan") :
              s \in {p \in Objects(c, "zte_service_port") : Is(c, p, "onu", onu[2])}}

detect_olt_circuits(c) ==
    IF ~(Is(c, <<"device", "">>, "vendor", "zte") /\ Flag(c, "zte_olt", "enabled")) THEN {}
    ELSE UNION {Circuit("olt", onu, service_vlans(c, onu),
                        IF Has(c, onu, "service_ports") THEN 85 ELSE 60) :
                   onu \in Objects(c, "zte_onu")}

\* The order of the five calls does not matter to what is stored.
detect_circuits(c) ==
    detect_l3_transit_circuits(c) \cup detect_vlan_transport_circuits(c)
      \cup detect_qinq_transport_circuits(c) \cup detect_l2vpn_vsi_circuits(c)
      \cup detect_olt_circuits(c)
=============================================================================
