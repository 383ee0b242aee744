------------------------------ MODULE VlanLists ------------------------------
(***************************************************************************)
(* A list of VLANs as an interface of the configuration writes it, "10 to   *)
(* 20 30", and its readers: the VLAN correlator expands the       *)
(* ranges (_expand_vlan_list), so does the Huawei parser for "vlan batch"    *)
(* (_expand_huawei_vlan_list), and the issue detectors read word by word    *)
(* (_collect_vlan_usage).  A list is the sequence of its words; the words   *)
(* that are no number are To and All, both below every VLAN.                *)
(***************************************************************************)
EXTENDS ParsedData, Sequences

To == 0

AllWord == -1

is_number(word) == word > 0

valid_vlans == 1..4094

\* Whether the second word makes a range of its neighbours.
is_range(parts) ==
    /\ Len(parts) > 2
    /\ parts[2] = To
    /\ is_number(parts[1]) /\ is_number(parts[3])

\* The first word stays where it is when a range is taken out of the list, so
\* the loop is a walk over what is left that begins with the word before it.
after_range(parts) == <<parts[1]>> \o SubSeq(parts, 4, Len(parts))

\* Faulty: the last VLAN of a range is not in it.
expand_vlan_list_short(words) ==
    LET walk[parts \in Seq(Int)] ==
            IF Len(parts) < 2 THEN {}
            ELSE IF is_range(parts) THEN (parts[1]..parts[3] - 1) \cup walk[after_range(parts)]
            ELSE {w \in {parts[2]} : is_number(w)} \cup walk[Tail(parts)]
    IN  walk[<<To>> \o words] \cap valid_vlans

walk_vlan_list[parts \in Seq(Int)] ==
    IF Len(parts) < 2 THEN {}
    ELSE IF is_range(parts) THEN (parts[1]..parts[3]) \cup walk_vlan_list[after_range(parts)]
    ELSE {w \in {parts[2]} : is_number(w)} \cup walk_vlan_list[Tail(parts)]

\* No word is before the first one.
expand_vlan_list(words) == walk_vlan_list[<<To>> \o words] \cap valid_vlans

\* A range that does not ascend, or ends above 4094, is dropped with its ends.
ascending_range(first, last) == {v \in first..last : first < last /\ last \in valid_vlans}

walk_huawei_vlan_list[tokens \in Seq(Int)] ==
    IF tokens = <<>> THEN {}
    ELSE IF is_range(tokens)
         THEN ascending_range(tokens[1], tokens[3])
                \cup walk_huawei_vlan_list[SubSeq(tokens, 4, Len(tokens))]
    ELSE ({tokens[1]} \cap valid_vlans) \cup walk_huawei_vlan_list[Tail(tokens)]

expand_huawei_vlan_list(words) == walk_huawei_vlan_list[words]

\* Faulty: the last word is not read.
numbers_in_but_last(words) == {w \in {words[k] : k \in 1..Len(words) - 1} : is_number(w)}

\* str.isdigit of each word.
numbers_in(words) == {w \in {words[k] : k \in DOMAIN words} : is_number(w)}

\* The pairs of an interface and a VLAN that a tracking session takes from a
\* configuration.  A VSI is tracked as VLAN 0.
extract_vlan_interfaces_from_device(c) ==
    LET of_mode(mode) == {i \in Interfaces(c) : Is(c, i, "port_mode", mode)}
        of_type(type) == {i \in Interfaces(c) : Is(c, i, "vlan_type", type)}
        listed(i, fields) ==
            UNION {expand_vlan_list(words) : words \in UNION {Values(c, i, f) : f \in fields}}
        pairs(i, vlans) == {i} \X vlans
    IN  (UNION {pairs(i, Values(c, i, "access_vlan")) : i \in of_mode("access")})
          \cup (UNION {pairs(i, listed(i, {"trunk_allowed_vlans"})) : i \in of_mode("trunk")})
          \cup (UNION {pairs(i, listed(i, {"hybrid_tagged_vlans", "hybrid_untagged_vlans"})) :
                          i \in of_mode("hybrid")})
          \cup (UNION {pairs(i, Values(c, i, "vlan_id")) : i \in of_type("dot1q")})
          \cup (UNION {pairs(i, Values(c, i, "pe_vid")) : i \in of_type("qinq_termination")})
          \cup (of_type("l2binding") \X {0})
          \cup UNION {pairs(i, Values(c, i, "user_vlan")) : i \in Interfaces(c)}

-----------------------------------------------------------------------------
(* What a list means                                                        *)

\* A list as VRP writes it: VLANs, and a To only between two that ascend.
is_vlan_list(words) ==
    /\ words \in Seq(Int)
    /\ \A k \in DOMAIN words :
          \/ words[k] \in valid_vlans
          \/ /\ words[k] = To
             /\ k > 1 /\ k < Len(words)
             /\ words[k - 1] \in valid_vlans /\ words[k + 1] \in valid_vlans
             /\ words[k - 1] < words[k + 1]
             /\ k + 2 \in DOMAIN words => words[k + 2] # To

\* The VLANs of such a list.
written(words) ==
    {v \in valid_vlans : \E k \in DOMAIN words :
        \/ words[k] = v
        \/ words[k] = To /\ words[k - 1] <= v /\ v <= words[k + 1]}
=============================================================================
