----------------------------- MODULE ParsedData -----------------------------
(***************************************************************************)
(* The dictionary a vendor parser returns (ParsedConfig.parsed_data), as a  *)
(* set of facts <<object, field, value>>.  An object is <<kind, id>>: one   *)
(* entry of a list of the dictionary ("interface", "acl", ...), or the one  *)
(* dictionary under a key (id "").  The detectors read every field with     *)
(* .get() and test its truth, so a field that is missing, None, False, ""   *)
(* or [] simply has no fact, and a field that holds a list has one fact     *)
(* for each element.  A nested field keeps its path in its name, as in      *)
(* "bas.enabled".  An address is abstracted to the network it lies in.      *)
(***************************************************************************)
EXTENDS Integers, FiniteSets

AreFacts(c) == \A f \in c : f = <<f[1], f[2], f[3]>>

Objects(c, kind) == {f[1] : f \in {g \in c : g[1][1] = kind}}

Values(c, o, field) == {f[3] : f \in {g \in c : g[2] = field /\ g[1] = o}}

Has(c, o, field) == \E f \in c : f[2] = field /\ f[1] = o

Is(c, o, field, value) == <<o, field, value>> \in c

\* A field of a dictionary that occurs once: mpls, snmp, ha, ...
Flag(c, kind, field) == Has(c, <<kind, "">>, field)

\* Every value a field takes over the entries of a list, as the detectors
\* collect them: {v["name"] for v in parsed_data.get("vpn_instances", [])}.
All(c, kind, field) == UNION {Values(c, o, field) : o \in Objects(c, kind)}

Names(c, kind) == All(c, kind, "name")

\* The entries of a list that have one field and lack another.
Lacking(c, kind, field) == {o \in Objects(c, kind) : ~Has(c, o, field)}

\* The entries whose field names something that is not defined.
Dangling(c, kind, field, defined) ==
    {o \in Objects(c, kind) : ~(Values(c, o, field) \subseteq defined)}

Interfaces(c) == Objects(c, "interface")
=============================================================================
