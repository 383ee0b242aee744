---------------------------- MODULE MCVlanSession ----------------------------
(***************************************************************************)
(* Instances of VlanSession for TLC: two devices joined by a trunk.        *)
(***************************************************************************)
EXTENDS VlanSession, TLC

CONSTANTS Trunk,  \* the name of device 1's end of the trunk
          p1, p2  \* processes

\* Interface names in string order; 2 is a long form of 1.
MCShort == (1 :> 1) @@ (2 :> 1) @@ (3 :> 3) @@ (4 :> 4)

P1 == <<1, Trunk>>
P2 == <<2, 4>>

Row(n, v, m) == [name |-> n, vid |-> v, mode |-> m]

\* VLAN 10 is on both ends and routed by device 2, VLAN 20 is on an access
\* port, VLAN 30 is defined only, and a binding without a VLAN is on one end.
MCInterfaces == (1 :> {Trunk, 4}) @@ (2 :> {3, 4})
MCConfig     == (1 :> {Row(Trunk, 10, "trunk"), Row(4, 20, "access")})
                @@ (2 :> {Row(4, 10, "trunk"), Row(4, 0, "access"), Row(3, 10, "subinterface")})
MCDefined    == (1 :> {30}) @@ (2 :> {})

\* A /29 that both have an address in, in the order of the session.
MCAdjacent  == {[a |-> P2, b |-> P1, confidence |-> "low"]}
MCDescribed == {[a |-> P1, b |-> P2]}

Report(k, m, x, y, c) == [kind |-> k, method |-> m, a |-> x, b |-> y, confidence |-> c]

MCReports == {Report("lldp", "lldp", P2, P1, "medium"), Report("lldp", "lldp", P1, NoPort, "medium"),
              Report("csv", "lldp", P1, P2, "low"), Report("csv", "manual", P1, <<1, 4>>, "high")}
MCPairs   == {<<P1, P2>>, <<P2, P1>>}

\* LLDP alone tells of the trunk.
MCLldpReports == {Report("lldp", "lldp", P1, P2, "medium")}

\* For two processes: what they do to each other matters, not the variety of
\* inputs.
MCOverlapConfig  == (1 :> {Row(Trunk, 10, "access")}) @@ (2 :> {Row(4, 10, "trunk")})
MCOverlapDefined == (1 :> {}) @@ (2 :> {})
MCSymmetry       == Permutations(Procs)
=============================================================================
