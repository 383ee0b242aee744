----------------------------- MODULE MCCollector -----------------------------
(***************************************************************************)
(* Instances of Collector for TLC.                                         *)
(***************************************************************************)
EXTENDS Collector, TLC

CONSTANTS lan, wan,  \* two subnets
          ip1, ip2,  \* two addresses
          core       \* the name of a device

\* Two subnets; wan is the one that may be too large.
MCHosts == [s \in Subnets |-> IF s = lan THEN {ip1} ELSE {ip2}]

\* Two subnets that overlap: the loop tries ip1 twice.
MCOverlap == [s \in Subnets |-> IF s = lan THEN {ip1} ELSE {ip1, ip2}]

\* Both addresses belong to one device.
MCSharedName == [i \in {ip1, ip2} |-> core]

\* The second address reports no name.
MCSysName == (ip1 :> core) @@ (ip2 :> NoName)

\* Operators switch core off and clear its address, or switch it on with the
\* address of the other device.
MCForms == {[name |-> core, ip |-> NoIp, enabled |-> FALSE],
            [name |-> core, ip |-> ip2, enabled |-> TRUE]}

\* With one process, it is enough that core may be switched off.
MCSwitchOff == {[name |-> core, ip |-> NoIp, enabled |-> FALSE]}

\* Processes are interchangeable in the safety runs.
MCSymmetry == Permutations(Procs)
=============================================================================
