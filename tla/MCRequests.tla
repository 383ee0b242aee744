------------------------------ MODULE MCRequests ------------------------------
(***************************************************************************)
(* Instance of Requests for TLC: one device of the inventory and a name a  *)
(* form may add, a configuration sent with two kinds of line ends.         *)
(***************************************************************************)
EXTENDS Requests, FiniteSets, TLC

CONSTANTS core1, edge1, unix, dos, r1, r2

NormalText == (unix :> unix) @@ (dos :> unix)
Symmetric  == Permutations(Requests)

\* Bounds.  Two requests overlap each other, or one of them and the backup; a
\* behaviour is followed until its backup has replaced the file.
Busy      == {r \in Requests : req[r].pc # "idle"}
OneBeside == /\ destination = <<>>
             /\ backup.pc # "idle" => Cardinality(Busy) <= 1

\* Readers touch neither each other nor the comparisons that are there: one at
\* a time makes the later queries, and none beside the backup or a comparison.
Readers   == {r \in Requests : req[r].pc \in {"open", "page", "compare"}}
Reading   == {r \in Requests : req[r].pc \in {"page", "compare"} /\ Len(req[r].seen) > 2}
OneReader == /\ Cardinality(Reading) <= 1
             /\ backup.pc # "idle" \/ comparisons # <<>> => Readers = {}

\* To a reader it means nothing what the texts and the devices are, to a backup and
\* to the second comparison of a pair neither the texts nor what a diff was made from
\* and how a snapshot came without an analysis: these differ only before.
Diffs     == {c \in DOMAIN comparisons : comparisons[c].seen # <<>>}
OneText   == \A s \in DOMAIN snapshots : snapshots[s].text = unix
Plain     == dropped = {} /\ OneText
OneDiff   == /\ Cardinality(Diffs) <= 1
             /\ \A r \in Readers : req[r].pc # "open" => OneText /\ devices = {core1}
             /\ comparisons # <<>> => Plain /\ devices = {core1}
             /\ backup.pc # "idle" => Plain /\ Diffs = {} /\ keys <= 2
=============================================================================
