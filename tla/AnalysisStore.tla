---------------------------- MODULE AnalysisStore ----------------------------
(***************************************************************************)
(* What the analysis of configuration snapshots promises to a reader of    *)
(* the database, whatever goes on inside a transaction: the rows a snapshot *)
(* shows change only when a whole new analysis of it appears at once.      *)
(* SnapshotAnalysis is shown to implement this module.                     *)
(***************************************************************************)
EXTENDS Naturals

CONSTANTS Snapshots,  \* the ConfigSnapshot rows
          Yields,     \* Yields[s]: the kinds of rows the detectors find in s
          Pks         \* the primary keys ParsedConfig rows may receive

VARIABLE store        \* store[s]: the rows of snapshot s a reader sees

\* A row of the analysis tables: the ParsedConfig itself (kind "parsed") or a
\* detection, tagged with the key of the analysis that made it.
Row(s, k, p) == [snap |-> s, kind |-> k, pk |-> p]

\* Every row one complete analysis of s leaves.
FullAnalysis(s, p) == {Row(s, k, p) : k \in Yields[s] \cup {"parsed"}}

Init == store = [s \in Snapshots |-> {}]

\* A new analysis of s appears whole; rows of earlier ones may remain.
Publish(s) ==
    \E p \in Pks, keep \in SUBSET store[s] :
        /\ \A r \in store[s] : r.pk # p
        /\ store' = [store EXCEPT ![s] = keep \cup FullAnalysis(s, p)]

\* A new analysis of s appears whole and nothing of an earlier one remains.
Replace(s) ==
    \E p \in Pks :
        /\ \A r \in store[s] : r.pk # p
        /\ store' = [store EXCEPT ![s] = FullAnalysis(s, p)]

Spec       == Init /\ [][\E s \in Snapshots : Publish(s)]_store
SerialSpec == Init /\ [][\E s \in Snapshots : Replace(s)]_store
=============================================================================
