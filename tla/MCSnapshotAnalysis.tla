------------------------- MODULE MCSnapshotAnalysis -------------------------
(***************************************************************************)
(* Instances of SnapshotAnalysis for TLC.                                  *)
(***************************************************************************)
EXTENDS SnapshotAnalysis, TLC

CONSTANTS core, edge, olt,  \* three snapshots
          w1, w2, w3        \* workers

\* core has issues of every severity and circuits, edge only a warning, and
\* olt comes from a vendor without a parser.
MCYields == (core :> {"critical", "warning", "other", "service", "circuit"})
            @@ (edge :> {"warning", "service"}) @@ (olt :> {})

\* The same, for one snapshot alone.
MCOneYields == core :> {"critical", "other", "service", "circuit"}

\* A snapshot with a warning and a circuit next to one whose issues are of
\* severities the status does not know.
MCPairYields == (edge :> {"warning", "circuit"}) @@ (olt :> {"other"})

\* Workers are interchangeable in the safety runs.
MCSymmetry == Permutations(Workers)
=============================================================================
