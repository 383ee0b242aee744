------------------------------ MODULE Requests ------------------------------
(***************************************************************************)
(* The requests that create snapshots, analyses and comparisons, beside the *)
(* backup command that exports them: device_snapshot_upload and             *)
(* device_compare (apps/devices/views.py), new_analysis                     *)
(* (apps/config_archive/views.py), comparison_new                           *)
(* (apps/core/comparison_views.py) with compare_config_snapshots,           *)
(* analysis_detail (apps/analysis/views.py), the analyze_snapshot command   *)
(* and export_operational_backup.                                           *)
(*                                                                         *)
(* None of them runs in a transaction: every query is a statement of its   *)
(* own.  Only an analysis is atomic: it looks for an earlier analysis, and *)
(* what it did appears at its commit; its statements and locks are         *)
(* SnapshotAnalysis.  A row is a number: its primary key.  The rows of an  *)
(* analysis have its key, the number of its commit, so a reader of any     *)
(* analysis table sees of which analyses the rows are.                     *)
(***************************************************************************)
EXTENDS Naturals, Sequences

CONSTANTS Requests,       \* the requests at work at one time
          Devices,        \* device names
          FirstDevices,   \* those in the inventory at the start
          Texts,          \* the configurations that are uploaded
          Normal,         \* Normal[t]: t stripped, its line ends made \n
          MaxSnapshots,   \* bound: snapshots created
          MaxAnalyses,    \* bound: analyses made
          MaxComparisons, \* bound: comparisons created
          MaxBackups      \* bound: backups begun

ASSUME RequestsAssumption ==
    /\ FirstDevices \subseteq Devices
    /\ Normal \in [Texts -> Texts]
    /\ {MaxSnapshots, MaxAnalyses, MaxComparisons, MaxBackups} \subseteq Nat

VARIABLES devices,      \* the Device rows
          snapshots,    \* snapshots[s]: the ConfigSnapshot row s
          analysis,     \* analysis[s][k]: the keys of its rows of kind k
          keys,         \* the analyses committed
          comparisons,  \* comparisons[c]: the ConfigComparison row c
          req,          \* req[r]: what request r has in hand
          dropped,      \* history: snapshots whose request ended before
                        \* their analysis
          backup,       \* the export the command builds
          backups,      \* backups begun
          destination   \* the backup file; <<>> is what was there before

rows == <<devices, snapshots, analysis, keys, comparisons, dropped>>
disk == <<backup, backups, destination>>
vars == <<rows, req, disk>>

-----------------------------------------------------------------------------
(* Rows.  "known" is history: how many rows there were when the request     *)
(* looked for an equal one, 0 when it never looks.  "seen" is what the diff *)
(* of a comparison was made from, <<>> for one without a diff.  The rows of  *)
(* an analysis are its ParsedConfig and those of three kinds of detections.  *)

Snapshot   == [device : Devices, text : Texts, known : 0..MaxSnapshots]
Comparison == [base : 1..MaxSnapshots, target : 1..MaxSnapshots,
               known : 0..MaxComparisons, seen : Seq(SUBSET (1..MaxAnalyses))]

Kinds == {"parsed", "circuits", "services", "issues"}

NoRows == [k \in Kinds |-> {}]

Detections == Kinds \ {"parsed"}

Analysed(s) == analysis[s]["parsed"] # {}

\* Faulty: the texts are compared as they were sent.
is_duplicate_of_raw(d, t) ==
    \E s \in DOMAIN snapshots :
        snapshots[s].device = d /\ snapshots[s].text = t

\* is_duplicate_of: a snapshot of the device with the hash of this text.
is_duplicate_of(d, t) ==
    \E s \in DOMAIN snapshots :
        snapshots[s].device = d /\ Normal[snapshots[s].text] = Normal[t]

\* Faulty: base and target are taken for each other.
existing_swapped(b, t) ==
    \E c \in DOMAIN comparisons :
        comparisons[c].base = t /\ comparisons[c].target = b

\* The comparison the device page finds for a pair.
existing(b, t) ==
    \E c \in DOMAIN comparisons :
        comparisons[c].base = b /\ comparisons[c].target = t

\* The row ParsedConfig.objects.filter(snapshot=s).first() may return, 0 for
\* none: the last one created, which need not be the last one committed.
First(s) == IF Analysed(s) THEN analysis[s]["parsed"] ELSE {0}

\* The rows of kind k that an analysis of s leaves.  With an earlier one found,
\* its ParsedConfig goes, and so do the detections that are there when their
\* deletion runs: at[k] analyses were committed then.
Left(s, had, at, k) ==
    IF had = 0 THEN analysis[s][k]
    ELSE IF k = "parsed" THEN analysis[s][k] \ {had}
    ELSE {a \in analysis[s][k] : a > at[k]}

\* The commit of analyze_config_snapshot, which found the analysis had when since
\* analyses were committed.  It deletes issues, circuits and services, in this
\* order.
Analyse(s, had, since) ==
    /\ keys < MaxAnalyses
    /\ keys' = keys + 1
    /\ \E at \in [Detections -> since..keys] :
          /\ at["issues"] <= at["circuits"] /\ at["circuits"] <= at["services"]
          /\ analysis' = [analysis EXCEPT ![s] =
                              [k \in Kinds |-> Left(s, had, at, k) \cup {keys + 1}]]
    /\ dropped' = dropped \ {s}

-----------------------------------------------------------------------------
(* A request: nothing in hand; a snapshot to save; an analysis to begin or *)
(* to store, and what comes after it; a page to open; a comparison to      *)
(* create; or queries to make, "plan" the snapshots they are for and       *)
(* "seen" what each of them found.                                         *)

Idle            == [pc |-> "idle"]
Saving(row)     == [pc |-> "save", row |-> row]
Opening(s, k)   == [pc |-> "open", snap |-> s, key |-> k]
Creating(row)   == [pc |-> "create", row |-> row]

Analysing(s, back) == [pc |-> "analyse", snap |-> s, back |-> back]
Storing(s, back, had, since) ==
    [pc |-> "store", snap |-> s, back |-> back, had |-> had, since |-> since]

Page(s, k)      == [pc |-> "page", plan |-> <<s, s, s, s>>, seen |-> <<{k}>>]
Comparing(b, t) == [pc |-> "compare", plan |-> <<b, t, b, t, b, t, b, t>>, seen |-> <<>>]

\* What the queries of a page and of a comparison ask for, in their order.
PageKinds    == <<"parsed", "circuits", "issues", "services">>
CompareKinds == <<"parsed", "parsed", "circuits", "circuits",
                  "services", "services", "issues", "issues">>

\* What the request in hand goes on with once its analysis has the key k.
Resumed(back, k) ==
    CASE back.pc = "open"    -> [back EXCEPT !.key = k]
      [] back.pc = "compare" -> [back EXCEPT !.seen = Append(@, {k})]
      [] OTHER               -> back

Init ==
    /\ devices = FirstDevices
    /\ snapshots = <<>> /\ analysis = <<>> /\ keys = 0
    /\ comparisons = <<>>
    /\ req = [r \in Requests |-> Idle]
    /\ dropped = {}
    /\ backup = [pc |-> "idle"] /\ backups = 0 /\ destination = <<>>

Goes(r, from, to) == req[r].pc = from /\ req' = [req EXCEPT ![r] = to]

\* device_snapshot_upload: refused as a duplicate, or to be saved.
Upload(r, d, t) ==
    /\ d \in devices
    /\ ~ is_duplicate_of(d, t)
    /\ Goes(r, "idle", Saving([device |-> d, text |-> t, known |-> Len(snapshots)]))
    /\ UNCHANGED <<rows, disk>>

\* Faulty: the device is taken to be in the inventory.
NewAnalysisNoDevice(r, d, t) ==
    /\ Goes(r, "idle", Saving([device |-> d, text |-> t, known |-> 0]))
    /\ UNCHANGED <<rows, disk>>

\* new_analysis and analyze_config_file: get_or_create of the device, and no
\* duplicate is looked for.
NewAnalysis(r, d, t) ==
    /\ devices' = devices \cup {d}
    /\ Goes(r, "idle", Saving([device |-> d, text |-> t, known |-> 0]))
    /\ UNCHANGED <<snapshots, analysis, keys, comparisons, dropped, disk>>

\* Faulty: the duplicate is looked for once the snapshot is there.
SaveSnapshotFirst(r) ==
    /\ req[r].pc = "save"
    /\ Len(snapshots) < MaxSnapshots
    /\ snapshots' = Append(snapshots, req[r].row)
    /\ analysis' = Append(analysis, NoRows)
    /\ Goes(r, "save", IF is_duplicate_of(req[r].row.device, req[r].row.text)
                          THEN Idle
                          ELSE Analysing(Len(snapshots) + 1, Opening(Len(snapshots) + 1, 0)))
    /\ UNCHANGED <<devices, keys, comparisons, dropped, disk>>

SaveSnapshot(r) ==
    /\ req[r].pc = "save"
    /\ Len(snapshots) < MaxSnapshots
    /\ snapshots' = Append(snapshots, req[r].row)
    /\ analysis' = Append(analysis, NoRows)
    /\ Goes(r, "save", Analysing(Len(snapshots) + 1, Opening(Len(snapshots) + 1, 0)))
    /\ UNCHANGED <<devices, keys, comparisons, dropped, disk>>

\* analyze_snapshot, or the collector, analyses a snapshot again.
Reanalyse(r, s) ==
    /\ Goes(r, "idle", Analysing(s, Idle))
    /\ UNCHANGED <<rows, disk>>

\* The transaction begins: the query for an earlier analysis.
LookUp(r) ==
    /\ req[r].pc = "analyse"
    /\ \E had \in First(req[r].snap) :
          Goes(r, "analyse", Storing(req[r].snap, req[r].back, had, keys))
    /\ UNCHANGED <<rows, disk>>

\* Faulty: the deletion is committed by itself.
StoreAnalysisDeletes(r) ==
    /\ req[r].pc = "store"
    /\ \/ /\ req[r].had # 0
          /\ analysis' = [analysis EXCEPT ![req[r].snap] = NoRows]
          /\ Goes(r, "store", [req[r] EXCEPT !.had = 0])
          /\ UNCHANGED <<keys, dropped>>
       \/ /\ req[r].had = 0
          /\ Analyse(req[r].snap, 0, req[r].since)
          /\ Goes(r, "store", Resumed(req[r].back, keys + 1))
    /\ UNCHANGED <<devices, snapshots, comparisons, disk>>

\* The commit.  The request redirects to the page of the analysis it got, or
\* the comparison goes on with it.
StoreAnalysis(r) ==
    /\ req[r].pc = "store"
    /\ Analyse(req[r].snap, req[r].had, req[r].since)
    /\ Goes(r, "store", Resumed(req[r].back, keys + 1))
    /\ UNCHANGED <<devices, snapshots, comparisons, disk>>

\* analysis_detail from a link in a list.
FollowLink(r, s) ==
    /\ \E k \in analysis[s]["parsed"] : Goes(r, "idle", Opening(s, k))
    /\ UNCHANGED <<rows, disk>>

\* get_object_or_404: the ParsedConfig of that key, if it is still there.
OpenPage(r) ==
    /\ req[r].pc = "open"
    /\ Goes(r, "open", IF req[r].key \in analysis[req[r].snap]["parsed"]
                          THEN Page(req[r].snap, req[r].key) ELSE Idle)
    /\ UNCHANGED <<rows, disk>>

-----------------------------------------------------------------------------
(* Comparisons.                                                             *)

\* device_compare: the pair has a comparison, or one is to be created.
ComparePage(r, b, t) ==
    /\ b # t /\ snapshots[b].device = snapshots[t].device
    /\ ~ existing(b, t)
    /\ Goes(r, "idle", Creating([base |-> b, target |-> t,
                                 known |-> Len(comparisons), seen |-> <<>>]))
    /\ UNCHANGED <<rows, disk>>

\* comparison_new: any two snapshots.
CompareNew(r, b, t) ==
    /\ b # t
    /\ Goes(r, "idle", Comparing(b, t))
    /\ UNCHANGED <<rows, disk>>

Ahead(r) == req[r].plan[Len(req[r].seen) + 1]
KindAhead(r) ==
    (IF req[r].pc = "page" THEN PageKinds ELSE CompareKinds)[Len(req[r].seen) + 1]
Read(r, k) == req' = [req EXCEPT ![r].seen = Append(@, k)]

\* The rows of the next query that are there now; of the ParsedConfigs, one.
ReadRows(r) ==
    /\ req[r].pc \in {"page", "compare"}
    /\ Len(req[r].seen) < Len(req[r].plan)
    /\ LET found == analysis[Ahead(r)][KindAhead(r)]
       IN  \/ KindAhead(r) = "parsed" /\ \E k \in found : Read(r, {k})
           \/ KindAhead(r) # "parsed" /\ Read(r, found)
    /\ UNCHANGED <<rows, disk>>

\* _ensure_analyzed finds no ParsedConfig: the snapshot is analysed first.
EnsureAnalyzed(r) ==
    /\ req[r].pc = "compare" /\ Len(req[r].seen) < 2
    /\ ~ Analysed(Ahead(r))
    /\ Goes(r, "compare", Analysing(Ahead(r), req[r]))
    /\ UNCHANGED <<rows, disk>>

\* compare_config_snapshots creates its row, filled; a page is shown.
AllRead(r) == req[r].pc \in {"page", "compare"} /\ Len(req[r].seen) = Len(req[r].plan)

StoreComparison(r) ==
    /\ AllRead(r) /\ req[r].pc = "compare"
    /\ Goes(r, "compare", Creating([base |-> req[r].plan[1], target |-> req[r].plan[2],
                                    known |-> 0, seen |-> req[r].seen]))
    /\ UNCHANGED <<rows, disk>>

ShowPage(r) ==
    /\ AllRead(r)
    /\ Goes(r, "page", Idle)
    /\ UNCHANGED <<rows, disk>>

CreateComparison(r) ==
    /\ req[r].pc = "create"
    /\ Len(comparisons) < MaxComparisons
    /\ comparisons' = Append(comparisons, req[r].row)
    /\ Goes(r, "create", Idle)
    /\ UNCHANGED <<devices, snapshots, analysis, keys, dropped, disk>>

\* The request in hand is to analyse the snapshot it saved.
Owes(r, s) ==
    req[r].pc \in {"analyse", "store"} /\ req[r].snap = s /\ req[r].back.pc = "open"

\* An exception in the parser, a detector or the comparison, or the end of the
\* process: nothing is undone but the transaction of an analysis.
EndsEarly(r) ==
    /\ req[r].pc # "idle"
    /\ req' = [req EXCEPT ![r] = Idle]
    /\ dropped' = dropped \cup {s \in DOMAIN snapshots : Owes(r, s) /\ ~ Analysed(s)}
    /\ UNCHANGED <<devices, snapshots, analysis, keys, comparisons, disk>>

-----------------------------------------------------------------------------
(* export_operational_backup: table after table, then a temporary file that *)
(* takes the place of the destination.  "begun" is history: the rows that   *)
(* were there at the start.                                                 *)

Tables == <<"devices", "snapshots", "parsed", "circuits", "services", "issues", "comparisons">>

AnalysisTables == 3..6   \* those of Tables an analysis writes, the Kinds

\* Faulty: only snapshots that have an analysis.
ContentsAnalysed(table) ==
    CASE table = "devices"     -> devices
      [] table = "snapshots"   -> {s \in DOMAIN snapshots : Analysed(s)}
      [] table = "comparisons" -> {[base |-> comparisons[c].base, target |-> comparisons[c].target] :
                                        c \in DOMAIN comparisons}
      [] OTHER                 -> [s \in DOMAIN snapshots |-> analysis[s][table]]

Contents(table) ==
    CASE table = "devices"     -> devices
      [] table = "snapshots"   -> DOMAIN snapshots
      [] table = "comparisons" -> {[base |-> comparisons[c].base, target |-> comparisons[c].target] :
                                        c \in DOMAIN comparisons}
      [] OTHER                 -> [s \in DOMAIN snapshots |-> analysis[s][table]]

StartBackup ==
    /\ backup.pc = "idle" /\ backups < MaxBackups
    /\ backups' = backups + 1
    /\ backup' = [pc |-> "read", tables |-> <<>>,
                  begun |-> [devices |-> devices, snapshots |-> Len(snapshots)]]
    /\ UNCHANGED <<rows, req, destination>>

\* Faulty: the destination itself is opened, table after table goes into it.
ReadTableInPlace ==
    /\ backup.pc = "read" /\ Len(backup.tables) < Len(Tables)
    /\ destination' = [tables |-> backup.tables, begun |-> backup.begun]
    /\ backup' = [backup EXCEPT !.tables = Append(@, Contents(Tables[Len(@) + 1]))]
    /\ UNCHANGED <<rows, req, backups>>

ReadTable ==
    /\ backup.pc = "read" /\ Len(backup.tables) < Len(Tables)
    /\ backup' = [backup EXCEPT !.tables = Append(@, Contents(Tables[Len(@) + 1]))]
    /\ UNCHANGED <<rows, req, backups, destination>>

\* The temporary file is written; its name is its own and nobody reads it.
WriteFile ==
    /\ backup.pc = "read" /\ Len(backup.tables) = Len(Tables)
    /\ backup' = [backup EXCEPT !.pc = "written"]
    /\ UNCHANGED <<rows, req, backups, destination>>

ReplaceFile ==
    /\ backup.pc = "written"
    /\ destination' = [tables |-> backup.tables, begun |-> backup.begun]
    /\ backup' = [pc |-> "idle"]
    /\ UNCHANGED <<rows, req, backups>>

\* An exception or the end of the command; at most the temporary file is left.
BackupEndsEarly ==
    /\ backup.pc # "idle"
    /\ backup' = [pc |-> "idle"]
    /\ UNCHANGED <<rows, req, backups, destination>>

-----------------------------------------------------------------------------
RequestStep(r) ==
    \/ \E d \in Devices, t \in Texts : Upload(r, d, t) \/ NewAnalysis(r, d, t)
    \/ SaveSnapshot(r)
    \/ LookUp(r)
    \/ StoreAnalysis(r)
    \/ \E s \in DOMAIN snapshots : Reanalyse(r, s) \/ FollowLink(r, s)
    \/ OpenPage(r)
    \/ \E b, t \in DOMAIN snapshots : ComparePage(r, b, t) \/ CompareNew(r, b, t)
    \/ ReadRows(r)
    \/ EnsureAnalyzed(r)
    \/ StoreComparison(r)
    \/ ShowPage(r)
    \/ CreateComparison(r)
    \/ EndsEarly(r)

Next ==
    \/ \E r \in Requests : RequestStep(r)
    \/ StartBackup \/ ReadTable \/ WriteFile \/ ReplaceFile \/ BackupEndsEarly

Spec == Init /\ [][Next]_vars

-----------------------------------------------------------------------------
(* Properties.                                                              *)

\* The rows have the shape of their tables, and every row refers to rows that
\* exist: nothing here deletes a device or a snapshot.
TypeOK ==
    /\ devices \subseteq Devices
    /\ \A s \in DOMAIN snapshots :
          snapshots[s] \in Snapshot /\ snapshots[s].device \in devices
    /\ analysis \in Seq([Kinds -> SUBSET (1..keys)]) /\ Len(analysis) = Len(snapshots)
    /\ keys \in 0..MaxAnalyses
    /\ \A c \in DOMAIN comparisons :
          /\ comparisons[c] \in Comparison
          /\ {comparisons[c].base, comparisons[c].target} \subseteq DOMAIN snapshots
    /\ dropped \subseteq DOMAIN snapshots
    /\ \A r \in Requests :
          req[r].pc \in {"idle", "save", "analyse", "store", "open", "create", "page",
                         "compare"}
    /\ backup.pc \in {"idle", "read", "written"}

\* Two snapshots of one device with one hash come only from requests that
\* overlapped, or from the form and the commands, which look for none
\* (device_snapshot_upload, is_duplicate_of and the save are two statements).
DuplicatesOverlap ==
    \A s, u \in DOMAIN snapshots :
        (/\ s < u
         /\ snapshots[s].device = snapshots[u].device
         /\ Normal[snapshots[s].text] = Normal[snapshots[u].text]) => snapshots[u].known < s

\* The device page gives a pair a second comparison only when the first was
\* created between its lookup and its create (device_compare).
PairsRepeatByOverlap ==
    \A c, e \in DOMAIN comparisons :
        (/\ c < e
         /\ comparisons[c].base = comparisons[e].base
         /\ comparisons[c].target = comparisons[e].target) => comparisons[e].known < c

\* A snapshot without an analysis is one whose request is about to analyse it,
\* or whose request failed or died after the save: a refused or finished
\* request leaves none behind (device_snapshot_upload, new_analysis).
UnanalysedIsAccounted ==
    \A s \in DOMAIN snapshots :
        Analysed(s) \/ s \in dropped \/ \E r \in Requests : Owes(r, s)

\* What is read of one snapshot, query after query, while it may be analysed
\* again, by two requests at a time: once an analysis was found no later query
\* comes back empty, and each returns the rows of that analysis or of a newer
\* one, though rows of older ones may be among them.
Forward(plan, seen) ==
    \A i, j \in DOMAIN seen : (i <= j /\ plan[i] = plan[j]) =>
        seen[i] # {} /\ \A k \in seen[i] : \E l \in seen[j] : k <= l

\* The page of an analysis, a comparison and the backup never show an analysis
\* that is half deleted, nor only detections older than the parsed data beside
\* them, although two first analyses may both stay and a later one replaces only
\* one of them (analysis_detail, compare_config_snapshots, _ensure_analyzed,
\* export_operational_backup).
ReadsGoForward ==
    /\ \A r \in Requests :
          req[r].pc \in {"page", "compare"} => Forward(req[r].plan, req[r].seen)
    /\ \A c \in DOMAIN comparisons :
          Forward(Comparing(comparisons[c].base, comparisons[c].target).plan,
                  comparisons[c].seen)
    /\ backup.pc # "idle" =>
          \A i, j \in DOMAIN backup.tables \cap AnalysisTables : i < j =>
              \A s \in DOMAIN backup.tables[i] :
                  /\ s \in DOMAIN backup.tables[j]
                  /\ \A k \in backup.tables[i][s] : \E l \in backup.tables[j][s] : k <= l

\* The destination of a backup is what was there before or a whole export,
\* whenever the command fails or is killed.
FileIsWhole == destination # <<>> => DOMAIN destination.tables = DOMAIN Tables

\* Whatever existed when the backup began is in it, and a row of the file that
\* refers to a row the file lacks refers to one created while it was made.
BackupHoldsItsStart ==
    (destination # <<>> /\ DOMAIN destination.tables = DOMAIN Tables) =>
    LET began == destination.begun
        file  == destination.tables
        New(s) == s > began.snapshots
    IN  /\ began.devices \subseteq file[1]
        /\ 1..began.snapshots \subseteq file[2]
        /\ \A s \in file[2] :
              snapshots[s].device \in file[1] \/ snapshots[s].device \notin began.devices
        /\ \A i \in AnalysisTables : \A s \in DOMAIN file[i] :
              file[i][s] # {} => s \in file[2] \/ New(s)
        /\ \A c \in file[7] :
              \A s \in {c.base, c.target} : s \in file[2] \/ New(s)
=============================================================================
