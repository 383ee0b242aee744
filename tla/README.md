# NetOps Assistant in TLA+

NetOps Assistant (`src/`) is a Django application that archives router and
switch configurations, parses them, detects services, circuits and risks in
them, compares them, collects them from the network by SNMP and SSH, and follows
VLANs over several devices.  It runs as three gunicorn processes and a handful
of management commands on one PostgreSQL database (SQLite in development).
Django's autocommit is on everywhere; the only transaction that spans more than
one call is `@transaction.atomic` around `analyze_config_snapshot`.

So the program has no threads, queues or messages of its own.  What makes it hard
is that several processes and operators work on the same rows, that nearly every
operation is a sequence of separately committed statements, and that any of them
may fail or be killed half way.  That is what the modules model.

## 1. Inventory

Paths are below `src/apps/`.

| Component | State | Operations | Talks to | Hard behaviour | What makes it correct |
|---|---|---|---|---|---|
| Snapshot analysis (`analysis/services.py`, `analysis/models.py`, `parsers/registry.py`) | ParsedConfig, DetectedService, DetectedCircuit, AnalysisIssue | `analyze_config_snapshot` | called by upload, new analysis, collector, comparison, commands | concurrent re-analysis at READ COMMITTED, failure of a detector, lock waits | whole analyses only; no detection without its analysis; waits end |
| Device status (`devices/operational.py`) | none | `get_device_status`, summaries | reads the analysis tables | three reads, no transaction | critical, warning or ok as one whole analysis calls for |
| Collector (`collector/services.py`, `models.py`, `discovery.py`, commands) | CollectorRun, CollectorTask; creates Device and ConfigSnapshot | `run_discovery`, `run_collection`, `run_full_collector` | SNMP/SSH adapters, analysis, devices | concurrent discoveries, edits and deletions under a run, any statement refused, crash, counters in memory | no address given to two devices; counters, tasks and archive agree; runs end |
| Collector pages (`collector/views.py`) | none | read-only | runs, tasks | - | - |
| Configuration archive (`config_archive/`) | ConfigSnapshot (hash) | new analysis, list, `is_duplicate_of` | devices, analysis | check then create; snapshot without analysis | two snapshots of one content only by overlapping requests or by ways that do not check |
| Device pages (`devices/views.py`) | Device, ConfigComparison | upload, compare | archive, analysis, audit | duplicate check, failed analysis after save, comparison looked up then created | no snapshot left unanalysed but by a failure; no second comparison but by overlap |
| VLAN tracking, correlation (`vlan_tracking/vlan_correlator.py`, `topology.py`, `lldp_parser.py`, `services.py`, `models.py`) | session, devices, links, VLAN definitions, interfaces, endpoints, paths, issues, evidence | `run_vlan_correlation`, link discovery, evidence | ParsedConfig of the session's devices | clean and rebuild without a transaction, manual edits in between, SET_NULL on re-analysis | a finished correlation holds what its devices and links say |
| VLAN tracking, troubleshooter and diagrams (`troubleshooter.py`, `presentation.py`, `svg_topology.py`, `operational.py`, `views.py`) | none | classification, layout | the rows above | - | the classification is total and ordered |
| Parsers (`parsers/`) | none | text to dict | registry | 5,400 lines of text matching | every block parsed once |
| Detectors (`analysis/detectors/`) | rows of the analysis | about ninety checks, some forty services, five circuit detectors | parsed data | three modules read the same objects in their own way, while a configuration is edited in any order | they agree; only what is missing is reported missing |
| Comparison (`analysis/comparison.py`, `core/comparison_views.py`) | ConfigComparison | keyed differences, impacts, validation plan, rollback plan | analysis (`_ensure_analyzed`) | check then analyse; lists of fields kept by hand; three lists of conditions on the same differences | what a section looks at never changes unseen, and what it does not look at is named; impacts have their steps; a new issue is hidden only by one with its key |
| Search, documentation, inventory pages, per-protocol helpers (`analysis/search.py`, `documentation.py`, `*_utils.py`, `*_views.py`) | none | text and tables | parsed data | - | - |
| Core (`core/`) | audit rows, groups | roles, audit, pages | all views | - | roles are ordered |
| Backup (`core/management/commands/export_operational_backup.py`) | a file | export | every table | reads without a transaction, crash while writing | old or new file; it holds all that was there when it began |
| Deployment (`docker/`, `scripts/`, templates, settings) | - | - | - | - | - |

`PROJECT.json` lists the same components with their status, and under `hazards`
the lines where each hard behaviour bites, with the property that covers it.

## 2. Plan

| # | Modules | Question | Status |
|---|---|---|---|
| 1 | `AnalysisStore`, `SnapshotAnalysis`, `SnapshotAnalysisProofs` | What do readers see while snapshots are analysed again and again by several processes? | done; every safety property proved |
| 2 | `Collector`, `CollectorProofs`, `CollectorRunsProofs` | Do runs, tasks, devices and archive agree under concurrency, deletion and crashes? | done; every safety property proved |
| 3 | `VlanSession`, `VlanSessionProofs`, `VlanSettledProofs` | What is left of a session when correlations, manual links, evidence and re-analysis interleave or fail? | done; every safety property proved |
| 4 | `VlanLists`, `ParsedData`, `VlanListsProofs` | Do the parser, the correlator and the detectors read a VLAN list alike? | done (run `config_review`); proved for lists of any length |
| 5 | `Requests`, `RequestsProofs` | What do uploads, analyses, comparisons, pages and the backup leave when they overlap or fail? | done; every property proved |
| 6 | `IssueDetection`, `ServiceDetection`, `CircuitDetection`, `Comparison`, `ConfigReview`, `ConfigReviewProofs` | Do detectors and comparison agree with each other while a configuration is edited? | done; every property proved |

How they compose: `Comparison` extends the three detector modules and
`ConfigReview` composes all of them with an operator who edits; `Requests` has
the analysis of module 1 in two steps, its lookup and its commit, so that two
analyses overlap there as they do in `SnapshotAnalysis`;
`VlanSession` takes a re-analysis as the step that sets `parsed_config` to null.

## 3. Snapshot analysis

`SnapshotAnalysis` has one worker per process that may call
`analyze_config_snapshot`, and one reader per request that asks for a device's
status.

| Model | Code |
|---|---|
| `db` | committed rows of the four analysis tables; a row is its snapshot, its kind and the key of the analysis that made it |
| `del[w]`, `ins[w]` | the uncommitted deletions (with their row locks) and insertions of a transaction |
| `want[w]` | the rows a `DELETE ... WHERE snapshot_id = s` saw when it started |
| `nextPk`, `mine[w]` | the key sequence, which a rollback does not return, and the key a worker drew |
| `RequestAnalysis` ... `Commit`, `Rollback` | the body of the function, one action per statement, in its order |
| `LockRows` | the DELETE proper: it waits for every transaction that deleted one of its rows, then deletes what is still there |
| `StatusParsed`, `StatusCritical`, `StatusWarning` | the three queries of `get_device_status` |

Assumptions.  PostgreSQL at READ COMMITTED: a statement sees what was committed
when it starts.  Each DELETE takes its row locks in one step; if PostgreSQL
broke a cycle inside one statement, the victim would be a `Rollback`, which the
model allows anywhere.  "Newest first" (`-created_at`) is the greatest key.  A
detector finds the same kinds of rows whenever it sees the same configuration
(`Yields`); which ones is a constant of the snapshot.  Issues are told apart as
critical, warning and other: "other" is high, medium, low and info.  On SQLite writers are
serial, which is a subset of these behaviours.

`AnalysisStore` is the promise to a reader: the rows of a snapshot change only
when a whole new analysis appears at once (`Publish`); with one process, it
replaces the earlier one exactly (`Replace`).

Runs:

| Run | Instance | Shows |
|---|---|---|
| `analysis_concurrent` | 3 workers (symmetric), 1 reader, 1 snapshot with all kinds, 4 keys | `DetectionsBacked`, `CompleteAnalysis`, `StatusFaithful` |
| `analysis_waits` | 2 workers, 1 reader, a snapshot with a warning and one whose issues are of other severities, fairness | `RequestsFinish`, `StatusFaithful`, and `PublishesWhole`, the refinement |
| `analysis_serial` | 1 worker, 3 snapshots, one without a parser | `ReplacesExactly` |
| `analysis_duplicates` | 2 workers, 1 snapshot | `OneAnalysisPerSnapshot` is violated |

The bound is `MaxPk`, the number of keys.  Five lets three workers start at once
on a snapshot that one analysis already filled, and leaves one more analysis to
read what they left; one snapshot is enough for the safety run because
transactions on different snapshots share no rows.

Fairness: a worker executes its statements (weak fairness), a lock wait that is
enabled again and again is won (strong fairness: PostgreSQL queues waiters), and
a vendor without a parser raises.  Neither requests nor failures are fair.

Finding: two first analyses of one snapshot both find nothing to replace and
both insert, which the README of the repository ("reanalisar o mesmo snapshot não
duplica registros") and the comment "Check if already analyzed (idempotent)"
exclude.  The next re-analysis removes only the newest ParsedConfig but all
detections, and `DetectionsBacked` and `CompleteAnalysis` say what remains true even so: the
rows shown contain one whole analysis.  In that state an older ParsedConfig may
stand without detections; a whole newer analysis is beside it.

`StatusFaithful` is exactly what `get_device_status` decides: critical if and only
if the analysis has a critical issue, warning if it has a warning but none that is
critical, ok in every other case.  The docstring asks for more: 'ok' is "última
análise sem issues" (`devices/operational.py:27`), while `detectors/issues.py`
stores some fifty kinds of issues as high, medium or low, with which line 42
answers 'ok'.  That is a difference between text and code without any
interleaving: one analysis of a snapshot like `olt` of `analysis_waits`, whose only
issues are of other severities, and one question.  The property does not
claim the docstring's 'ok'; it claims that a race never adds to the difference.

Proved (`SnapshotAnalysisProofs`), for any set of workers, readers, snapshots,
any findings and any bound: `TypeOK`, `DetectionsBacked`, `CompleteAnalysis`,
`StatusFaithful` and the refinement `Spec => PublishesWhole`.  The invariant
`IInv` adds to the types that keys are fresh (`Fresh`: no row and no other
worker has a key that was not drawn or is another's), that the insertions of a
transaction are the part of its own analysis that its statement has reached,
that what it deleted belongs to its snapshot, that a ParsedConfig it deleted has
its detections deleted or still ahead of it (the sweep of the DELETEs), and
that a reader between two queries has not missed a severity.  None of the
properties is inductive alone: `CompleteAnalysis` is preserved by a commit only
because of what is known of `ins` and `del` before it.

The finding has a converse, proved too.  As long as no two processes analyse one
snapshot at the same time (`OneAtATime`), a snapshot has at most one ParsedConfig
(`Idempotent`, which is what the comment in the code says) and each analysis
replaces the earlier one exactly (`Replacing`), whatever fails and whatever is done
to other snapshots.  Overlapping analyses of one snapshot are thus the only way to a
second ParsedConfig.  The hypothesis is about how the program is used, since nothing
in the code ensures it; one process ensures it by itself (`Serial`).  The proof
needs that a transaction past its lookup still holds the one ParsedConfig there is
(`Held`): the lookup finds it, and nobody else may replace it meanwhile.

## 4. Collector

`Collector` has one process per running management command, the operators, and
crashes.

| Model | Code |
|---|---|
| `devices`, `runs`, `tasks`, `snapshots` | the rows of Device, CollectorRun, CollectorTask and ConfigSnapshot |
| `mem[p]` | the local variables of the call: the run object with its counters (`done` stands for `discovered_count` or `collected_count`, `broken` for a summary "Erro geral"), what the loop still visits, the device at hand |
| `StartDiscovery` ... `FinishRun` | `run_discovery` and `run_collection`, one action per committed statement; `ContinueCollection` is the second half of `run_full_collector` |
| `MatchIp`, `MatchName`, `SetIp`, `CreateDevice` | `_get_or_create_device`, whose checks and writes are separate statements |
| `BodyFails` | the `except Exception` and the `else` of the task: no answer, or a statement of the body was refused, at any of them, the device deleted or still there |
| `SaveTask` | `task.save` in the inner `finally`; a foreign key to a device deleted meanwhile raises there |
| `LoopRaises` | a statement outside the body's `try` is refused (the query of the devices, `_create_task`, `task.save`): the exception leaves the loop (`Break`) |
| `FinishRun` | the outer `finally` |
| `EnterDevice`, `EditDevice`, `DeleteDevice` | operators at the pages and the admin; the admin's form writes name, address and the switch of a device at once (`Forms`), over what a discovery wrote meanwhile; a deletion sets the foreign keys of tasks and snapshots to null |
| `Crash` | the process ends anywhere; its run stays RUNNING |

Abstractions and assumptions.  The network is a choice between an answer and
none (`BodyFails`, which also stands for every exception of the adapter and for an
empty configuration).  Every other statement may be refused too, for whatever
reason: `BodyFails` and `LoopRaises` are enabled at each of them.  So a device whose
`last_collected_at` cannot be saved (`collector/services.py:228`) has its
configuration stored, is counted as collected and as failed, and its task says
failed, with the run going on.  The one statement that is only refused together with
the process (`Crash`) is the last save of the run.  The sysName a device reports
does not change and is never
an address; names longer than the column, operators who
delete snapshots, tasks or profiles, and several profiles are left out.
Collections have a profile, since
a run without one cannot be stored.  The order in which addresses and devices
are visited is left open.

Runs:

| Run | Instance | Shows |
|---|---|---|
| `collector_discovery` | 2 processes, 2 subnets with one address each, one of the device `core`, one of a device without a name; operators who switch `core` off and clear its address, or type the address of the other device, and delete devices; 2 runs, 3 devices ever created | `OneDevicePerIp`, `RunTellsItsTasks`, `ArchiveMatchesTasks`, `ProfileScanned` |
| `collector_live` | 1 process, overlapping subnets, both addresses of one device `core`, which operators enter, switch off and delete; no crash | `RunsFinish` |
| `collector_large` | 1 process, 1 subnet larger than /24, allowed | `ProfileScanned` is violated |

Bounds.  `MaxRuns` bounds the runs, `MaxDevices` the device rows ever created
(a deletion is allowed only while every name could still be created again).  Two
processes and two addresses, of devices with different names, are what the races of
`_get_or_create_device` need: two rows that could have one address, two discoveries
that meet one device, and a row whose address an operator cleared and that both want
to fill.  Three devices allow one deletion and one re-creation under a run.

What the properties say.  `OneDevicePerIp` is the promise "Match by IP first, then by
name. Avoid duplicates.": discoveries never give one address to two devices.  It is
about devices that no operator has renamed or typed an address into (`edited`), since
an operator may type the address of another device, and by renaming one between the
check and the write of a discovery lets it create the device again.
`RunTellsItsTasks` and `ArchiveMatchesTasks` relate counters that live in a process,
tasks and snapshots.  As a failed task may have its snapshot, and its device the
count of a success, they do not say that counts and successes are equal: a collection
counts its successes and some of its failed tasks, and as many configurations as it
counted are in the archive, one for each success, the others of tasks that failed
after they stored theirs.

Fairness (`FairSpec`): no process dies and each one goes on, which the timeouts
of SNMP and SSH justify; operators and new commands are not fair.

Finding: `run_discovery` validates the subnets with `allow_large` but expands
them without it, so a subnet the operator allowed with `--allow-large-subnet` is
skipped and the run reports success.

Proved (`CollectorProofs`), for any processes, subnets, addresses, names and
bounds: `TypeOK`, and `OneDevicePerIp` from `AddressInv`.  `OneDevicePerIp` is
about two writes (`SetIp`, `CreateDevice`) whose checks are stale.
`AddressInv` says why it holds: keys and names are unique, every row with an
address that no operator edited has the name that address is given (`Named`), and a
process about to write an address holds a row of that name (`Handed`).  Two such
rows with one address would have one name.

`CollectorRunsProofs` proves `RunTellsItsTasks` and `ArchiveMatchesTasks` from
`BooksInv`, and `ProfileScanned` from `ScanInv`; TLC checked both on the instance
of `collector_discovery` before.  The counters live in the memory of a process, are
raised before the task they count is saved (`collected_count` even before the
device is), and are stored once, at the end.  Between
two saves counters, tasks and snapshots therefore differ, and `Books` says by how
much at each label: one task without a result, the one in hand; one more counted
than written while it is (`Won`, `Lost`); one snapshot whose analysis is due
(`Due`).  `Archived` keeps the snapshots equal to what is counted, with the
successful tasks among them, and `Covered` says what the task in hand has already
stored, whether it will end as a success or fail.  When `task.save` itself is
refused the run ends with a general error; of its counters nothing is claimed but
`Archived`, which the memory of the process still fulfils.  `Owned` (a run has one live process) carries the
books of one process over the steps of the others, and `Told` is what a finished
run keeps when devices are deleted later.  `ScanInv` counts the tasks of a
discovery against the addresses it has taken; two tasks are never of the same
address since an address leaves the list when it is taken.  `ProfileIsScanned` has
the hypothesis that no subnet is too large to expand: the run `collector_large`
shows it is needed, and `DiscoveriesScan` says what holds without it.

## 5. VLAN tracking sessions

`VlanSession` is one session with the processes that serve its requests.
`run_vlan_correlation` deletes what it derived before in six statements and derives
it again in fourteen loops, without a transaction; each loop runs its query once
and then reads and writes row after row.

| Model | Code |
|---|---|
| `parsed` | for each device of the session, whether `VlanTrackDevice.parsed_config` is still set |
| `evidence`, `links`, `ifaces`, `defs`, `endpoints`, `paths`, `issues` | the rows of the session, each with the number of the request that created it |
| `pc[p]`, `mem[p]` | the loop a process is in, the rows of its query it has not visited, and `existing_ids` (`known`) |
| `Follow` | the order of the loops |
| `StartCorrelation`, `SubmitEvidence` | the two requests; evidence runs only the loop over its own kind |
| `CleanDefinitions`, `CleanRows`, `CleanLinks` | `_clean_derived_data`, statement by statement, with the cascades |
| `Query` | the query of the loop that comes next |
| `Normalize`, `ReadEvidence`, `SuggestLink`, `Build...`, `IsolatedEndpoint`, `UnusedVlan`, `RoutedVlan`, `UpdateCounts` | one iteration of each loop |
| `Abort`, `Crash` | an exception (unique key, foreign key, deleted row) or the end of the process; what was written stays |
| `EnterLink`, `DeleteEvidence`, `Reanalyse` | operators, and the analysis of `SnapshotAnalysis` that deletes the ParsedConfig |

Abstractions and assumptions.  One iteration of a loop is one step.  An
interface name is a number in the order of the strings, and `Short` is
`normalize_interface_name`.  What a configuration says is a constant: the VLANs of its
interfaces (`Config`), its vlan blocks (`Defined`), the links its subnets and
descriptions suggest (`Adjacent`, `Described`).  "trunk" also stands for hybrid
ports, "access" for the other modes that end a VLAN.  A row of evidence is a
submission of its own; a CSV line that cannot be read is one of an unknown
device.  The status of a link (only the admin ignores links), hostnames, raw
text, `first_seen_device`, the issue about an interface LLDP names and the
configuration lacks, links of a device with itself, links edited in the admin
and deletions of devices are left out.

Runs:

| Run | Instance | Shows |
|---|---|---|
| `vlan_session` | 1 process, 2 devices, a trunk, an access port, a subinterface, evidence of each kind, a /29 and a description that name the same trunk, manual links in both orientations, 3 requests | `TypeOK`, `SettledSession`, `ManualLinksStay` |
| `vlan_overlap` | 2 symmetric processes, 2 devices, one VLAN, a link from a subnet that the normalisation turns, 3 correlations | `PathsAreReal`, `SettledSession` |
| `vlan_reported` | 1 process, LLDP alone, a port with a long name | `ReportedLinksCarry` is violated |

`SettledSession` is the promise of a correlation to its user: when one ends that
nobody disturbed, the session holds exactly what its inputs define, each row once,
whatever earlier requests left.  `settled` and `alone` are history variables:
a correlation is undisturbed when no other request was running as it
started and nobody acted on the session until it ended.  While requests overlap
far less is true; `PathsAreReal` says what is (a path never joins ports that do not carry
its VLAN) and `ManualLinksStay` that no interleaving loses a manual link, although
`normalize_device_link` writes whole rows from copies that may be old.

Bounds.  `MaxRuns` bounds requests and manual links: two that disturb each
other and a third that must repair it.  In `vlan_overlap` two devices and one
link are enough: every loop has a row, and only processes interleave.

Deadlock is not checked in these runs: with the requests used up and every
process idle nothing is left to do.  No fairness is assumed.

Finding: evidence stores links under shortened interface names ("GE" for
"GigabitEthernet") and the correlation looks for the name of the configuration,
so an LLDP or CSV link between ports with long names carries no VLAN.  With
short names (`Trunk = 3`) the property holds.

Proved (`VlanSessionProofs`), for any processes, devices, names, configurations,
evidence and bounds: `TypeOK` and `ManualLinksStay`.  `Normalize` deletes the row
with the key of a copy it read earlier and writes that copy, so what is needed is
that the copy of a manual link still is that link.  The type `Link` says it: a
link is manual exactly when its key says so, and then joins the ports it was
entered with, and `TypeOK` says it of the links and of every copy in the memory
of a process.  The counts of `UpdateCounts` are numbers because the rows of a
session are finitely many, which is part of `TypeOK` too.

`RealPaths` is `PathsAreReal`, from `PathsInv`: every interface row is one of the
configuration, and a path has its definition and joins two ports that carry its
VLAN, through a link with the key of these ports or none.  A definition that goes
takes its paths along and a link that goes leaves them without one, so it survives
any interleaving of a clean with the loops of another request.

`VlanSettledProofs` proves `SettledSession`.  `Phase` says, for each of the twenty
loops and any rows it has left to visit, what the session holds: what the loops
before it make of the inputs, the part this loop has made of the rows it is past
(`Past`), and of the cleaned tables nothing that is older.  `SettledInv` claims it
of a correlation as long as it is undisturbed, that is, alone, and with nobody
acting on the session; it was checked on the instance of `vlan_session`
(349,855 states).  The proof has one lemma for an iteration of each loop, one for
the hand-over from a loop to the query of the next (`PhaseHandover`: nothing left to
visit is everything made), and `FinalSettles`, by which the phase at the end of the
last loop is the promise.  It holds for any devices, configurations, evidence and
links, and whatever an earlier request that failed half way left behind.

## 6. Requests over snapshots, analyses and comparisons

`Requests` is everything that creates or reads a snapshot, an analysis or a
comparison, beside the backup.  None of it runs in a transaction
(`ATOMIC_REQUESTS` is not set): a request is a sequence of statements, each
committed at once, and others run in between.

| Model | Code |
|---|---|
| `devices`, `snapshots`, `comparisons` | the rows of Device, ConfigSnapshot, ConfigComparison; the index of a row is its key |
| `analysis[s][k]`, `keys` | the rows of kind `k` (ParsedConfig, circuits, services, issues) of snapshot `s`, each by the number of the analysis that made it, and how many analyses committed |
| `req[r]` | what the request has in hand: a row to save or create, a snapshot to analyse, a page to open, or the queries still to make (`plan`) and what each found (`seen`) |
| `Upload`, `SaveSnapshot` | `device_snapshot_upload`: `is_duplicate_of`, `save`; then its analysis and the redirect |
| `LookUp`, `StoreAnalysis` | `analyze_config_snapshot`, for whichever request: its query for an earlier analysis, and its commit, others in between; `Resumed` is what the request goes on with |
| `NewAnalysis` | `new_analysis` and `analyze_config_file` with a device: `get_or_create`, no duplicate check, then the same steps |
| `Reanalyse` | `analyze_snapshot` and the collector |
| `FollowLink`, `OpenPage`, `ReadRows`, `ShowPage` | `analysis_detail`: the key of the link, `get_object_or_404`, three more queries |
| `ComparePage`, `CreateComparison` | `device_compare`: lookup, then a row without a diff |
| `CompareNew`, `EnsureAnalyzed`, `ReadRows`, `StoreComparison` | `comparison_new` and `compare_config_snapshots`: `_ensure_analyzed` finds an analysis of either snapshot or goes on to make one, two comparisons perhaps at once, then circuits, services and issues of either are read |
| `EndsEarly`, `BackupEndsEarly` | an exception or the end of the process between any two statements |
| `StartBackup`, `ReadTable`, `WriteFile`, `ReplaceFile` | `export_operational_backup`: a query per table, a temporary file, its rename |

Abstractions.  An analysis is its lookup and its commit.  Two that overlap on a
snapshot leave what `SnapshotAnalysis` shows: two first ones both stay; a later one
replaces the ParsedConfig it found and the detections that were committed when its
deletions ran, and `Analyse` chooses a time for each of these, in the order of the
statements.  `.first()` may return any of several ParsedConfigs, since the newest by
creation need not be the last that committed.  Locks and the statements in between
stay in `SnapshotAnalysis`.  A text and its
normalised form are model values (`Normal`), because `is_duplicate_of` compares
hashes of the normalised text.  `known`, `seen`, `begun` and `dropped` are
history.  A snapshot without a device (`analyze_config_file` may store one),
audit rows, and the pages that edit a device are left out.

The run `requests` checks, and `RequestsProofs` proves for any requests,
devices, texts and bounds:

- `TypeOK`: every row refers to rows that are there; nothing here deletes a
  device or a snapshot.
- `DuplicatesOverlap`: two snapshots of one device and content come from
  requests that overlapped between check and save, or from those that make no check.
- `PairsRepeatByOverlap`: the same of the comparisons of the device page.
- `UnanalysedIsAccounted`: a snapshot without an analysis is about to get one or
  its request failed after the save; a request that ends well leaves none.
- `ReadsGoForward`: a page, a comparison and a backup make several queries while
  the snapshot may be analysed again, by two requests at a time.  Once one of them
  found an analysis, no later one finds nothing, and each finds the rows of that
  analysis or of a newer one; rows of older ones may be among them, because two
  first analyses may both stay and the next one replaces one of them only.
- `FileIsWhole`: the destination of a backup is the old file or a whole new one.
- `BackupHoldsItsStart`: all that was there when the backup began is in it, and a
  reference out of the file leads to a row created meanwhile.

Bounds.  Two requests, two snapshots, three analyses, two comparisons, one
backup: the races are between two requests, a pair needs two snapshots, and three
analyses let both snapshots have one and one of them be replaced.  Two texts with
one normal form and a device that is not in the inventory are what the duplicate
check needs.  Three constraints keep TLC to the states that differ in something the
properties look at: `OneBeside` (a backup runs beside one request, not two, and
is followed to its end), `OneReader` (one reader goes beyond its second query:
readers write nothing, so two do not meet), `OneDiff` (texts and devices differ only while
nothing is being read: no reader looks at them).  The theorems have none of these limits.
Deadlock is checked.

The proofs rest on `Types`, which adds to `TypeOK` what a request has in hand
(the snapshot or the pair it speaks of is there, and a reader's plan is that of one
snapshot or one pair, also while the request rests in an analysis).  `DuplicatesOverlap` is not inductive: `HasLooked` says that
the row a request is about to save has no equal among the first `known`
snapshots, which later saves cannot change since rows are only added.
`HasLookedForPair` is the same for comparisons.  `ReadsInv` extends
`ReadsGoForward` to rows not created yet, to pages not opened yet, to comparisons
that rest in an analysis and to the backup's relation to the present.  Its core is
`Level`: of a snapshot, each of the four tables has a row of the newest analysis
that any of them has, or of a newer one.  It is what an analysis keeps, however many
overlap, because it adds to all four tables at once and deletes only beside its own
newer rows (`Newer`, `BelowKept`).  `Export` relates the tables read so far to
the rows at the start and now.

## 7. Detection and comparison

Some eight thousand lines of the code are functions from a parsed configuration, or
two, to rows.  They keep no state; what makes them hard is that detectors,
correlator and comparison read the same parsed data independently, through
hundreds of hand-written conditions and lists of fields, and that what they say must
fit together for configurations that are edited in any order.

- `ParsedData`: a configuration is a set of facts `<<object, field, value>>`.  The
  detectors read every field with `.get()` and test its truth, so a missing, empty
  or false field is no fact.
- `VlanLists`: `_expand_vlan_list`, `_expand_huawei_vlan_list`, the word-wise
  reading of `_collect_vlan_usage`, and the interfaces a tracking session extracts.
- `IssueDetection`: every check `detect_issues` calls, as `<<code, subject>>` rows.
- `ServiceDetection`: every service `detect_services` creates, with its confidence.
- `CircuitDetection`: the five circuit detectors, with what excludes what.
- `Comparison`: every section of `compare_config_snapshots`, the impacts,
  the recommendations, the validation plan and the rollback plan.
- `ConfigReview`: an operator enters lines and undoes them (`EnterLine`,
  `UndoLine`, which takes the lines of a block along), and a snapshot is taken,
  parsed and analysed now and then (`TakeSnapshot`).  `facts` and `parse` stand for
  the parser, with what it derives: VLANs of `vlan batch`, domains found twice.

Left out are wording, severities, metadata and the text diff.  Addresses
are members of small sets: the network they lie in where the code compares networks.

The run `config_review` has 27 scenarios, one for each part of a
configuration, of at most five lines each beside a fixed part.  The snapshot may be
two lines away from the device (`MaxDistance`): enough for one block and the line
that refers to it, for a definition exchanged for another, and for one change beside
another that hides it.  In every scenario each set of lines is reached and each pair
within that distance is compared.  Properties of one analysis (`just_taken`) are
looked at when the snapshot is the device, which every set of lines is in some state.

| Property | What it relates |
|---|---|
| `TypeOK` | the lines of the device and of the snapshot stay in their blocks |
| `GradesAgreeWithIssues` | the low confidence of a service and the issue about the same objects, found by different modules |
| `ListsExpand` | two expanders of VLAN lists and what the list means, if its ranges ascend |
| `UnusedVlansHide` | "VLAN unused" against the VLANs a tracking session finds: they disagree only inside a range and for BAS user VLANs |
| `SubinterfacesAreCircuits` | the circuit detectors divide the subinterfaces among them |
| `ReferencesSettle` | (action) a line that refers to nothing never makes a reference dangle when entered nor repairs one when undone |
| `ComparedDataAgrees` | a comparison that shows nothing: the configurations have the same entries and the same values in all fields that a section compares (`compared_kinds`, `compared_fields`, ...), and agree in what the comparison keeps of the data it condenses first (`condensed`) |
| `CircuitChangesAreExplained` | a circuit that came or went has its cause in the same comparison |
| `PlansFollowImpacts` | an impact has its step in the validation and the rollback plan, by the tables `validated_by`, `rolled_back_by`, `in_both_plans` |
| `NewIssuesAreShown` | a new issue is hidden from the comparison only by one of the snapshot with its key: of the same check, and about the same interface, peer or next hop where the key tells it; a check with one issue for each interface or peer hides none |

These properties name the exceptions the code has, each one exactly; the
exceptions are among what section 8 lists.  Issues are rows as the code makes them:
`bgp_route_policy_not_found` is one for each peer, direction and policy,
`traffic_policy_not_found` one for each interface, direction and policy, and
`_issue_key` sees of these the peer or the interface alone.  What a comparison
condenses is modelled as the code does it: the sections of an IP pool by where they
start (`starts`), static routes of one key, IPv6 routes to one prefix and the lines of
a prefix list by the last one (`kept_route`, `ipv6_next_hop`, `last_line`).
Which fields no section looks at is not a property: it is what `compared_fields` and
its companions leave out.

`ConfigReviewProofs` proves all of them, for any configurations whatever, not only for those of the scenarios.  The argument of each
is about one or two sets of facts.

- `ListsExpand` and `UnusedVlansHide` rest on `VlanListsProofs`, below.
- `ReferencesSettle`: each of the 24 checks for something that is not found is a
  reference of one configuration without its definition.  What refers to nothing can
  only add definitions (`FewerValues`), so a check that finds a reference dangling
  after the line found the same one before (`SettledReference`, and one lemma per
  family of checks).  Two checks first ask whether BAS or PPPoE is enabled; that the
  parser reads what these refer to only then (`switched_on`) is what the theorem
  needs there, and the type of an interface has to stay one (`one_type`).
- `ComparedDataAgrees`: a section without a change has the same keys on both sides and
  none of them differs (`NoDiff`); one lemma for each way the code compares: by fields
  (`EntriesAgree`), whole (`KindAgrees`), by the role of an interface (`RoleAgrees`),
  once per device (`SettingAgrees`), for an ISIS process (`IsisCompared`), routes by a computed key (`RoutesCompared`), and
  what is condensed by what is kept of it (`Ipv6RoutesCompared`, `LastLinesAgree`,
  `QuietPools`, `CondensedAgrees`),
  address families through their VPN instance (`KindsCompared`).
- `PlansFollowImpacts`: all impacts are written as `<<what, subject>>` rows, the
  section that can produce each row is found by its name, and its condition is
  compared with that of the step (`Plans`).
- `NewIssuesAreShown`: two issues with one key are of one check, and about one
  subject, one interface or peer, or one next hop where the key has it (`SameKey`).
- `SubinterfacesAreCircuits`: which detector takes an interface (`OneKindOfCircuit`).
- `CircuitChangesAreExplained`: an interface the comparison does not show has the
  same compared fields before and after (`UnshownInterface`), so that its circuit
  stays (`CircuitStays`), as long as no route changed.
- `GradesAgreeWithIssues`: of all the rows of `detect_issues` and `detect_services`
  only those of one check have a code (`GradedIssues`) or a type (`GradedServices`),
  which gives the issue (`IssueSubjects`) and the grade (`ServiceGrades`) as
  conditions on the same facts.

`TypeOK` needs that undoing a block takes along all that is written in it, through
any number of levels (`InBlocks`).

`VlanListsProofs` is about the two loops that expand a list of VLANs, for lists of
any length.  `_expand_vlan_list` takes a range out of the list it walks and keeps
the first word, `_expand_huawei_vlan_list` goes on behind the range.  For a list
as VRP writes it (`is_vlan_list`) both find exactly the VLANs it means
(`CorrelatorExpands`, `ParserExpands`); for any words at all, the correlator finds
only numbers that are named or lie inside a range (`CorrelatorFinds`), the parser
only VLANs (`ParserFindsVlans`).  A recursive function of the model is a CHOOSE, so it is
first shown to exist: a walk that always goes to a shorter list collects what is
found on its way (`WalkExists`).  Induction over the places of a list, which cannot
be taken from the library here, is the least counterexample of a set of naturals
(`Least`, `FromTheEnd`).

What the facts of a configuration look like is the assumption `ReviewAssumption`,
which TLC evaluates on all scenarios of the run.  It says what the parser
guarantees: facts are triples; a VPN instance, a traffic policy, a NAT address
group, a RADIUS group and a domain carry their name, and an address family that of
its VPN instance (`named_blocks`); an interface has the one type its name tells
(`one_type`); what BAS and PPPoE refer to is read only where they are enabled
(`switched_on`); the words of a VLAN list are kept as written (`vlan_lists`).  And it
says what a router allows: a line in a block within a block is in both, an
interface has one encapsulation (`one_encapsulation`), a list of VLANs is one that
VRP writes, and what holds in the absence of a line defines nothing.
One encapsulation is Huawei's: the ZTE parser writes a
VLAN without a type, and the exclusions of the circuit detectors are not meant for it.

## 8. Divergences seen while modelling

None of these contradicts a sentence of the repository that a run could refute, so
they are no findings; the model follows the code in all of them.

- `policy_utils.py` maps route policies by name, so of several nodes only the last
  one's references count, and filters of the earlier ones are reported as orphans.
- Fifty-odd issues are stored with severity high, medium or low, which are not
  choices of `AnalysisIssue.Severity`; pages count critical, warning and info.
- The docstring of `get_device_status` says that 'ok' is a last analysis without issues
  (`devices/operational.py:27`); the code answers 'ok' beside issues of these
  severities and of info (line 42).  `StatusFaithful` states what the code does.
- `_detect_ipv6_issues` is called by its tests only (and is not modelled).
- The check for duplicate route distinguishers reports one VRF that uses one in both
  address families; `pim_static_rp_not_local` is raised for every static RP.
- VLAN lists: the issues read the ends of a range only and nothing of "all"; the
  parser drops ranges that do not ascend or end above 4094, the correlator clips them;
  repeated `port trunk allow-pass vlan` lines overwrite each other in the parser.
- An undefined ACL on a VTY counts as an ACL; the reachability of a next hop
  ignores VPN instances; OSPF import policies are searched as text; the domains the parser finds a
  second time in the text make every domain one without accounting.
- A VLAN without a definition is reported only once some VLAN is defined.
- CGNAT addresses (100.64/10) are shown as public; the ISIS process appears twice among the services.
- A changed PIM VPN instance makes the comparison raise (`dict(key)` of a name).
- Issues without interface, next hop or peer share one key per code, and so do the
  missing policies of one interface or one peer, of any direction
  (`comparison.py:1891`): a new one hides behind an old one.
- Of an IP pool only the starts of its sections are compared (`comparison.py:960`): a
  section that ends elsewhere changes unseen.  Of several static routes with one key, of IPv6
  routes to one prefix and of the lines of one prefix list only the last is
  (1704, 1239, 1982), so an earlier one changes unseen.
- OSPF, VPNv4 peers, VSI blocks and the global switch of BFD are not compared, nor are
  `hybrid_tagged_vlans` and the tags of a QinQ termination (`pe_vid`, `ce_vid`) of an
  interface, and a NAT rule that moves to another interface is the same rule; of a
  QoS object only a change is compared; plans pass over removed interfaces, routes and
  peers, VPN instances, QoS, NAT and a changed local AS; the impact "BFD removed from
  the peer" never appears.
- `device_compare` creates an empty comparison, and its lookup returns that row
  for the pair from then on.
- A failed upload leaves its snapshot unanalysed, and the retry is refused as sent already.
- LLDP evidence of both ends stores one link twice, and a manual link entered in both
  orientations makes every later correlation fail after its clean.

## 9. What is only model-checked, and what is not modelled

Every safety property that holds is proved.  Only checked by TLC, on the instances
above:

- `RequestsFinish` and `RunsFinish`: liveness under fairness, which the prover does
  not do.
- `OneAnalysisPerSnapshot`, `ReportedLinksCarry` and, with a large subnet,
  `ProfileScanned`: violated, which their runs show.

Not modelled, and why:

- The text of the vendor parsers beyond what `VlanLists` and `ConfigReview` name
  (`parsers/`): one regular expression per command, no state and no order
  between commands that the detectors could see.
- `analysis/search.py`, `documentation.py`, inventory and search pages, per-protocol
  helpers: read-only text over one row, one query each; what such a reader may
  see is `ReadsGoForward` and `StatusFaithful`.
- The first 950 lines of `detectors/services.py`: an earlier copy of functions that
  `analysis/services.py` has and calls in their place.
- VLAN troubleshooter, presentation and diagrams: read-only questions whose answers
  `build_tracking_issues` also stores, which `VlanSession` models, wording and layout.
- Collector pages, roles, audit rows, deployment: single statements or scripts.
- SNMP and SSH themselves: network I/O, present as an answer or none.
- A snapshot without a device, editing and deleting of devices beside uploads
  (both are modelled in `Collector`, where they matter).

## 10. Files

- `AnalysisStore.tla`, `SnapshotAnalysis.tla`, `MCSnapshotAnalysis.tla`,
  `SnapshotAnalysisProofs.tla`, `analysis_*.cfg`
- `Collector.tla`, `MCCollector.tla`, `CollectorProofs.tla`,
  `CollectorRunsProofs.tla`, `collector_*.cfg`
- `VlanSession.tla`, `MCVlanSession.tla`, `VlanSessionProofs.tla`,
  `VlanSettledProofs.tla`, `vlan_*.cfg`
- `Requests.tla`, `MCRequests.tla`, `RequestsProofs.tla`, `requests.cfg`
- `ParsedData.tla`, `VlanLists.tla`, `VlanListsProofs.tla`, `IssueDetection.tla`, `ServiceDetection.tla`,
  `CircuitDetection.tla`, `Comparison.tla`, `ConfigReview.tla`,
  `MCConfigReview.tla`, `ConfigReviewProofs.tla`, `config_review.cfg`
- `PROJECT.json`: components, runs, the source lines of every definition, the
  faulty variants each property detects, hazards, findings and theorems

A definition whose comment starts with "Faulty" is a plausible bug of the code;
no specification uses it, and putting it in the place of the definition that
follows it makes the named property fail.
