-------------------------- MODULE SnapshotAnalysis --------------------------
(***************************************************************************)
(* analyze_config_snapshot (apps/analysis/services.py): the one transaction *)
(* of the program.  Each worker is a request of a gunicorn process or a    *)
(* management command; it deletes what an earlier analysis of the snapshot *)
(* left, parses the configuration, stores the ParsedConfig and runs the    *)
(* detectors, all inside @transaction.atomic.                              *)
(*                                                                         *)
(* The database is PostgreSQL at READ COMMITTED: every statement sees the  *)
(* rows committed when it starts and the transaction's own writes, and a   *)
(* DELETE waits for the transaction that already deleted one of its rows.  *)
(*                                                                         *)
(* Readers are get_device_status (apps/devices/operational.py): three      *)
(* queries outside any transaction.                                        *)
(***************************************************************************)
EXTENDS Naturals, FiniteSets

CONSTANTS Workers,      \* processes that may analyse
          Readers,      \* processes that ask for a device's status
          Snapshots,    \* the ConfigSnapshot rows with a configuration
          Unsupported,  \* those whose vendor has no parser
          NoSnapshot,   \* what an idle worker or reader works on
          Yields,       \* Yields[s]: kinds of rows the detectors find in s
          MaxPk         \* bound: ParsedConfig keys handed out

\* An issue is known by its severity; "other" stands for high, medium, low and
\* info, which get_device_status does not ask for.
IssueKinds == {"critical", "warning", "other"}
Kinds      == IssueKinds \cup {"service", "circuit"}

ASSUME AnalysisAssumption ==
    /\ Unsupported \subseteq Snapshots
    /\ NoSnapshot \notin Snapshots
    /\ Yields \in [Snapshots -> SUBSET Kinds]
    /\ MaxPk \in Nat

VARIABLES db,      \* committed rows of the analysis tables
          nextPk,  \* the key sequence of ParsedConfig, never rolled back
          pc,      \* pc[w]: the statement w executes next
          snap,    \* snap[w]: the snapshot w analyses
          mine,    \* mine[w]: the key of the ParsedConfig w created
          want,    \* want[w]: the rows w's DELETE statement selected
          del,     \* del[w]: rows w deleted and has locked, uncommitted
          ins,     \* ins[w]: rows w inserted, uncommitted
          rpc,     \* rpc[r]: the query r executes next
          rsnap,   \* rsnap[r]: the device's last snapshot, fixed by r
          answer   \* answer[r]: the status r returned last

txVars     == <<pc, snap, mine, want, del, ins>>
readerVars == <<rpc, rsnap, answer>>
vars       == <<db, nextPk, txVars, readerVars>>

Row(s, k, p)       == [snap |-> s, kind |-> k, pk |-> p]
Rows               == [snap : Snapshots, kind : Kinds \cup {"parsed"}, pk : Nat]
FullAnalysis(s, p) == {Row(s, k, p) : k \in Yields[s] \cup {"parsed"}}
RowsOf(S, K, s)    == {r \in S : r.kind \in K /\ r.snap = s}
Analysed(s)        == RowsOf(db, {"parsed"}, s) # {}

\* Faulty: the DELETE of the circuits is missing.
AfterLockNoCircuits == [lock_parsed   |-> "issues",   lock_issues   |-> "services",
                        lock_circuits |-> "services", lock_services |-> "parse"]

\* The statement that follows each DELETE.
AfterLock == [lock_parsed   |-> "issues",   lock_issues   |-> "circuits",
              lock_circuits |-> "services", lock_services |-> "parse"]
LockStages == DOMAIN AfterLock
Stages     == {"idle", "read", "issues", "circuits", "services", "parse",
               "detect_services", "detect_issues", "detect_circuits", "commit"}
              \cup LockStages

Init == /\ db = {}
        /\ nextPk = 1
        /\ pc = [w \in Workers |-> "idle"]
        /\ snap = [w \in Workers |-> NoSnapshot]
        /\ mine = [w \in Workers |-> 0]
        /\ want = [w \in Workers |-> {}]
        /\ del = [w \in Workers |-> {}]
        /\ ins = [w \in Workers |-> {}]
        /\ rpc = [r \in Readers |-> "idle"]
        /\ rsnap = [r \in Readers |-> NoSnapshot]
        /\ answer = [r \in Readers |-> "none"]

-----------------------------------------------------------------------------
(* A request: views, the collector and the commands all just call the      *)
(* function.  The first guard is the bound: every request in progress may  *)
(* still take a key.                                                       *)
RequestAnalysis(w, s) ==
    /\ nextPk + Cardinality({v \in Workers : pc[v] # "idle"}) <= MaxPk
    /\ pc[w] = "idle"
    /\ pc' = [pc EXCEPT ![w] = "read"]
    /\ snap' = [snap EXCEPT ![w] = s]
    /\ UNCHANGED <<db, nextPk, mine, want, del, ins, readerVars>>

\* Faulty: the lookup misses the earlier analysis.
ReadExistingMissed(w) ==
    /\ pc[w] = "read"
    /\ pc' = [pc EXCEPT ![w] = "parse"]
    /\ UNCHANGED <<db, nextPk, snap, mine, want, del, ins, readerVars>>

(* ParsedConfig.objects.filter(snapshot=snapshot).first(): newest first.   *)
(* That its parsed_data is not empty is asked too, and always true: each   *)
(* parser starts from a dict with the vendor in it, whatever the text.     *)
ReadExisting(w) ==
    /\ pc[w] = "read"
    /\ LET found == RowsOf(db, {"parsed"}, snap[w])
       IN  \/ /\ found = {}
              /\ pc' = [pc EXCEPT ![w] = "parse"]
              /\ UNCHANGED want
           \/ \E r \in found :
                /\ \A q \in found : q.pk <= r.pk
                /\ want' = [want EXCEPT ![w] = {r}]
                /\ pc' = [pc EXCEPT ![w] = "lock_parsed"]
    /\ UNCHANGED <<db, nextPk, snap, mine, del, ins, readerVars>>

(* The rows a DELETE ... WHERE snapshot_id = s sees when it starts.        *)
Select(w, stage, K, next) ==
    /\ pc[w] = stage
    /\ want' = [want EXCEPT ![w] = RowsOf(db \ del[w], K, snap[w])]
    /\ pc' = [pc EXCEPT ![w] = next]
    /\ UNCHANGED <<db, nextPk, snap, mine, del, ins, readerVars>>

DeleteIssues(w)   == Select(w, "issues", IssueKinds, "lock_issues")
DeleteCircuits(w) == Select(w, "circuits", {"circuit"}, "lock_circuits")
DeleteServices(w) == Select(w, "services", {"service"}, "lock_services")

\* Faulty: without @transaction.atomic the DELETE is committed at once.
LockRowsAutocommit(w) ==
    /\ pc[w] \in LockStages
    /\ \A v \in Workers \ {w} : del[v] \cap want[w] = {}
    /\ db' = db \ want[w]
    /\ want' = [want EXCEPT ![w] = {}]
    /\ pc' = [pc EXCEPT ![w] = AfterLock[pc[w]]]
    /\ UNCHANGED <<nextPk, snap, mine, del, ins, readerVars>>

(* The DELETE itself: it waits for every transaction that holds one of the *)
(* rows, then deletes those that are still there.                          *)
LockRows(w) ==
    /\ pc[w] \in LockStages
    /\ \A v \in Workers \ {w} : del[v] \cap want[w] = {}
    /\ del' = [del EXCEPT ![w] = @ \cup (want[w] \cap db)]
    /\ want' = [want EXCEPT ![w] = {}]
    /\ pc' = [pc EXCEPT ![w] = AfterLock[pc[w]]]
    /\ UNCHANGED <<db, nextPk, snap, mine, ins, readerVars>>

\* Faulty: the ParsedConfig is committed before the detectors run.
StoreParsedEarly(w) ==
    /\ pc[w] = "parse"
    /\ snap[w] \notin Unsupported
    /\ nextPk <= MaxPk
    /\ db' = db \cup {Row(snap[w], "parsed", nextPk)}
    /\ ins' = [ins EXCEPT ![w] = {Row(snap[w], "parsed", nextPk)}]
    /\ mine' = [mine EXCEPT ![w] = nextPk]
    /\ nextPk' = nextPk + 1
    /\ pc' = [pc EXCEPT ![w] = "detect_services"]
    /\ UNCHANGED <<snap, want, del, readerVars>>

(* get_parser_for_vendor, parse and ParsedConfig.objects.create.           *)
StoreParsed(w) ==
    /\ pc[w] = "parse"
    /\ snap[w] \notin Unsupported
    /\ nextPk <= MaxPk
    /\ ins' = [ins EXCEPT ![w] = {Row(snap[w], "parsed", nextPk)}]
    /\ mine' = [mine EXCEPT ![w] = nextPk]
    /\ nextPk' = nextPk + 1
    /\ pc' = [pc EXCEPT ![w] = "detect_services"]
    /\ UNCHANGED <<db, snap, want, del, readerVars>>

\* Faulty: a detector's rows are committed one by one.
DetectAutocommit(w, stage, K, next) ==
    /\ pc[w] = stage
    /\ db' = db \cup {Row(snap[w], k, mine[w]) : k \in K \cap Yields[snap[w]]}
    /\ pc' = [pc EXCEPT ![w] = next]
    /\ UNCHANGED <<nextPk, snap, mine, want, del, ins, readerVars>>

(* A detector saves one row per finding; what it finds depends only on the *)
(* configuration.                                                          *)
Detect(w, stage, K, next) ==
    /\ pc[w] = stage
    /\ ins' = [ins EXCEPT ![w] = @ \cup {Row(snap[w], k, mine[w]) :
                                           k \in K \cap Yields[snap[w]]}]
    /\ pc' = [pc EXCEPT ![w] = next]
    /\ UNCHANGED <<db, nextPk, snap, mine, want, del, readerVars>>

DetectServices(w) == Detect(w, "detect_services", {"service"}, "detect_issues")
DetectIssues(w)   == Detect(w, "detect_issues", IssueKinds, "detect_circuits")
DetectCircuits(w) == Detect(w, "detect_circuits", {"circuit"}, "commit")

\* Faulty: the worker goes on after its transaction is gone.
EndTransactionGoesOn(w) ==
    /\ pc' = [pc EXCEPT ![w] = "parse"]
    /\ snap' = [snap EXCEPT ![w] = NoSnapshot]
    /\ mine' = [mine EXCEPT ![w] = 0]
    /\ want' = [want EXCEPT ![w] = {}]
    /\ del' = [del EXCEPT ![w] = {}]
    /\ ins' = [ins EXCEPT ![w] = {}]

\* Faulty: the row locks outlive the transaction.
EndTransactionKeepsLocks(w) ==
    /\ pc' = [pc EXCEPT ![w] = "idle"]
    /\ snap' = [snap EXCEPT ![w] = NoSnapshot]
    /\ mine' = [mine EXCEPT ![w] = 0]
    /\ want' = [want EXCEPT ![w] = {}]
    /\ ins' = [ins EXCEPT ![w] = {}]
    /\ UNCHANGED del

(* The transaction of w is over.                                           *)
EndTransaction(w) ==
    /\ pc' = [pc EXCEPT ![w] = "idle"]
    /\ snap' = [snap EXCEPT ![w] = NoSnapshot]
    /\ mine' = [mine EXCEPT ![w] = 0]
    /\ want' = [want EXCEPT ![w] = {}]
    /\ del' = [del EXCEPT ![w] = {}]
    /\ ins' = [ins EXCEPT ![w] = {}]

Commit(w) ==
    /\ pc[w] = "commit"
    /\ db' = (db \ del[w]) \cup ins[w]
    /\ EndTransaction(w)
    /\ UNCHANGED <<nextPk, readerVars>>

(* An exception of the parser or of a detector leaves the atomic block, or *)
(* the process dies and PostgreSQL drops its connection.                   *)
Rollback(w) ==
    /\ pc[w] # "idle"
    /\ EndTransaction(w)
    /\ UNCHANGED <<db, nextPk, readerVars>>

-----------------------------------------------------------------------------
(* get_device_status: the ParsedConfig, then the critical issues, then the *)
(* warnings, each in a query of its own.                                   *)
Answer(r, a) == /\ answer' = [answer EXCEPT ![r] = a]
                /\ rpc' = [rpc EXCEPT ![r] = "idle"]

StatusParsed(r, s) ==
    /\ rpc[r] = "idle"
    /\ rsnap' = [rsnap EXCEPT ![r] = s]
    /\ \/ ~Analysed(s) /\ Answer(r, "no_data")
       \/ /\ Analysed(s)
          /\ rpc' = [rpc EXCEPT ![r] = "critical"]
          /\ UNCHANGED answer
    /\ UNCHANGED <<db, nextPk, txVars>>

StatusCritical(r) ==
    /\ rpc[r] = "critical"
    /\ \/ /\ RowsOf(db, {"critical"}, rsnap[r]) # {}
          /\ Answer(r, "critical")
       \/ /\ RowsOf(db, {"critical"}, rsnap[r]) = {}
          /\ rpc' = [rpc EXCEPT ![r] = "warning"]
          /\ UNCHANGED answer
    /\ UNCHANGED <<db, nextPk, txVars, rsnap>>

StatusWarning(r) ==
    /\ rpc[r] = "warning"
    /\ \/ RowsOf(db, {"warning"}, rsnap[r]) # {} /\ Answer(r, "warning")
       \/ RowsOf(db, {"warning"}, rsnap[r]) = {} /\ Answer(r, "ok")
    /\ UNCHANGED <<db, nextPk, txVars, rsnap>>

-----------------------------------------------------------------------------
Statement(w) == \/ ReadExisting(w)
                \/ DeleteIssues(w) \/ DeleteCircuits(w) \/ DeleteServices(w)
                \/ StoreParsed(w)
                \/ DetectServices(w) \/ DetectIssues(w) \/ DetectCircuits(w)
                \/ Commit(w)

Status(r) == \/ \E s \in Snapshots : StatusParsed(r, s)
             \/ StatusCritical(r) \/ StatusWarning(r)

Next == \/ \E w \in Workers :
             \/ \E s \in Snapshots : RequestAnalysis(w, s)
             \/ Statement(w) \/ LockRows(w) \/ Rollback(w)
        \/ \E r \in Readers : Status(r)

Spec == Init /\ [][Next]_vars

(* A worker runs its statements to the end unless it fails; PostgreSQL     *)
(* queues the transactions that wait for a row, so a wait that keeps       *)
(* ending is won at last; an unsupported vendor raises.  Requests and      *)
(* failures are not fair: neither has to happen.                           *)
Fairness == \A w \in Workers :
              /\ WF_vars(Statement(w))
              /\ SF_vars(LockRows(w))
              /\ WF_vars(snap[w] \in Unsupported /\ pc[w] = "parse" /\ Rollback(w))

FairSpec == Spec /\ Fairness

-----------------------------------------------------------------------------
TypeOK ==
    /\ db \subseteq Rows
    /\ nextPk \in Nat
    /\ pc \in [Workers -> Stages]
    /\ snap \in [Workers -> Snapshots \cup {NoSnapshot}]
    /\ \A w \in Workers : pc[w] # "idle" => snap[w] \in Snapshots
    /\ mine \in [Workers -> Nat]
    /\ want \in [Workers -> SUBSET Rows]
    /\ del \in [Workers -> SUBSET Rows]
    /\ ins \in [Workers -> SUBSET Rows]
    /\ rpc \in [Readers -> {"idle", "critical", "warning"}]
    /\ rsnap \in [Readers -> Snapshots \cup {NoSnapshot}]
    /\ \A r \in Readers : rpc[r] # "idle" => rsnap[r] \in Snapshots
    /\ answer \in [Readers -> {"none", "no_data", "critical", "warning", "ok"}]

(* A detection never outlives the ParsedConfig of the analysis that made   *)
(* it, however the transactions of two workers interleave: the DELETEs of  *)
(* analyze_config_snapshot reach every row of the analysis they replace.   *)
DetectionsBacked ==
    \A d \in db : Row(d.snap, "parsed", d.pk) \in db

(* A snapshot that shows a ParsedConfig shows every row of one whole       *)
(* analysis, during and after any number of concurrent, failed and         *)
(* repeated analyses of it.                                                *)
CompleteAnalysis ==
    \A s \in Snapshots : Analysed(s) => \E r \in db : FullAnalysis(s, r.pk) \subseteq db

\* What the issues of one whole analysis call for; "ok" says nothing of the
\* issues of the other severities.
TrueStatus(s) == CASE "critical" \in Yields[s] -> "critical"
                   [] "critical" \notin Yields[s] /\ "warning" \in Yields[s] -> "warning"
                   [] Yields[s] \cap {"critical", "warning"} = {} -> "ok"

(* get_device_status reads three times and locks nothing, yet it answers   *)
(* there is no data or what the severities of one whole analysis call for: *)
(* critical if and only if there is a critical issue, warning if there is  *)
(* a warning but none critical, and ok in every other case.  A re-analysis *)
(* on the way never makes a critical configuration look ok.  This is less  *)
(* than the docstring asks, where ok means an analysis without issues: the *)
(* code answers ok beside issues of any other severity.                    *)
StatusFaithful ==
    \A r \in Readers :
        rpc[r] = "idle" /\ answer[r] \notin {"none", "no_data"} =>
            answer[r] = TrueStatus(rsnap[r])

(* Re-analysis is idempotent ("Check if already analyzed (idempotent)"):   *)
(* one analysis per snapshot.                                              *)
OneAnalysisPerSnapshot ==
    \A p, q \in db : p.kind = "parsed" /\ q.kind = "parsed" /\ p.snap = q.snap => p = q

(* Every request ends: the waits for each other's rows never form a cycle  *)
(* because all transactions delete in the same order of tables.            *)
RequestsFinish == \A w \in Workers : pc[w] # "idle" ~> pc[w] = "idle"

(* What readers see is changed only by publishing a whole new analysis.    *)
Store == INSTANCE AnalysisStore WITH
            Pks <- 1..MaxPk,
            store <- [s \in Snapshots |-> RowsOf(db, Kinds \cup {"parsed"}, s)]
PublishesWhole == Store!Spec

(* With one process, each analysis replaces the previous one exactly.      *)
ReplacesExactly == Store!SerialSpec
=============================================================================
