----------------------- MODULE SnapshotAnalysisProofs -----------------------
(***************************************************************************)
(* Theorems of SnapshotAnalysis for any number of workers, readers,        *)
(* snapshots and keys.  The argument: keys are fresh, deleted rows are     *)
(* locked by one worker only, and a worker that deletes a ParsedConfig     *)
(* sweeps every detection made under its key before it commits.  The last  *)
(* section is about processes that never analyse one snapshot at once.     *)
(***************************************************************************)
EXTENDS SnapshotAnalysis, TLAPS

(* The stages at which the transaction has a ParsedConfig of its own.      *)
Late == {"detect_services", "detect_issues", "detect_circuits", "commit"}

(* The stages at which rows of kind k have been inserted, if there are any. *)
InsertedAt(k) == IF k = "parsed" THEN Late
                 ELSE IF k = "service" THEN Late \ {"detect_services"}
                 ELSE IF k \in IssueKinds THEN {"detect_circuits", "commit"}
                 ELSE {"commit"}

(* The stage that is about to delete the selected rows of kind k, and the  *)
(* stages after it.                                                        *)
LockOf(k) == IF k \in IssueKinds THEN "lock_issues"
             ELSE IF k = "circuit" THEN "lock_circuits" ELSE "lock_services"
SweptAt(k) == Late \cup {"parse"} \cup
              (IF k \in IssueKinds
               THEN {"circuits", "lock_circuits", "services", "lock_services"}
               ELSE IF k = "circuit" THEN {"services", "lock_services"} ELSE {})

(* A key in use by a running analysis is on no committed row and in no     *)
(* other worker's hands.                                                   *)
Fresh ==
    /\ nextPk # 0
    /\ \A r \in db : r.pk < nextPk
    /\ \A w \in Workers :
        /\ mine[w] < nextPk
        /\ pc[w] \notin Late => mine[w] = 0
        /\ pc[w] \in Late => mine[w] \in 1..MaxPk /\ \A r \in db : r.pk # mine[w]
    /\ \A v, w \in Workers : v # w /\ mine[v] # 0 => mine[v] # mine[w]

(* What a worker has inserted is the part of the full analysis its stage   *)
(* has reached.                                                            *)
Inserts ==
    \A w \in Workers :
        /\ \A r \in ins[w] : /\ pc[w] \in Late
                             /\ r.snap = snap[w]
                             /\ r.pk = mine[w]
                             /\ r.kind \in Yields[snap[w]] \cup {"parsed"}
        /\ pc[w] \in Late =>
              \A k \in Yields[snap[w]] \cup {"parsed"} :
                 pc[w] \in InsertedAt(k) => Row(snap[w], k, mine[w]) \in ins[w]

(* Deleted rows are still committed, belong to the worker's snapshot and   *)
(* to no other worker.                                                     *)
Deletes ==
    /\ \A w \in Workers :
        /\ pc[w] \in {"idle", "read", "lock_parsed"} => del[w] = {}
        /\ pc[w] = "idle" => want[w] = {}
        /\ \A r \in del[w] : r \in db /\ r.snap = snap[w]
        /\ \A r \in want[w] : r.snap = snap[w]
    /\ \A v, w \in Workers : v # w => del[v] \cap del[w] = {}

(* A worker that deleted a ParsedConfig has deleted, or is about to delete, *)
(* the detections made under its key.                                      *)
Sweeps ==
    \A w \in Workers :
        /\ pc[w] # "lock_parsed" => \A r \in want[w] : r.kind # "parsed"
        /\ \A p \in del[w], d \in db :
             p.kind = "parsed" /\ d.kind \in Kinds /\ d.snap = p.snap /\ d.pk = p.pk =>
                 /\ pc[w] \in SweptAt(d.kind) => d \in del[w]
                 /\ pc[w] = LockOf(d.kind) => d \in del[w] \cup want[w]

(* Committed rows are findings of their snapshot.                          *)
Found == \A r \in db : r.kind \in Yields[r.snap] \cup {"parsed"}

(* A reader between two queries has seen what is still true.               *)
Reading ==
    \A r \in Readers :
        /\ rpc[r] # "idle" => Analysed(rsnap[r])
        /\ rpc[r] = "warning" => "critical" \notin Yields[rsnap[r]]

IInv == Fresh /\ Inserts /\ Deletes /\ Sweeps /\ Found /\ DetectionsBacked
        /\ CompleteAnalysis /\ Reading /\ StatusFaithful

-----------------------------------------------------------------------------
(* The database and the requests are always well typed: every DELETE,      *)
(* INSERT and COMMIT of analyze_config_snapshot handles rows of the tables. *)
THEOREM Typing == Spec => []TypeOK
<1> USE AnalysisAssumption
<1>1. Init => TypeOK
  BY DEF Init, TypeOK, Stages, LockStages, AfterLock
<1>2. TypeOK /\ [Next]_vars => TypeOK'
  <2> SUFFICES ASSUME TypeOK, [Next]_vars PROVE TypeOK'
    OBVIOUS
  <2>1. ASSUME NEW w \in Workers, NEW s \in Snapshots, RequestAnalysis(w, s)
        PROVE  TypeOK'
    BY <2>1 DEF RequestAnalysis, TypeOK, Stages, readerVars
  <2>2. ASSUME NEW w \in Workers, ReadExisting(w) PROVE TypeOK'
    BY <2>2 DEF ReadExisting, RowsOf, TypeOK, Stages, LockStages, AfterLock, readerVars
  <2>3. ASSUME NEW w \in Workers,
               DeleteIssues(w) \/ DeleteCircuits(w) \/ DeleteServices(w)
        PROVE  TypeOK'
    BY <2>3 DEF DeleteIssues, DeleteCircuits, DeleteServices, Select, RowsOf, TypeOK,
                Stages, LockStages, AfterLock, readerVars
  <2>4. ASSUME NEW w \in Workers, LockRows(w) PROVE TypeOK'
    BY <2>4 DEF LockRows, TypeOK, Stages, LockStages, AfterLock, readerVars
  <2>5. ASSUME NEW w \in Workers, StoreParsed(w) PROVE TypeOK'
    <3>1. Row(snap[w], "parsed", nextPk) \in Rows
      BY <2>5 DEF StoreParsed, TypeOK, Row, Rows
    <3> QED
      BY <2>5, <3>1 DEF StoreParsed, TypeOK, Stages, readerVars
  <2>6. ASSUME NEW w \in Workers,
               DetectServices(w) \/ DetectIssues(w) \/ DetectCircuits(w)
        PROVE  TypeOK'
    <3>1. PICK K \in SUBSET Kinds, stage \in Stages \ {"idle"}, next \in Stages :
             Detect(w, stage, K, next)
      BY <2>6 DEF DetectServices, DetectIssues, DetectCircuits, Kinds, IssueKinds, Stages
    <3>2. {Row(snap[w], k, mine[w]) : k \in K \cap Yields[snap[w]]} \subseteq Rows
      BY <3>1 DEF Detect, TypeOK, Row, Rows, Kinds, IssueKinds
    <3> QED
      BY <3>1, <3>2 DEF Detect, TypeOK, readerVars
  <2>7. ASSUME NEW w \in Workers, Commit(w) \/ Rollback(w) PROVE TypeOK'
    BY <2>7 DEF Commit, Rollback, EndTransaction, TypeOK, Stages, readerVars
  <2>8. ASSUME NEW r \in Readers, Status(r) PROVE TypeOK'
    BY <2>8 DEF Status, StatusParsed, StatusCritical, StatusWarning, Answer, TypeOK,
                txVars
  <2>9. CASE UNCHANGED vars
    BY <2>9 DEF vars, txVars, readerVars, TypeOK
  <2> QED
    BY <2>1, <2>2, <2>3, <2>4, <2>5, <2>6, <2>7, <2>8, <2>9 DEF Next, Statement
<1> QED
  BY <1>1, <1>2, PTL DEF Spec

-----------------------------------------------------------------------------
(* Readers write nothing but their own variables.                          *)
LEMMA ReadersWriteNothing ==
    ASSUME NEW r \in Readers, Status(r)
    PROVE  UNCHANGED <<db, nextPk, txVars>>
  BY DEF Status, StatusParsed, StatusCritical, StatusWarning

(* Keys stay fresh through every step of every worker.                     *)
LEMMA FreshStep ==
    ASSUME TypeOK, Fresh, Inserts, [Next]_vars
    PROVE  Fresh'
<1> USE AnalysisAssumption DEF Fresh, TypeOK, Late
<1>1. ASSUME NEW w \in Workers, NEW s \in Snapshots, RequestAnalysis(w, s)
      PROVE  Fresh'
  BY <1>1 DEF RequestAnalysis
<1>2. ASSUME NEW w \in Workers, ReadExisting(w) PROVE Fresh'
  BY <1>2 DEF ReadExisting
<1>3. ASSUME NEW w \in Workers,
             DeleteIssues(w) \/ DeleteCircuits(w) \/ DeleteServices(w)
      PROVE  Fresh'
  BY <1>3 DEF DeleteIssues, DeleteCircuits, DeleteServices, Select
<1>4. ASSUME NEW w \in Workers, LockRows(w) PROVE Fresh'
  BY <1>4 DEF LockRows, LockStages, AfterLock
<1>5. ASSUME NEW w \in Workers, StoreParsed(w) PROVE Fresh'
  <2>1. \A r \in db : r.pk \in Nat
    BY DEF Rows
  <2>2. \A r \in db' : r.pk < nextPk'
    BY <1>5, <2>1 DEF StoreParsed
  <2>3. nextPk \in 1..MaxPk /\ mine' = [mine EXCEPT ![w] = nextPk]
    BY <1>5 DEF StoreParsed
  <2>4. \A v \in Workers :
           /\ mine'[v] < nextPk'
           /\ pc'[v] \notin Late => mine'[v] = 0
           /\ pc'[v] \in Late => mine'[v] \in 1..MaxPk /\ \A r \in db' : r.pk # mine'[v]
    BY <1>5, <2>1, <2>3 DEF StoreParsed
  <2>5. \A v \in Workers : mine[v] < nextPk
    OBVIOUS
  <2>6. \A u, v \in Workers : u # v /\ mine'[u] # 0 => mine'[u] # mine'[v]
    BY <2>3, <2>5
  <2> QED
    BY <1>5, <2>2, <2>4, <2>6 DEF StoreParsed
<1>6. ASSUME NEW w \in Workers,
             DetectServices(w) \/ DetectIssues(w) \/ DetectCircuits(w)
      PROVE  Fresh'
  BY <1>6 DEF DetectServices, DetectIssues, DetectCircuits, Detect
<1>7. ASSUME NEW w \in Workers, Commit(w) PROVE Fresh'
  <2>1. \A r \in db' : r \in db \/ r.pk = mine[w]
    BY <1>7 DEF Commit, Inserts
  <2> QED
    BY <1>7, <2>1 DEF Commit, EndTransaction
<1>8. ASSUME NEW w \in Workers, Rollback(w) PROVE Fresh'
  BY <1>8 DEF Rollback, EndTransaction
<1>9. ASSUME NEW r \in Readers, Status(r) PROVE Fresh'
  BY <1>9, ReadersWriteNothing DEF txVars
<1>10. CASE UNCHANGED vars
  BY <1>10 DEF vars, txVars
<1> QED
  BY <1>1, <1>2, <1>3, <1>4, <1>5, <1>6, <1>7, <1>8, <1>9, <1>10 DEF Next, Statement

(* The rows a worker inserts follow its stage.                             *)
LEMMA InsertsStep ==
    ASSUME TypeOK, Inserts, [Next]_vars
    PROVE  Inserts'
<1> USE AnalysisAssumption DEF Inserts, TypeOK, Late, InsertedAt
<1>1. ASSUME NEW w \in Workers, NEW s \in Snapshots, RequestAnalysis(w, s)
      PROVE  Inserts'
  BY <1>1 DEF RequestAnalysis
<1>2. ASSUME NEW w \in Workers, ReadExisting(w) PROVE Inserts'
  BY <1>2 DEF ReadExisting
<1>3. ASSUME NEW w \in Workers,
             DeleteIssues(w) \/ DeleteCircuits(w) \/ DeleteServices(w)
      PROVE  Inserts'
  BY <1>3 DEF DeleteIssues, DeleteCircuits, DeleteServices, Select
<1>4. ASSUME NEW w \in Workers, LockRows(w) PROVE Inserts'
  BY <1>4 DEF LockRows, LockStages, AfterLock
<1>5. ASSUME NEW w \in Workers, StoreParsed(w) PROVE Inserts'
  BY <1>5 DEF StoreParsed, Row, Kinds, IssueKinds
<1>6. ASSUME NEW w \in Workers,
             DetectServices(w) \/ DetectIssues(w) \/ DetectCircuits(w)
      PROVE  Inserts'
  <2> USE DEF Detect, Row, Kinds, IssueKinds
  <2>1. CASE DetectServices(w)
    BY <2>1 DEF DetectServices
  <2>2. CASE DetectIssues(w)
    BY <2>2 DEF DetectIssues
  <2>3. CASE DetectCircuits(w)
    BY <2>3 DEF DetectCircuits
  <2> QED
    BY <1>6, <2>1, <2>2, <2>3
<1>7. ASSUME NEW w \in Workers, Commit(w) \/ Rollback(w) PROVE Inserts'
  BY <1>7 DEF Commit, Rollback, EndTransaction
<1>8. ASSUME NEW r \in Readers, Status(r) PROVE Inserts'
  BY <1>8, ReadersWriteNothing DEF txVars, Row
<1>9. CASE UNCHANGED vars
  BY <1>9 DEF vars, txVars, Row
<1> QED
  BY <1>1, <1>2, <1>3, <1>4, <1>5, <1>6, <1>7, <1>8, <1>9 DEF Next, Statement

(* Row locks are exclusive and keep the locked rows in the database.       *)
LEMMA DeletesStep ==
    ASSUME TypeOK, Inserts, Deletes, [Next]_vars
    PROVE  Deletes'
<1> USE DEF Deletes, TypeOK
<1>1. ASSUME NEW w \in Workers, NEW s \in Snapshots, RequestAnalysis(w, s)
      PROVE  Deletes'
  BY <1>1 DEF RequestAnalysis
<1>2. ASSUME NEW w \in Workers, ReadExisting(w) PROVE Deletes'
  BY <1>2 DEF ReadExisting, RowsOf
<1>3. ASSUME NEW w \in Workers,
             DeleteIssues(w) \/ DeleteCircuits(w) \/ DeleteServices(w)
      PROVE  Deletes'
  BY <1>3 DEF DeleteIssues, DeleteCircuits, DeleteServices, Select, RowsOf
<1>4. ASSUME NEW w \in Workers, LockRows(w) PROVE Deletes'
  BY <1>4 DEF LockRows, LockStages, AfterLock
<1>5. ASSUME NEW w \in Workers, StoreParsed(w) PROVE Deletes'
  BY <1>5 DEF StoreParsed
<1>6. ASSUME NEW w \in Workers,
             DetectServices(w) \/ DetectIssues(w) \/ DetectCircuits(w)
      PROVE  Deletes'
  BY <1>6 DEF DetectServices, DetectIssues, DetectCircuits, Detect
<1>7. ASSUME NEW w \in Workers, Commit(w) \/ Rollback(w) PROVE Deletes'
  BY <1>7 DEF Commit, Rollback, EndTransaction
<1>8. ASSUME NEW r \in Readers, Status(r) PROVE Deletes'
  BY <1>8, ReadersWriteNothing DEF txVars
<1>9. CASE UNCHANGED vars
  BY <1>9 DEF vars, txVars
<1> QED
  BY <1>1, <1>2, <1>3, <1>4, <1>5, <1>6, <1>7, <1>8, <1>9 DEF Next, Statement

(* Whoever deletes a ParsedConfig sweeps the detections made under its key. *)
LEMMA SweepsStep ==
    ASSUME TypeOK, Fresh, Inserts, Deletes, Sweeps, [Next]_vars
    PROVE  Sweeps'
<1> USE DEF Sweeps, TypeOK, SweptAt, LockOf, Late, Kinds, IssueKinds
<1>1. ASSUME NEW w \in Workers, NEW s \in Snapshots, RequestAnalysis(w, s)
      PROVE  Sweeps'
  BY <1>1 DEF RequestAnalysis, Deletes
<1>2. ASSUME NEW w \in Workers, ReadExisting(w) PROVE Sweeps'
  BY <1>2 DEF ReadExisting, Deletes
<1>3. ASSUME NEW w \in Workers,
             DeleteIssues(w) \/ DeleteCircuits(w) \/ DeleteServices(w)
      PROVE  Sweeps'
  <2> USE DEF Select, RowsOf, Deletes
  <2>1. CASE DeleteIssues(w)
    BY <2>1 DEF DeleteIssues
  <2>2. CASE DeleteCircuits(w)
    BY <2>2 DEF DeleteCircuits
  <2>3. CASE DeleteServices(w)
    BY <2>3 DEF DeleteServices
  <2> QED
    BY <1>3, <2>1, <2>2, <2>3
<1>4. ASSUME NEW w \in Workers, LockRows(w) PROVE Sweeps'
  <2> USE <1>4 DEF LockRows, LockStages, AfterLock, Deletes
  <2>1. CASE pc[w] = "lock_parsed"
    BY <2>1
  <2>2. CASE pc[w] = "lock_issues"
    BY <2>2
  <2>3. CASE pc[w] = "lock_circuits"
    BY <2>3
  <2>4. CASE pc[w] = "lock_services"
    BY <2>4
  <2> QED
    BY <2>1, <2>2, <2>3, <2>4
<1>5. ASSUME NEW w \in Workers, StoreParsed(w) PROVE Sweeps'
  BY <1>5 DEF StoreParsed
<1>6. ASSUME NEW w \in Workers,
             DetectServices(w) \/ DetectIssues(w) \/ DetectCircuits(w)
      PROVE  Sweeps'
  BY <1>6 DEF DetectServices, DetectIssues, DetectCircuits, Detect
<1>7. ASSUME NEW w \in Workers, Commit(w) PROVE Sweeps'
  <2>1. ASSUME NEW v \in Workers \ {w}, NEW p \in del[v], NEW d \in db', d.pk = p.pk
        PROVE  d \in db
    <3>1. p.pk # mine[w]
      BY <1>7 DEF Commit, Fresh, Deletes
    <3> QED
      BY <1>7, <2>1, <3>1 DEF Commit, Inserts
  <2> QED
    BY <1>7, <2>1 DEF Commit, EndTransaction
<1>8. ASSUME NEW w \in Workers, Rollback(w) PROVE Sweeps'
  BY <1>8 DEF Rollback, EndTransaction
<1>9. ASSUME NEW r \in Readers, Status(r) PROVE Sweeps'
  BY <1>9, ReadersWriteNothing DEF txVars
<1>10. CASE UNCHANGED vars
  BY <1>10 DEF vars, txVars
<1> QED
  BY <1>1, <1>2, <1>3, <1>4, <1>5, <1>6, <1>7, <1>8, <1>9, <1>10 DEF Next, Statement

-----------------------------------------------------------------------------
(* Readers see a change of the rows only when a transaction commits.       *)
LEMMA OnlyCommitsShow ==
    ASSUME [Next]_vars
    PROVE  UNCHANGED db \/ \E w \in Workers : Commit(w)
<1>1. ASSUME NEW r \in Readers, Status(r) PROVE UNCHANGED db
  BY <1>1, ReadersWriteNothing
<1> QED
  BY <1>1 DEF Next, Statement, RequestAnalysis, ReadExisting, DeleteIssues, DeleteCircuits,
              DeleteServices, Select, LockRows, StoreParsed, DetectServices, DetectIssues,
              DetectCircuits, Detect, Rollback, vars

(* What a commit shows is one full analysis of the worker's snapshot.      *)
LEMMA CommitsFullAnalysis ==
    ASSUME TypeOK, Fresh, Inserts, NEW w \in Workers, Commit(w)
    PROVE  /\ ins[w] = FullAnalysis(snap[w], mine[w])
           /\ Row(snap[w], "parsed", mine[w]) \in ins[w]
           /\ snap[w] \in Snapshots
           /\ mine[w] \in 1..MaxPk
           /\ \A r \in db : r.pk # mine[w]
<1> USE AnalysisAssumption DEF TypeOK, Commit
<1>1. pc[w] = "commit" /\ snap[w] \in Snapshots /\ Yields[snap[w]] \subseteq Kinds
  OBVIOUS
<1>2. \A k \in Yields[snap[w]] \cup {"parsed"} : Row(snap[w], k, mine[w]) \in ins[w]
  BY <1>1 DEF Inserts, Late, InsertedAt, Kinds, IssueKinds
<1>3. \A r \in ins[w] : r \in FullAnalysis(snap[w], mine[w])
  BY <1>1 DEF Inserts, FullAnalysis, Row, Rows
<1>4. mine[w] \in 1..MaxPk /\ \A r \in db : r.pk # mine[w]
  BY <1>1 DEF Fresh, Late
<1> QED
  BY <1>1, <1>2, <1>3, <1>4 DEF FullAnalysis

(* Every committed detection keeps the ParsedConfig of its analysis.       *)
LEMMA BackedStep ==
    ASSUME TypeOK, Fresh, Inserts, Deletes, Sweeps, DetectionsBacked, [Next]_vars
    PROVE  DetectionsBacked'
<1>1. CASE UNCHANGED db
  BY <1>1 DEF DetectionsBacked, Row
<1>2. ASSUME NEW w \in Workers, Commit(w) PROVE DetectionsBacked'
  <2> SUFFICES ASSUME NEW d \in db' PROVE Row(d.snap, "parsed", d.pk) \in db'
    BY DEF DetectionsBacked, Row
  <2> DEFINE p == Row(d.snap, "parsed", d.pk)
  <2>1. db' = (db \ del[w]) \cup ins[w]
    BY <1>2 DEF Commit
  <2>2. CASE d \in ins[w]
    BY <1>2, <2>1, <2>2, CommitsFullAnalysis DEF Inserts
  <2>3. CASE d \in db \ del[w]
    <3>1. p \in db
      BY <2>3 DEF DetectionsBacked
    <3>2. ASSUME p \in del[w] PROVE FALSE
      <4>1. d # p /\ d \in Rows
        BY <2>3, <3>2 DEF TypeOK
      <4>2. d.kind \in Kinds
        BY <4>1 DEF Rows, Row
      <4>3. p.kind = "parsed" /\ d.snap = p.snap /\ d.pk = p.pk
        BY DEF Row
      <4>4. pc[w] \in SweptAt(d.kind)
        BY <1>2 DEF Commit, SweptAt, Late
      <4> QED
        BY <2>3, <3>2, <4>2, <4>3, <4>4 DEF Sweeps
    <3> QED
      BY <2>1, <3>1, <3>2
  <2> QED
    BY <2>1, <2>2, <2>3
<1> QED
  BY <1>1, <1>2, OnlyCommitsShow

(* A commit leaves the snapshots of other analyses as they were, and its   *)
(* own with a full analysis.                                               *)
LEMMA CompleteStep ==
    ASSUME TypeOK, Fresh, Inserts, Deletes, CompleteAnalysis, [Next]_vars
    PROVE  CompleteAnalysis'
<1>1. CASE UNCHANGED db
  BY <1>1 DEF CompleteAnalysis, Analysed, RowsOf, FullAnalysis, Row
<1>2. ASSUME NEW w \in Workers, Commit(w) PROVE CompleteAnalysis'
  <2>1. db' = (db \ del[w]) \cup ins[w]
    BY <1>2 DEF Commit
  <2> SUFFICES ASSUME NEW s \in Snapshots, Analysed(s)'
               PROVE  \E r \in db' : FullAnalysis(s, r.pk) \subseteq db'
    BY DEF CompleteAnalysis, FullAnalysis, Row
  <2>2. CASE s = snap[w]
    <3>1. Row(snap[w], "parsed", mine[w]).pk = mine[w]
      BY DEF Row
    <3> QED
      BY <1>2, <2>1, <2>2, <3>1, CommitsFullAnalysis
  <2>3. CASE s # snap[w]
    <3>1. \A r \in ins[w] : r.snap # s
      BY <2>3 DEF Inserts
    <3>2. Analysed(s)
      BY <2>1, <3>1 DEF Analysed, RowsOf
    <3>3. PICK r \in db : FullAnalysis(s, r.pk) \subseteq db
      BY <3>2 DEF CompleteAnalysis
    <3>4. \A q \in FullAnalysis(s, r.pk) : q.snap = s
      BY DEF FullAnalysis, Row
    <3>5. FullAnalysis(s, r.pk) \subseteq db'
      BY <2>1, <2>3, <3>3, <3>4 DEF Deletes
    <3>6. Row(s, "parsed", r.pk) \in FullAnalysis(s, r.pk)
      BY DEF FullAnalysis
    <3>7. Row(s, "parsed", r.pk).pk = r.pk
      BY DEF Row
    <3> QED
      BY <3>5, <3>6, <3>7
  <2> QED
    BY <2>2, <2>3
<1> QED
  BY <1>1, <1>2, OnlyCommitsShow

(* Only findings of the configuration are ever committed.                  *)
LEMMA FoundStep ==
    ASSUME Inserts, Found, [Next]_vars
    PROVE  Found'
<1>1. CASE UNCHANGED db
  BY <1>1 DEF Found
<1>2. ASSUME NEW w \in Workers, Commit(w) PROVE Found'
  BY <1>2 DEF Commit, Inserts, Found
<1> QED
  BY <1>1, <1>2, OnlyCommitsShow

-----------------------------------------------------------------------------
(* A snapshot once analysed never shows up unanalysed again.               *)
LEMMA AnalysedStays ==
    ASSUME TypeOK, Fresh, Inserts, Deletes, [Next]_vars, NEW s \in Snapshots, Analysed(s)
    PROVE  Analysed(s)'
<1>1. CASE UNCHANGED db
  BY <1>1 DEF Analysed, RowsOf
<1>2. ASSUME NEW w \in Workers, Commit(w) PROVE Analysed(s)'
  <2>1. db' = (db \ del[w]) \cup ins[w]
    BY <1>2 DEF Commit
  <2>2. CASE s = snap[w]
    <3>1. Row(s, "parsed", mine[w]) \in db'
      BY <1>2, <2>1, <2>2, CommitsFullAnalysis
    <3>2. Row(s, "parsed", mine[w]).kind = "parsed" /\ Row(s, "parsed", mine[w]).snap = s
      BY DEF Row
    <3> QED
      BY <3>1, <3>2 DEF Analysed, RowsOf
  <2>3. CASE s # snap[w]
    BY <2>1, <2>3 DEF Analysed, RowsOf, Deletes
  <2> QED
    BY <2>2, <2>3
<1> QED
  BY <1>1, <1>2, OnlyCommitsShow

(* A query for the issues of an analysed snapshot finds what its           *)
(* configuration has, no more and no less.                                 *)
LEMMA QueriesAreFaithful ==
    ASSUME TypeOK, Found, CompleteAnalysis,
           NEW s \in Snapshots, Analysed(s), NEW k \in IssueKinds
    PROVE  RowsOf(db, {k}, s) # {} <=> k \in Yields[s]
<1>1. ASSUME k \in Yields[s] PROVE RowsOf(db, {k}, s) # {}
  <2>1. PICK r \in db : FullAnalysis(s, r.pk) \subseteq db
    BY DEF CompleteAnalysis
  <2>2. Row(s, k, r.pk) \in db
    BY <1>1, <2>1 DEF FullAnalysis
  <2> QED
    BY <2>2 DEF RowsOf, Row
<1>2. ASSUME NEW r \in RowsOf(db, {k}, s) PROVE k \in Yields[s]
  BY <1>2 DEF Found, RowsOf, IssueKinds
<1> QED
  BY <1>1, <1>2

(* What a reader knows between two queries stays true while others commit, *)
(* and its answer is what the issues call for.                             *)
LEMMA ReadingStep ==
    ASSUME TypeOK, Fresh, Inserts, Deletes, Found, CompleteAnalysis,
           Reading, StatusFaithful, [Next]_vars
    PROVE  Reading' /\ StatusFaithful'
<1> USE DEF TypeOK, Reading, StatusFaithful, TrueStatus
<1>1. CASE UNCHANGED readerVars
  <2>1. ASSUME NEW r \in Readers, rpc[r] # "idle" PROVE Analysed(rsnap[r])'
    <3>1. rsnap[r] \in Snapshots /\ Analysed(rsnap[r])
      BY <2>1
    <3>2. ASSUME NEW s \in Snapshots, Analysed(s) PROVE Analysed(s)'
      BY <3>2, AnalysedStays
    <3> QED
      BY <1>1, <3>1, <3>2 DEF readerVars, Analysed, RowsOf
  <2> QED
    BY <1>1, <2>1 DEF readerVars
<1>2. ASSUME NEW r \in Readers, NEW s \in Snapshots, StatusParsed(r, s)
      PROVE  Reading' /\ StatusFaithful'
  BY <1>2 DEF StatusParsed, Answer, Analysed, RowsOf
<1>3. ASSUME NEW r \in Readers, StatusCritical(r) PROVE Reading' /\ StatusFaithful'
  <2>1. RowsOf(db, {"critical"}, rsnap[r]) # {} <=> "critical" \in Yields[rsnap[r]]
    BY <1>3, QueriesAreFaithful DEF StatusCritical, IssueKinds
  <2> QED
    BY <1>3, <2>1 DEF StatusCritical, Answer, Analysed, RowsOf
<1>4. ASSUME NEW r \in Readers, StatusWarning(r) PROVE Reading' /\ StatusFaithful'
  <2>1. RowsOf(db, {"warning"}, rsnap[r]) # {} <=> "warning" \in Yields[rsnap[r]]
    BY <1>4, QueriesAreFaithful DEF StatusWarning, IssueKinds
  <2> QED
    BY <1>4, <2>1 DEF StatusWarning, Answer, Analysed, RowsOf
<1>5. UNCHANGED readerVars \/ \E r \in Readers : Status(r)
  BY DEF Next, Statement, RequestAnalysis, ReadExisting, DeleteIssues, DeleteCircuits,
         DeleteServices, Select, LockRows, StoreParsed, DetectServices, DetectIssues,
         DetectCircuits, Detect, Commit, Rollback, vars
<1> QED
  BY <1>1, <1>2, <1>3, <1>4, <1>5 DEF Status

-----------------------------------------------------------------------------
(* The inductive invariant holds in every reachable state.                 *)
THEOREM Inductive == Spec => []IInv
<1>1. Init => IInv
  <2> SUFFICES ASSUME Init PROVE IInv
    OBVIOUS
  <2>1. Fresh /\ Inserts /\ Deletes
    BY DEF Init, Fresh, Inserts, Deletes, Late
  <2>2. Sweeps /\ Found /\ DetectionsBacked
    BY DEF Init, Sweeps, Found, DetectionsBacked
  <2>3. CompleteAnalysis /\ Reading /\ StatusFaithful
    BY DEF Init, CompleteAnalysis, Analysed, RowsOf, Reading, StatusFaithful
  <2> QED
    BY <2>1, <2>2, <2>3 DEF IInv
<1>2. TypeOK /\ IInv /\ [Next]_vars => IInv'
  BY FreshStep, InsertsStep, DeletesStep, SweepsStep, FoundStep, BackedStep, CompleteStep,
     ReadingStep DEF IInv
<1> QED
  BY <1>1, <1>2, Typing, PTL DEF Spec

(* No interleaving of analyses leaves a detection whose ParsedConfig is    *)
(* gone: the four DELETEs of a re-analysis reach all of what it replaces.  *)
THEOREM Backed == Spec => []DetectionsBacked
<1>1. IInv => DetectionsBacked
  BY DEF IInv
<1> QED
  BY <1>1, Inductive, PTL

(* Whatever fails or overlaps, a snapshot that shows a ParsedConfig shows  *)
(* a whole analysis: the transaction is all or nothing.                    *)
THEOREM Complete == Spec => []CompleteAnalysis
<1>1. IInv => CompleteAnalysis
  BY DEF IInv
<1> QED
  BY <1>1, Inductive, PTL

(* get_device_status answers what the severities of one whole analysis     *)
(* call for, although it reads outside any transaction while re-analyses   *)
(* commit between its queries: critical exactly when there is a critical   *)
(* issue, warning when there is a warning at most, and ok in every other   *)
(* case, also beside issues of the severities it does not ask for.         *)
THEOREM Faithful == Spec => []StatusFaithful
<1>1. IInv => StatusFaithful
  BY DEF IInv
<1> QED
  BY <1>1, Inductive, PTL

-----------------------------------------------------------------------------
(* analyze_config_snapshot implements the abstract store: readers see rows *)
(* change only when a whole new analysis of one snapshot is published.     *)
THEOREM Refinement == Spec => PublishesWhole
<1> DEFINE all == Kinds \cup {"parsed"}
           shown == [s \in Snapshots |-> RowsOf(db, all, s)]
<1>1. Init => Store!Init
  BY DEF Init, Store!Init, RowsOf
<1>2. TypeOK /\ IInv /\ [Next]_vars => [\E s \in Snapshots : Store!Publish(s)]_shown
  <2> SUFFICES ASSUME TypeOK, IInv, [Next]_vars
               PROVE  shown' = shown \/ \E s \in Snapshots : Store!Publish(s)
    OBVIOUS
  <2>1. CASE UNCHANGED db
    BY <2>1 DEF RowsOf
  <2>2. ASSUME NEW w \in Workers, Commit(w) PROVE Store!Publish(snap[w])
    <3> DEFINE s == snap[w]
               keep == RowsOf(db \ del[w], all, s)
    <3>1. /\ ins[w] = FullAnalysis(s, mine[w])
          /\ s \in Snapshots /\ mine[w] \in 1..MaxPk
          /\ \A r \in db : r.pk # mine[w]
      BY <2>2, CommitsFullAnalysis DEF IInv
    <3>2. db' = (db \ del[w]) \cup ins[w]
      BY <2>2 DEF Commit
    <3>3. keep \in SUBSET shown[s] /\ \A r \in shown[s] : r.pk # mine[w]
      BY <3>1 DEF RowsOf
    <3>4. \A r \in ins[w] : r.snap = s /\ r.kind \in all
      BY <3>1, AnalysisAssumption DEF FullAnalysis, Row
    <3>5. RowsOf(db', all, s) = keep \cup FullAnalysis(s, mine[w])
      BY <3>1, <3>2, <3>4 DEF RowsOf
    <3>6. \A t \in Snapshots \ {s} : RowsOf(db', all, t) = RowsOf(db, all, t)
      BY <3>2, <3>4 DEF RowsOf, IInv, Deletes
    <3>7. shown' = [shown EXCEPT ![s] = keep \cup FullAnalysis(s, mine[w])]
      BY <3>1, <3>5, <3>6 DEF RowsOf
    <3>8. FullAnalysis(s, mine[w]) = Store!FullAnalysis(s, mine[w])
      BY DEF FullAnalysis, Row, Store!FullAnalysis, Store!Row
    <3> QED
      BY <3>1, <3>3, <3>7, <3>8 DEF Store!Publish
  <2>3. ASSUME NEW w \in Workers, Commit(w) PROVE snap[w] \in Snapshots
    BY <2>3 DEF Commit, TypeOK
  <2> QED
    BY <2>1, <2>2, <2>3, OnlyCommitsShow
<1> QED
  BY <1>1, <1>2, Typing, Inductive, PTL DEF Spec, PublishesWhole, Store!Spec

-----------------------------------------------------------------------------
(* No two processes analyse one snapshot at the same time.  Nothing in the *)
(* code sees to that; a single process does it by itself.                  *)
OneAtATime == \A v, w \in Workers : v # w /\ snap[v] = snap[w] => snap[v] = NoSnapshot

(* Then the lookup of a worker finds the one ParsedConfig there is, and    *)
(* once its first DELETE is done it holds it.                              *)
ParsedOf(w) == RowsOf(db, {"parsed"}, snap[w])
Held == \A w \in Workers :
            /\ pc[w] = "lock_parsed" => ParsedOf(w) \subseteq want[w]
            /\ pc[w] \notin {"idle", "read", "lock_parsed"} => ParsedOf(w) \subseteq del[w]

(* No step of a worker or of another one, with another snapshot, changes   *)
(* what the worker holds.                                                  *)
LEMMA HeldStep ==
    ASSUME TypeOK, Inserts, OneAtATime, OneAnalysisPerSnapshot, Held, [Next]_vars
    PROVE  Held'
<1> USE DEF Held, ParsedOf, RowsOf, TypeOK
<1>1. ASSUME NEW w \in Workers, NEW s \in Snapshots, RequestAnalysis(w, s)
      PROVE  Held'
  BY <1>1 DEF RequestAnalysis
<1>2. ASSUME NEW w \in Workers, ReadExisting(w) PROVE Held'
  <2>1. ASSUME NEW v \in Workers \ {w} PROVE pc'[v] = pc[v] /\ want'[v] = want[v]
    BY <1>2, <2>1 DEF ReadExisting
  <2>2. /\ pc'[w] \in {"parse", "lock_parsed"}
        /\ pc'[w] = "parse" => ParsedOf(w) = {}
        /\ pc'[w] = "lock_parsed" => ParsedOf(w) \subseteq want'[w]
    BY <1>2 DEF ReadExisting, OneAnalysisPerSnapshot
  <2> QED
    BY <1>2, <2>1, <2>2 DEF ReadExisting
<1>3. ASSUME NEW w \in Workers,
             DeleteIssues(w) \/ DeleteCircuits(w) \/ DeleteServices(w)
      PROVE  Held'
  BY <1>3 DEF DeleteIssues, DeleteCircuits, DeleteServices, Select
<1>4. ASSUME NEW w \in Workers, LockRows(w) PROVE Held'
  BY <1>4 DEF LockRows, LockStages, AfterLock
<1>5. ASSUME NEW w \in Workers, StoreParsed(w) PROVE Held'
  BY <1>5 DEF StoreParsed
<1>6. ASSUME NEW w \in Workers,
             DetectServices(w) \/ DetectIssues(w) \/ DetectCircuits(w)
      PROVE  Held'
  BY <1>6 DEF DetectServices, DetectIssues, DetectCircuits, Detect
<1>7. ASSUME NEW w \in Workers, Commit(w) PROVE Held'
  <2>1. ASSUME NEW v \in Workers, v # w, pc[v] # "idle" PROVE snap[v] # snap[w]
    BY <2>1, AnalysisAssumption DEF OneAtATime
  <2>2. ASSUME NEW v \in Workers, v # w, pc[v] # "idle"
        PROVE  \A r \in db' : r.snap = snap[v] => r \in db
    BY <1>7, <2>1, <2>2 DEF Commit, Inserts
  <2> QED
    BY <1>7, <2>2 DEF Commit, EndTransaction
<1>8. ASSUME NEW w \in Workers, Rollback(w) PROVE Held'
  BY <1>8 DEF Rollback, EndTransaction
<1>9. ASSUME NEW r \in Readers, Status(r) PROVE Held'
  BY <1>9, ReadersWriteNothing DEF txVars
<1>10. CASE UNCHANGED vars
  BY <1>10 DEF vars, txVars
<1> QED
  BY <1>1, <1>2, <1>3, <1>4, <1>5, <1>6, <1>7, <1>8, <1>9, <1>10 DEF Next, Statement

(* When a worker commits it has deleted every row of its snapshot: the     *)
(* ParsedConfig it holds, and with it all that was made under its key.     *)
LEMMA CommitsReplaceAll ==
    ASSUME TypeOK, Sweeps, DetectionsBacked, Held, NEW w \in Workers, Commit(w),
           NEW d \in db, d.snap = snap[w]
    PROVE  d \in del[w]
<1> DEFINE p == Row(d.snap, "parsed", d.pk)
<1>1. p \in db /\ p.kind = "parsed" /\ p.snap = d.snap /\ p.pk = d.pk
  BY DEF DetectionsBacked, Row
<1>2. p \in del[w]
  BY <1>1 DEF Held, ParsedOf, RowsOf, Commit
<1>3. d.kind \in Kinds \/ d = p
  BY DEF TypeOK, Rows, Row
<1>4. d.kind \in Kinds => pc[w] \in SweptAt(d.kind)
  BY DEF Commit, SweptAt, Late
<1> QED
  BY <1>1, <1>2, <1>3, <1>4 DEF Sweeps

(* A commit leaves one analysis of its snapshot where it found one.        *)
LEMMA OneAnalysisStep ==
    ASSUME TypeOK, IInv, Held, OneAnalysisPerSnapshot, [Next]_vars
    PROVE  OneAnalysisPerSnapshot'
<1>1. CASE UNCHANGED db
  BY <1>1 DEF OneAnalysisPerSnapshot
<1>2. ASSUME NEW w \in Workers, Commit(w) PROVE OneAnalysisPerSnapshot'
  <2>1. db' = (db \ del[w]) \cup ins[w]
    BY <1>2 DEF Commit
  <2>2. \A d \in db \ del[w] : d.snap # snap[w]
    BY <1>2, CommitsReplaceAll DEF IInv
  <2>3. \A r \in ins[w] : r.snap = snap[w] /\ r.pk = mine[w] /\ r \in Rows
    BY DEF IInv, Inserts, TypeOK
  <2>4. \A p, q \in ins[w] : p.kind = q.kind => p = q
    BY <2>3 DEF Rows
  <2> QED
    BY <2>1, <2>2, <2>3, <2>4 DEF OneAnalysisPerSnapshot
<1> QED
  BY <1>1, <1>2, OnlyCommitsShow

(* While no two processes analyse one snapshot at a time, every snapshot   *)
(* has one analysis, as the comment "Check if already analyzed             *)
(* (idempotent)" of analyze_config_snapshot says: overlapping analyses of  *)
(* one snapshot are the only way to a second.                              *)
THEOREM Idempotent == Spec /\ []OneAtATime => [](OneAnalysisPerSnapshot /\ Held)
<1>1. Init => OneAnalysisPerSnapshot /\ Held
  BY DEF Init, OneAnalysisPerSnapshot, Held
<1>2. TypeOK /\ IInv /\ OneAtATime /\ OneAnalysisPerSnapshot /\ Held /\ [Next]_vars
        => (OneAnalysisPerSnapshot /\ Held)'
  BY HeldStep, OneAnalysisStep DEF IInv
<1> QED
  BY <1>1, <1>2, Typing, Inductive, PTL DEF Spec

(* While no two processes analyse one snapshot at a time, a re-analysis    *)
(* replaces the earlier one exactly, whatever the others do and whatever   *)
(* fails: nothing of it stays beside the new one.                          *)
THEOREM Replacing == Spec /\ []OneAtATime => ReplacesExactly
<1> DEFINE all == Kinds \cup {"parsed"}
           shown == [s \in Snapshots |-> RowsOf(db, all, s)]
<1>1. Init => Store!Init
  BY DEF Init, Store!Init, RowsOf
<1>2. TypeOK /\ IInv /\ Held /\ [Next]_vars => [\E s \in Snapshots : Store!Replace(s)]_shown
  <2> SUFFICES ASSUME TypeOK, IInv, Held, [Next]_vars
               PROVE  shown' = shown \/ \E s \in Snapshots : Store!Replace(s)
    OBVIOUS
  <2>1. CASE UNCHANGED db
    BY <2>1 DEF RowsOf
  <2>2. ASSUME NEW w \in Workers, Commit(w) PROVE Store!Replace(snap[w])
    <3> DEFINE s == snap[w]
    <3>1. /\ ins[w] = FullAnalysis(s, mine[w])
          /\ s \in Snapshots /\ mine[w] \in 1..MaxPk
          /\ \A r \in db : r.pk # mine[w]
      BY <2>2, CommitsFullAnalysis DEF IInv
    <3>2. db' = (db \ del[w]) \cup ins[w]
      BY <2>2 DEF Commit
    <3>3. \A r \in shown[s] : r.pk # mine[w]
      BY <3>1 DEF RowsOf
    <3>4. \A r \in ins[w] : r.snap = s /\ r.kind \in all
      BY <3>1, AnalysisAssumption DEF FullAnalysis, Row
    <3>5. \A r \in db \ del[w] : r.snap # s
      BY <2>2, CommitsReplaceAll DEF IInv
    <3>6. RowsOf(db', all, s) = FullAnalysis(s, mine[w])
      BY <3>1, <3>2, <3>4, <3>5 DEF RowsOf
    <3>7. \A t \in Snapshots \ {s} : RowsOf(db', all, t) = RowsOf(db, all, t)
      BY <3>2, <3>4 DEF RowsOf, IInv, Deletes
    <3>8. shown' = [shown EXCEPT ![s] = FullAnalysis(s, mine[w])]
      BY <3>1, <3>6, <3>7 DEF RowsOf
    <3>9. FullAnalysis(s, mine[w]) = Store!FullAnalysis(s, mine[w])
      BY DEF FullAnalysis, Row, Store!FullAnalysis, Store!Row
    <3> QED
      BY <3>1, <3>3, <3>8, <3>9 DEF Store!Replace
  <2>3. ASSUME NEW w \in Workers, Commit(w) PROVE snap[w] \in Snapshots
    BY <2>3 DEF Commit, TypeOK
  <2> QED
    BY <2>1, <2>2, <2>3, OnlyCommitsShow
<1> QED
  BY <1>1, <1>2, Typing, Inductive, Idempotent, PTL
     DEF Spec, ReplacesExactly, Store!SerialSpec

(* With one process, each analysis replaces the previous one exactly.      *)
THEOREM Serial ==
    ASSUME \A v, w \in Workers : v = w
    PROVE  Spec => ReplacesExactly
<1>1. OneAtATime
  BY DEF OneAtATime
<1> QED
  BY <1>1, Replacing, PTL
=============================================================================
