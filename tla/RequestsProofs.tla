--------------------------- MODULE RequestsProofs ---------------------------
(***************************************************************************)
(* Theorems of Requests for any requests, devices, texts and bounds.  The  *)
(* argument: rows are only added, the rows of the analysis committed last  *)
(* are all there, and what a request has in hand speaks of rows that are   *)
(* there.                                                                  *)
(***************************************************************************)
EXTENDS Requests, SequenceTheorems, TLAPS

Keys   == 0..MaxAnalyses
Found  == SUBSET (1..MaxAnalyses)
Stored == [Kinds -> Found]
Snaps  == 1..MaxSnapshots
Begun  == [devices : SUBSET Devices, snapshots : 0..MaxSnapshots]
Table  == (SUBSET Devices) \cup (SUBSET Snaps) \cup (SUBSET [base : Snaps, target : Snaps])
          \cup Seq(Found)

(* What a request can have in hand, and what an analysis can be made for.   *)
Opener == [pc : {"open"}, snap : Snaps, key : Keys]
Reader == [pc : {"page", "compare"}, plan : Seq(Snaps), seen : Seq(Found)]
Backs  == {Idle} \cup Opener \cup Reader
Hands  == Backs
          \cup [pc : {"save"}, row : Snapshot]
          \cup [pc : {"analyse"}, snap : Snaps, back : Backs]
          \cup [pc : {"store"}, snap : Snaps, back : Backs, had : Keys, since : Keys]
          \cup [pc : {"create"}, row : Comparison]

Pair(b, t) == <<b, t, b, t, b, t, b, t>>

(* The database: its rows, and what they refer to.                         *)
Database ==
    /\ devices \subseteq Devices
    /\ snapshots \in Seq(Snapshot) /\ Len(snapshots) <= MaxSnapshots
    /\ \A s \in DOMAIN snapshots : snapshots[s].device \in devices
    /\ keys \in Keys
    /\ analysis \in Seq(Stored) /\ Len(analysis) = Len(snapshots)
    /\ \A s \in DOMAIN analysis : \A k \in Kinds : \A a \in analysis[s][k] : a <= keys
    /\ comparisons \in Seq(Comparison) /\ Len(comparisons) <= MaxComparisons
    /\ \A c \in DOMAIN comparisons :
          comparisons[c].base \in DOMAIN snapshots /\ comparisons[c].target \in DOMAIN snapshots
    /\ dropped \subseteq DOMAIN snapshots

(* What a request reads or is to open refers to rows that are there.       *)
Rests(back, snaps) ==
    /\ back.pc = "open" => back.snap \in snaps
    /\ back.pc = "page" => /\ \E s \in snaps : back.plan = <<s, s, s, s>>
                           /\ Len(back.seen) \in 1..4
    /\ back.pc = "compare" => /\ \E b, t \in snaps : b # t /\ back.plan = Pair(b, t)
                              /\ Len(back.seen) \in 0..8

(* So does what it has in hand; an analysis for a comparison is of the      *)
(* snapshot the comparison looks at.                                       *)
Holds(hand, devs, snaps) ==
    /\ hand.pc = "save" => hand.row.device \in devs
    /\ hand.pc \in {"analyse", "store"} =>
          /\ hand.snap \in snaps
          /\ hand.back.pc \in {"idle", "open", "compare"} /\ Rests(hand.back, snaps)
          /\ hand.back.pc = "compare" =>
                Len(hand.back.seen) < 2 /\ hand.back.plan[Len(hand.back.seen) + 1] = hand.snap
    /\ hand.pc = "create" => hand.row.base \in snaps /\ hand.row.target \in snaps
    /\ Rests(hand, snaps)

InHand == req \in [Requests -> Hands] /\ \A r \in Requests : Holds(req[r], devices, DOMAIN snapshots)

(* A backup being made holds the tables it has read.                       *)
Backup ==
    /\ \/ backup \in [pc : {"idle"}]
       \/ /\ backup \in [pc : {"read", "written"}, tables : Seq(Table), begun : Begun]
          /\ Len(backup.tables) \in 0..7
          /\ backup.pc = "written" => Len(backup.tables) = 7
    /\ destination = <<>> \/ destination \in [tables : Seq(Table), begun : Begun]

Types == Database /\ InHand /\ Backup

-----------------------------------------------------------------------------
(* No step removes a row, and a request that is not at work keeps what it  *)
(* has in hand.                                                            *)
LEMMA HandsKept ==
    ASSUME Types, NEW r \in Requests, NEW to \in Hands,
           devices \subseteq devices', DOMAIN snapshots \subseteq DOMAIN snapshots',
           req' = [req EXCEPT ![r] = to], Holds(to, devices', DOMAIN snapshots')
    PROVE  InHand'
  BY DEF Types, InHand, Holds, Rests

(* The same when no request changes.                                       *)
LEMMA HandsStay ==
    ASSUME Types, devices \subseteq devices', DOMAIN snapshots \subseteq DOMAIN snapshots',
           req' = req
    PROVE  InHand'
  BY DEF Types, InHand, Holds, Rests

(* The keys of the snapshots.                                              *)
LEMMA SnapshotKeys ==
    ASSUME Types
    PROVE  /\ DOMAIN snapshots = 1..Len(snapshots) /\ Len(snapshots) \in 0..MaxSnapshots
           /\ DOMAIN snapshots \subseteq Snaps
           /\ DOMAIN analysis = DOMAIN snapshots
           /\ \A s \in DOMAIN snapshots : analysis[s] \in Stored /\ snapshots[s] \in Snapshot
  <1>1. /\ snapshots \in Seq(Snapshot) /\ Len(snapshots) <= MaxSnapshots
        /\ analysis \in Seq(Stored) /\ Len(analysis) = Len(snapshots)
        /\ MaxSnapshots \in Nat
    BY RequestsAssumption DEF Types, Database
  <1>2. DOMAIN snapshots = 1..Len(snapshots) /\ DOMAIN analysis = DOMAIN snapshots
        /\ Len(snapshots) \in 0..MaxSnapshots
    BY <1>1
  <1>3. DOMAIN snapshots \subseteq Snaps
    BY <1>1, <1>2 DEF Snaps
  <1> QED
    BY <1>1, <1>2, <1>3

(* What an analysis writes is well typed.                                  *)
LEMMA AnalyseTypes ==
    ASSUME Types, NEW s \in DOMAIN snapshots, NEW had, NEW since, Analyse(s, had, since),
           UNCHANGED <<devices, snapshots, comparisons>>
    PROVE  /\ Database'
           /\ keys + 1 \in 1..MaxAnalyses /\ keys' = keys + 1
           /\ analysis' \in Seq(Stored) /\ DOMAIN analysis' = DOMAIN snapshots
           /\ \A k \in Kinds : /\ keys + 1 \in analysis'[s][k]
                               /\ analysis'[s][k] \subseteq analysis[s][k] \cup {keys + 1}
           /\ \A u \in DOMAIN snapshots : u # s => analysis'[u] = analysis[u]
  <1>1. /\ analysis \in Seq(Stored) /\ Len(analysis) = Len(snapshots) /\ keys \in Nat
        /\ DOMAIN snapshots = 1..Len(snapshots) /\ s \in 1..Len(analysis)
    BY RequestsAssumption DEF Types, Database, Keys
  <1>2. keys + 1 \in 1..MaxAnalyses /\ keys' = keys + 1 /\ keys' \in Keys
    BY <1>1, RequestsAssumption DEF Analyse, Keys
  <1>3. PICK at : analysis' = [analysis EXCEPT ![s] =
                                  [k \in Kinds |-> Left(s, had, at, k) \cup {keys + 1}]]
    BY DEF Analyse
  <1> DEFINE new == [k \in Kinds |-> Left(s, had, at, k) \cup {keys + 1}]
  <1>4. \A k \in Kinds : Left(s, had, at, k) \subseteq analysis[s][k]
    BY DEF Left
  <1>5. analysis[s] \in Stored
    BY <1>1, ElementOfSeq
  <1>6. \A k \in Kinds : Left(s, had, at, k) \cup {keys + 1} \in Found
    BY <1>2, <1>4, <1>5 DEF Stored, Found
  <1>7. new \in Stored
    BY <1>6 DEF Stored
  <1>8. \A k \in Kinds : new[k] = Left(s, had, at, k) \cup {keys + 1}
    OBVIOUS
  <1> HIDE DEF new
  <1>9. /\ analysis' \in Seq(Stored) /\ Len(analysis') = Len(analysis)
        /\ \A u \in 1..Len(analysis) : analysis'[u] = IF u = s THEN new ELSE analysis[u]
    BY <1>1, <1>3, <1>7, ExceptSeq DEF new
  <1>10. \A k \in Kinds : keys + 1 \in analysis'[s][k]
                          /\ analysis'[s][k] \subseteq analysis[s][k] \cup {keys + 1}
    BY <1>1, <1>4, <1>8, <1>9
  <1>11. \A u \in DOMAIN snapshots : u # s => analysis'[u] = analysis[u]
    BY <1>1, <1>9
  <1>12. DOMAIN analysis' = DOMAIN snapshots
    BY <1>1, <1>9
  <1>13. \A u \in DOMAIN analysis' : \A k \in Kinds : \A a \in analysis'[u][k] : a <= keys'
    <2>1. \A u \in DOMAIN snapshots : \A k \in Kinds : \A a \in analysis[u][k] :
             a \in Nat /\ a <= keys
      BY SnapshotKeys, RequestsAssumption DEF Types, Database, Stored, Found
    <2> QED
      BY <1>1, <1>2, <1>10, <1>11, <1>12, <2>1
  <1>14. dropped' \subseteq DOMAIN snapshots
    BY DEF Types, Database, Analyse
  <1> QED
    BY <1>1, <1>2, <1>9, <1>10, <1>11, <1>12, <1>13, <1>14 DEF Types, Database

(* The fields of what a request has in hand, by its kind.                  *)
LEMMA HandFields ==
    ASSUME Types, NEW r \in Requests
    PROVE  /\ req[r].pc \in {"idle", "save", "analyse", "store", "open", "create", "page",
                             "compare"}
           /\ req[r].pc = "save" => req[r].row \in Snapshot /\ req[r].row.device \in devices
           /\ req[r].pc \in {"analyse", "store"} =>
                 /\ req[r].snap \in DOMAIN snapshots
                 /\ req[r].back \in Backs /\ req[r].back.pc \in {"idle", "open", "compare"}
                 /\ Rests(req[r].back, DOMAIN snapshots)
           /\ req[r].pc = "open" => req[r].snap \in DOMAIN snapshots /\ req[r].key \in Keys
           /\ req[r].pc = "create" => /\ req[r].row \in Comparison
                                      /\ req[r].row.base \in DOMAIN snapshots
                                      /\ req[r].row.target \in DOMAIN snapshots
           /\ req[r].pc \in {"page", "compare"} =>
                 req[r] \in Reader /\ Rests(req[r], DOMAIN snapshots)
  <1>1. req[r] \in Hands /\ Holds(req[r], devices, DOMAIN snapshots)
    BY DEF Types, InHand
  <1>2. CASE req[r] \in Backs
    BY <1>1, <1>2 DEF Holds, Rests, Backs, Opener, Reader, Idle
  <1>3. CASE req[r] \notin Backs
    BY <1>1, <1>3 DEF Holds, Rests, Hands
  <1> QED
    BY <1>2, <1>3

(* The fields of a reader, and of one that has read one more table.        *)
LEMMA ReaderFields ==
    ASSUME NEW hand \in Reader, NEW snaps, Rests(hand, snaps)
    PROVE  /\ \A i \in DOMAIN hand.plan : hand.plan[i] \in snaps
           /\ hand.plan \in Seq(Snaps)
           /\ Len(hand.plan) = (IF hand.pc = "page" THEN 4 ELSE 8)
           /\ Len(hand.seen) \in 0..Len(hand.plan)
           /\ hand.seen \in Seq(Found) /\ DOMAIN hand.seen = 1..Len(hand.seen)
           /\ Len(hand.seen) < Len(hand.plan) => hand.plan[Len(hand.seen) + 1] \in snaps
  <1>1. hand.pc \in {"page", "compare"} /\ hand.plan \in Seq(Snaps) /\ hand.seen \in Seq(Found)
    BY DEF Reader
  <1>2. CASE hand.pc = "page"
    <2>1. PICK s \in snaps : hand.plan = <<s, s, s, s>>
      BY <1>2 DEF Rests
    <2>2. Len(hand.plan) = 4 /\ \A i \in DOMAIN hand.plan : hand.plan[i] \in snaps
      BY <2>1
    <2>3. Len(hand.seen) \in 0..4
      BY <1>2 DEF Rests
    <2> QED
      BY <1>1, <1>2, <2>2, <2>3
  <1>3. CASE hand.pc = "compare"
    <2>1. PICK b, t \in snaps : hand.plan = <<b, t, b, t, b, t, b, t>>
      BY <1>3 DEF Rests, Pair
    <2>2. Len(hand.plan) = 8 /\ \A i \in DOMAIN hand.plan : hand.plan[i] \in snaps
      BY <2>1
    <2>3. Len(hand.seen) \in 0..8
      BY <1>3 DEF Rests
    <2> QED
      BY <1>1, <1>3, <2>2, <2>3
  <1> QED
    BY <1>1, <1>2, <1>3

LEMMA ReaderReads ==
    ASSUME NEW hand \in Reader, NEW snaps, Rests(hand, snaps), NEW found \in Found,
           Len(hand.seen) < Len(hand.plan)
    PROVE  LET to == [hand EXCEPT !.seen = Append(hand.seen, found)]
           IN  /\ to \in Reader /\ Rests(to, snaps)
               /\ to.pc = hand.pc /\ to.plan = hand.plan
               /\ to.seen = Append(hand.seen, found)
  <1> DEFINE to == [hand EXCEPT !.seen = Append(hand.seen, found)]
  <1>1. /\ hand.seen \in Seq(Found) /\ Len(hand.plan) = (IF hand.pc = "page" THEN 4 ELSE 8)
        /\ hand.pc \in {"page", "compare"}
    BY ReaderFields DEF Reader
  <1>2. /\ Append(hand.seen, found) \in Seq(Found)
        /\ Len(Append(hand.seen, found)) = Len(hand.seen) + 1
    BY <1>1
  <1>3. /\ to \in Reader /\ to.pc = hand.pc /\ to.plan = hand.plan
        /\ to.seen = Append(hand.seen, found)
    BY <1>2 DEF Reader
  <1> HIDE DEF to
  <1>4. Rests(to, snaps)
    <2>1. CASE hand.pc = "page"
      <3>1. (\E s \in snaps : to.plan = <<s, s, s, s>>) /\ Len(hand.seen) \in 1..4
        BY <1>3, <2>1 DEF Rests
      <3>2. Len(to.seen) \in 1..4
        BY <1>1, <1>2, <1>3, <2>1, <3>1
      <3> QED
        BY <1>3, <2>1, <3>1, <3>2 DEF Rests
    <2>2. CASE hand.pc = "compare"
      <3>1. /\ \E b, t \in snaps : b # t /\ to.plan = Pair(b, t)
            /\ Len(hand.seen) \in 0..8
        BY <1>3, <2>2 DEF Rests
      <3>2. Len(to.seen) \in 0..8
        BY <1>1, <1>2, <1>3, <2>2, <3>1
      <3> QED
        BY <1>3, <2>2, <3>1, <3>2 DEF Rests
    <2> QED
      BY <1>1, <2>1, <2>2
  <1> QED
    BY <1>3, <1>4 DEF to

(* Reading one more table keeps the request well typed.                    *)
LEMMA ReadTypes ==
    ASSUME Types, NEW r \in Requests, NEW found \in Found,
           req[r].pc \in {"page", "compare"}, Len(req[r].seen) < Len(req[r].plan),
           devices = devices', snapshots = snapshots', Read(r, found)
    PROVE  InHand'
  <1> DEFINE to == [req[r] EXCEPT !.seen = Append(req[r].seen, found)]
  <1>1. req[r] \in Reader /\ Rests(req[r], DOMAIN snapshots)
    BY HandFields
  <1>2. to \in Reader /\ Rests(to, DOMAIN snapshots) /\ to.pc = req[r].pc
    BY <1>1, ReaderReads
  <1>3. req' = [req EXCEPT ![r] = to]
    BY DEF Read, Types, InHand
  <1> HIDE DEF to
  <1>4. to \in Hands /\ Holds(to, devices', DOMAIN snapshots')
    BY <1>2 DEF Hands, Backs, Holds
  <1> QED
    BY <1>3, <1>4, HandsKept

(* A step that writes no row keeps the database, one of a request the      *)
(* backup.                                                                 *)
LEMMA RowsStay ==
    ASSUME Types, UNCHANGED rows
    PROVE  Database' /\ devices \subseteq devices' /\ DOMAIN snapshots \subseteq DOMAIN snapshots'
  BY DEF Types, Database, rows

LEMMA DiskStays ==
    ASSUME Types, UNCHANGED disk
    PROVE  Backup'
  BY DEF Types, Backup, disk

(* A request that looks before it writes changes nothing but what it has   *)
(* in hand.                                                                *)
LEMMA LooksTypes ==
    ASSUME Types, NEW r \in Requests, NEW to \in Hands,
           Holds(to, devices, DOMAIN snapshots), req' = [req EXCEPT ![r] = to],
           UNCHANGED <<rows, disk>>
    PROVE  Types'
  <1>1. Database' /\ Backup' /\ UNCHANGED <<devices, snapshots>>
    BY RowsStay, DiskStays DEF rows
  <1>2. InHand'
    BY <1>1, HandsKept
  <1> QED
    BY <1>1, <1>2 DEF Types

(* The steps of a request, one after another, keep the types.              *)
LEMMA UploadTypes ==
    ASSUME Types, NEW r \in Requests, NEW d \in Devices, NEW t \in Texts, Upload(r, d, t)
    PROVE  Types'
  <1> DEFINE row == [device |-> d, text |-> t, known |-> Len(snapshots)]
  <1>1. row \in Snapshot
    BY RequestsAssumption DEF Snapshot, Types, Database
  <1>2. Saving(row) \in Hands /\ Holds(Saving(row), devices, DOMAIN snapshots)
    BY <1>1 DEF Upload, Saving, Hands, Holds, Rests
  <1> QED
    BY <1>2, LooksTypes DEF Upload, Goes

LEMMA NewAnalysisTypes ==
    ASSUME Types, NEW r \in Requests, NEW d \in Devices, NEW t \in Texts, NewAnalysis(r, d, t)
    PROVE  Types'
  <1> DEFINE row == [device |-> d, text |-> t, known |-> 0]
  <1>1. row \in Snapshot
    BY RequestsAssumption DEF Snapshot
  <1>2. Saving(row) \in Hands /\ Holds(Saving(row), devices', DOMAIN snapshots')
    BY <1>1 DEF NewAnalysis, Saving, Hands, Holds, Rests
  <1>3. Database' /\ devices \subseteq devices'
    BY DEF NewAnalysis, Types, Database
  <1>4. InHand'
    BY <1>2, <1>3, HandsKept DEF NewAnalysis, Goes
  <1> QED
    BY <1>3, <1>4, DiskStays DEF NewAnalysis, Types

LEMMA SaveTypes ==
    ASSUME Types, NEW r \in Requests, SaveSnapshot(r)
    PROVE  /\ Types'
           /\ DOMAIN snapshots' = 1..(Len(snapshots) + 1)
           /\ \A s \in DOMAIN snapshots :
                 snapshots'[s] = snapshots[s] /\ analysis'[s] = analysis[s]
           /\ snapshots'[Len(snapshots) + 1] = req[r].row
           /\ analysis'[Len(snapshots) + 1] = NoRows
  <1> USE RequestsAssumption
  <1>1. req[r].row \in Snapshot /\ req[r].row.device \in devices
    BY HandFields DEF SaveSnapshot
  <1>2. /\ snapshots \in Seq(Snapshot) /\ analysis \in Seq(Stored)
        /\ Len(analysis) = Len(snapshots)
        /\ snapshots' = Append(snapshots, req[r].row) /\ analysis' = Append(analysis, NoRows)
        /\ UNCHANGED <<devices, keys, comparisons, dropped, disk>>
        /\ Len(snapshots) < MaxSnapshots
    BY DEF SaveSnapshot, Types, Database
  <1>3. /\ snapshots' \in Seq(Snapshot) /\ Len(snapshots') = Len(snapshots) + 1
        /\ DOMAIN snapshots' = 1..(Len(snapshots) + 1)
        /\ \A s \in DOMAIN snapshots : snapshots'[s] = snapshots[s]
        /\ snapshots'[Len(snapshots) + 1] = req[r].row
    BY <1>1, <1>2
  <1>4. NoRows \in Stored /\ \A k \in Kinds : NoRows[k] = {}
    BY DEF NoRows, Stored, Found
  <1>5. /\ analysis' \in Seq(Stored) /\ Len(analysis') = Len(snapshots')
        /\ \A s \in DOMAIN snapshots : analysis'[s] = analysis[s]
        /\ analysis'[Len(snapshots) + 1] = NoRows
    BY <1>2, <1>3, <1>4
  <1>6. DOMAIN snapshots \subseteq DOMAIN snapshots' /\ Len(snapshots') <= MaxSnapshots
    BY <1>2, <1>3, SnapshotKeys
  <1>7. \A s \in DOMAIN snapshots' : snapshots'[s].device \in devices'
    BY <1>1, <1>2, <1>3, SnapshotKeys DEF Types, Database
  <1>8. \A s \in DOMAIN analysis' : \A k \in Kinds : \A a \in analysis'[s][k] : a <= keys'
    <2>1. \A s \in DOMAIN analysis' : s \in DOMAIN snapshots \/ s = Len(snapshots) + 1
      BY <1>2, <1>3, <1>5, SnapshotKeys
    <2>2. keys' = keys /\ DOMAIN analysis = DOMAIN snapshots
      BY <1>2, SnapshotKeys
    <2> QED
      BY <1>4, <1>5, <2>1, <2>2 DEF Types, Database
  <1>9. Database'
    BY <1>2, <1>3, <1>5, <1>6, <1>7, <1>8 DEF Types, Database
  <1> DEFINE new == Len(snapshots) + 1
  <1>10. new \in Snaps /\ new \in DOMAIN snapshots'
    BY <1>2, <1>3, SnapshotKeys DEF Snaps
  <1> HIDE DEF new
  <1>11. Opening(new, 0) \in Backs /\ Rests(Opening(new, 0), DOMAIN snapshots')
    BY <1>10 DEF Opening, Backs, Opener, Keys, Rests
  <1>12. /\ Analysing(new, Opening(new, 0)) \in Hands
         /\ Holds(Analysing(new, Opening(new, 0)), devices', DOMAIN snapshots')
    BY <1>10, <1>11 DEF Analysing, Opening, Hands, Holds, Rests
  <1>13. InHand'
    BY <1>2, <1>6, <1>12, HandsKept DEF SaveSnapshot, Goes, new
  <1> QED
    BY <1>2, <1>3, <1>5, <1>9, <1>13, DiskStays DEF Types

LEMMA ReanalyseTypes ==
    ASSUME Types, NEW r \in Requests, NEW s \in DOMAIN snapshots, Reanalyse(r, s)
    PROVE  Types'
  <1>1. s \in Snaps
    BY SnapshotKeys
  <1>2. Analysing(s, Idle) \in Hands /\ Holds(Analysing(s, Idle), devices, DOMAIN snapshots)
    BY <1>1 DEF Analysing, Idle, Hands, Backs, Holds, Rests
  <1> QED
    BY <1>2, LooksTypes DEF Reanalyse, Goes

LEMMA LookUpTypes ==
    ASSUME Types, NEW r \in Requests, LookUp(r)
    PROVE  Types'
  <1>1. /\ req[r].snap \in DOMAIN snapshots /\ req[r].snap \in Snaps /\ req[r].back \in Backs
        /\ Holds(req[r], devices, DOMAIN snapshots) /\ req[r].pc = "analyse"
    BY HandFields, SnapshotKeys DEF LookUp, Types, InHand
  <1>2. PICK had \in First(req[r].snap) :
            req' = [req EXCEPT ![r] = Storing(req[r].snap, req[r].back, had, keys)]
    BY DEF LookUp, Goes
  <1>3. had \in Keys /\ keys \in Keys
    <2>1. analysis[req[r].snap] \in Stored /\ "parsed" \in Kinds
      BY <1>1, SnapshotKeys DEF Kinds
    <2>2. analysis[req[r].snap]["parsed"] \subseteq Keys
      BY <2>1 DEF Stored, Found, Keys
    <2> QED
      BY <2>2, RequestsAssumption DEF First, Keys, Types, Database
  <1> DEFINE to == Storing(req[r].snap, req[r].back, had, keys)
  <1>4. to \in [pc : {"store"}, snap : Snaps, back : Backs, had : Keys, since : Keys]
    BY <1>1, <1>3 DEF Storing
  <1>5. to \in Hands
    BY <1>4 DEF Hands
  <1>6. to.pc = "store" /\ to.snap = req[r].snap /\ to.back = req[r].back
    BY DEF Storing
  <1> HIDE DEF to
  <1>7. Holds(to, devices, DOMAIN snapshots)
    BY <1>1, <1>6 DEF Holds, Rests
  <1> QED
    BY <1>2, <1>5, <1>7, LooksTypes DEF LookUp, to

(* What a request goes on with after its analysis.                         *)
LEMMA ResumedTypes ==
    ASSUME Types, NEW r \in Requests, req[r].pc = "store", NEW k \in 1..MaxAnalyses
    PROVE  LET to == Resumed(req[r].back, k)
           IN  /\ to \in Backs /\ Rests(to, DOMAIN snapshots)
               /\ to.pc = req[r].back.pc
               /\ to.pc = "open" => to.key = k
               /\ to.pc = "compare" => /\ to.plan = req[r].back.plan
                                       /\ to.seen = Append(req[r].back.seen, {k})
  <1> DEFINE back == req[r].back
  <1>1. /\ back \in Backs /\ back.pc \in {"idle", "open", "compare"}
        /\ Rests(back, DOMAIN snapshots)
    BY HandFields
  <1>2. back.pc = "compare" => Len(back.seen) < 2
    BY DEF Types, InHand, Holds
  <1> HIDE DEF back
  <1>3. CASE back.pc = "idle"
    BY <1>1, <1>3 DEF Resumed, Rests, back
  <1>4. CASE back.pc = "open"
    <2>1. back \in Opener /\ k \in Keys
      BY <1>1, <1>4, RequestsAssumption DEF Backs, Idle, Reader, Keys
    <2>2. Resumed(back, k) = [back EXCEPT !.key = k]
      BY <1>4 DEF Resumed
    <2>3. /\ Resumed(back, k) \in Opener /\ Resumed(back, k).snap = back.snap
          /\ Resumed(back, k).key = k /\ Resumed(back, k).pc = "open"
      BY <2>1, <2>2 DEF Opener
    <2> QED
      BY <1>1, <1>4, <2>3 DEF Backs, Rests, back
  <1>5. CASE back.pc = "compare"
    <2>1. back \in Reader /\ {k} \in Found
      BY <1>1, <1>5 DEF Backs, Idle, Opener, Found
    <2>2. Resumed(back, k) = [back EXCEPT !.seen = Append(back.seen, {k})]
      BY <1>5 DEF Resumed
    <2>3. Len(back.seen) < Len(back.plan)
      BY <1>1, <1>2, <1>5, <2>1, ReaderFields
    <2>4. /\ Resumed(back, k) \in Reader /\ Rests(Resumed(back, k), DOMAIN snapshots)
          /\ Resumed(back, k).pc = back.pc /\ Resumed(back, k).plan = back.plan
          /\ Resumed(back, k).seen = Append(back.seen, {k})
      <3> DEFINE to == [back EXCEPT !.seen = Append(back.seen, {k})]
      <3>1. /\ to \in Reader /\ Rests(to, DOMAIN snapshots)
            /\ to.pc = back.pc /\ to.plan = back.plan /\ to.seen = Append(back.seen, {k})
        BY <1>1, <2>1, <2>3, ReaderReads
      <3> HIDE DEF to
      <3>2. Resumed(back, k) = to
        BY <2>2 DEF to
      <3> QED
        BY <3>1, <3>2
    <2> QED
      BY <1>5, <2>4 DEF Backs, back
  <1> QED
    BY <1>1, <1>3, <1>4, <1>5

LEMMA StoreAnalysisTypes ==
    ASSUME Types, NEW r \in Requests, StoreAnalysis(r)
    PROVE  Types'
  <1>1. req[r].snap \in DOMAIN snapshots /\ req[r].pc = "store"
    BY HandFields DEF StoreAnalysis
  <1>2. Database' /\ keys + 1 \in 1..MaxAnalyses
    BY <1>1, AnalyseTypes DEF StoreAnalysis
  <1> DEFINE to == Resumed(req[r].back, keys + 1)
  <1>3. to \in Backs /\ Rests(to, DOMAIN snapshots) /\ to.pc \in {"idle", "open", "compare"}
    BY <1>1, <1>2, ResumedTypes, HandFields
  <1> HIDE DEF to
  <1>4. to \in Hands /\ Holds(to, devices', DOMAIN snapshots')
    BY <1>3 DEF Hands, Holds, StoreAnalysis
  <1>5. InHand'
    BY <1>4, HandsKept DEF StoreAnalysis, Goes, to
  <1> QED
    BY <1>2, <1>5, DiskStays DEF StoreAnalysis, Types

LEMMA FollowLinkTypes ==
    ASSUME Types, NEW r \in Requests, NEW s \in DOMAIN snapshots, FollowLink(r, s)
    PROVE  Types'
  <1>1. PICK k \in analysis[s]["parsed"] : req' = [req EXCEPT ![r] = Opening(s, k)]
    BY DEF FollowLink, Goes
  <1>2. s \in Snaps /\ k \in Keys
    BY SnapshotKeys DEF Stored, Found, Keys, Kinds
  <1>3. Opening(s, k) \in Hands /\ Holds(Opening(s, k), devices, DOMAIN snapshots)
    BY <1>2 DEF Opening, Hands, Backs, Opener, Holds, Rests
  <1> QED
    BY <1>1, <1>3, LooksTypes DEF FollowLink

LEMMA OpenPageTypes ==
    ASSUME Types, NEW r \in Requests, OpenPage(r)
    PROVE  Types'
  <1> DEFINE s == req[r].snap
             k == req[r].key
  <1>1. s \in DOMAIN snapshots /\ s \in Snaps
    BY HandFields, SnapshotKeys DEF OpenPage, Goes
  <1>2. Idle \in Hands /\ Holds(Idle, devices, DOMAIN snapshots)
    BY DEF Idle, Hands, Backs, Holds, Rests
  <1>3. CASE k \in analysis[s]["parsed"]
    <2>1. {k} \in Found
      BY <1>1, <1>3, SnapshotKeys DEF Stored, Found, Kinds
    <2> HIDE DEF s, k
    <2>2. <<s, s, s, s>> \in Seq(Snaps) /\ <<{k}>> \in Seq(Found) /\ Len(<<{k}>>) = 1
      BY <1>1, <2>1
    <2>3. Page(s, k) \in Reader
      BY <2>2 DEF Page, Reader
    <2>4. Page(s, k) \in Hands /\ Holds(Page(s, k), devices, DOMAIN snapshots)
      BY <1>1, <2>2, <2>3 DEF Page, Hands, Backs, Holds, Rests
    <2> QED
      BY <1>3, <2>4, LooksTypes DEF OpenPage, Goes, s, k
  <1>4. CASE k \notin analysis[s]["parsed"]
    BY <1>2, <1>4, LooksTypes DEF OpenPage, Goes
  <1> QED
    BY <1>3, <1>4

LEMMA ComparePageTypes ==
    ASSUME Types, NEW r \in Requests, NEW b \in DOMAIN snapshots, NEW t \in DOMAIN snapshots,
           ComparePage(r, b, t)
    PROVE  Types'
  <1> DEFINE row == [base |-> b, target |-> t, known |-> Len(comparisons), seen |-> <<>>]
  <1>1. Len(comparisons) \in 0..MaxComparisons /\ b \in Snaps /\ t \in Snaps
    BY RequestsAssumption, SnapshotKeys DEF Types, Database
  <1>2. row \in Comparison
    BY <1>1 DEF Comparison, Snaps
  <1>3. Creating(row) \in Hands /\ Holds(Creating(row), devices, DOMAIN snapshots)
    BY <1>2 DEF Creating, Hands, Holds, Rests
  <1> QED
    BY <1>3, LooksTypes DEF ComparePage, Goes

LEMMA CompareNewTypes ==
    ASSUME Types, NEW r \in Requests, NEW b \in DOMAIN snapshots, NEW t \in DOMAIN snapshots,
           CompareNew(r, b, t)
    PROVE  Types'
  <1>1. b \in Snaps /\ t \in Snaps
    BY SnapshotKeys
  <1>2. Pair(b, t) \in Seq(Snaps) /\ <<>> \in Seq(Found) /\ Len(<<>>) = 0
    BY <1>1 DEF Pair
  <1>3. Comparing(b, t) = [pc |-> "compare", plan |-> Pair(b, t), seen |-> <<>>]
    BY DEF Comparing, Pair
  <1>4. Comparing(b, t) \in Reader
    BY <1>2, <1>3 DEF Reader
  <1>5. Comparing(b, t) \in Hands /\ Holds(Comparing(b, t), devices, DOMAIN snapshots)
    BY <1>2, <1>3, <1>4 DEF CompareNew, Hands, Backs, Holds, Rests
  <1> QED
    BY <1>5, LooksTypes DEF CompareNew, Goes

(* The snapshot of the next query is there.                                *)
LEMMA AheadIsThere ==
    ASSUME Types, NEW r \in Requests, req[r].pc \in {"page", "compare"},
           Len(req[r].seen) < Len(req[r].plan)
    PROVE  Ahead(r) \in DOMAIN snapshots /\ KindAhead(r) \in Kinds
  <1>1. req[r] \in Reader /\ Rests(req[r], DOMAIN snapshots)
    BY HandFields
  <1>2. /\ Len(req[r].seen) \in 0..Len(req[r].plan)
        /\ Len(req[r].plan) = (IF req[r].pc = "page" THEN 4 ELSE 8)
        /\ req[r].plan[Len(req[r].seen) + 1] \in DOMAIN snapshots
    BY <1>1, ReaderFields
  <1>3. CASE req[r].pc = "page"
    <2>1. Len(req[r].seen) + 1 \in 1..4
      BY <1>2, <1>3
    <2> QED
      BY <1>2, <1>3, <2>1 DEF Ahead, KindAhead, PageKinds, Kinds
  <1>4. CASE req[r].pc = "compare"
    <2>1. Len(req[r].seen) + 1 \in 1..8
      BY <1>2, <1>4
    <2> QED
      BY <1>2, <1>4, <2>1 DEF Ahead, KindAhead, CompareKinds, Kinds
  <1> QED
    BY <1>3, <1>4

LEMMA ReadRowsTypes ==
    ASSUME Types, NEW r \in Requests, ReadRows(r)
    PROVE  Types'
  <1>1. Ahead(r) \in DOMAIN snapshots /\ KindAhead(r) \in Kinds
    BY AheadIsThere DEF ReadRows
  <1>2. analysis[Ahead(r)][KindAhead(r)] \in Found
    BY <1>1, SnapshotKeys DEF Stored
  <1>3. PICK found \in Found : Read(r, found)
    BY <1>2 DEF ReadRows, Found
  <1>4. InHand'
    BY <1>3, ReadTypes DEF ReadRows, rows
  <1> QED
    BY <1>4, RowsStay, DiskStays DEF ReadRows, Types

LEMMA EnsureAnalyzedTypes ==
    ASSUME Types, NEW r \in Requests, EnsureAnalyzed(r)
    PROVE  Types'
  <1>1. /\ req[r] \in Reader /\ Rests(req[r], DOMAIN snapshots) /\ req[r].pc = "compare"
        /\ Len(req[r].seen) < 2
    BY HandFields DEF EnsureAnalyzed
  <1>2. Len(req[r].seen) < Len(req[r].plan)
    BY <1>1, ReaderFields
  <1>3. Ahead(r) \in DOMAIN snapshots /\ Ahead(r) \in Snaps
    BY <1>1, <1>2, AheadIsThere, SnapshotKeys
  <1> DEFINE to == Analysing(Ahead(r), req[r])
  <1>4. to \in Hands
    BY <1>1, <1>3 DEF Analysing, Hands, Backs
  <1>5. Holds(to, devices, DOMAIN snapshots)
    BY <1>1, <1>3 DEF Analysing, Holds, Rests, Ahead
  <1> QED
    BY <1>4, <1>5, LooksTypes DEF EnsureAnalyzed, Goes

LEMMA StoreComparisonTypes ==
    ASSUME Types, NEW r \in Requests, StoreComparison(r)
    PROVE  Types'
  <1> DEFINE row == [base |-> req[r].plan[1], target |-> req[r].plan[2], known |-> 0,
                     seen |-> req[r].seen]
  <1>1. /\ req[r].plan[1] \in DOMAIN snapshots /\ req[r].plan[2] \in DOMAIN snapshots
        /\ req[r].seen \in Seq(Found)
    <2>1. /\ Len(req[r].plan) = 8 /\ req[r].plan \in Seq(Snaps) /\ req[r].seen \in Seq(Found)
          /\ \A i \in DOMAIN req[r].plan : req[r].plan[i] \in DOMAIN snapshots
      BY HandFields, ReaderFields DEF StoreComparison
    <2> QED
      BY <2>1
  <1>2. row \in Comparison
    BY <1>1, RequestsAssumption, SnapshotKeys DEF Comparison, Snaps, Found
  <1>3. Creating(row) \in Hands /\ Holds(Creating(row), devices, DOMAIN snapshots)
    BY <1>1, <1>2 DEF Creating, Hands, Holds, Rests
  <1> QED
    BY <1>3, LooksTypes DEF StoreComparison, Goes

LEMMA CreateTypes ==
    ASSUME Types, NEW r \in Requests, CreateComparison(r)
    PROVE  /\ Types'
           /\ DOMAIN comparisons = 1..Len(comparisons)
           /\ DOMAIN comparisons' = 1..(Len(comparisons) + 1)
           /\ \A c \in DOMAIN comparisons : comparisons'[c] = comparisons[c]
           /\ comparisons'[Len(comparisons) + 1] = req[r].row
  <1>1. /\ req[r].row \in Comparison
        /\ req[r].row.base \in DOMAIN snapshots /\ req[r].row.target \in DOMAIN snapshots
    BY HandFields DEF CreateComparison
  <1>2. /\ comparisons \in Seq(Comparison) /\ Len(comparisons) < MaxComparisons
        /\ comparisons' = Append(comparisons, req[r].row)
        /\ UNCHANGED <<devices, snapshots, analysis, keys, dropped, disk>>
    BY DEF CreateComparison, Types, Database
  <1>3. /\ comparisons' \in Seq(Comparison) /\ Len(comparisons') <= MaxComparisons
        /\ DOMAIN comparisons = 1..Len(comparisons)
        /\ DOMAIN comparisons' = 1..(Len(comparisons) + 1)
        /\ \A c \in DOMAIN comparisons : comparisons'[c] = comparisons[c]
        /\ comparisons'[Len(comparisons) + 1] = req[r].row
    BY <1>1, <1>2, RequestsAssumption
  <1>4. Database'
    BY <1>1, <1>2, <1>3 DEF Types, Database
  <1>5. Idle \in Hands /\ Holds(Idle, devices', DOMAIN snapshots')
    BY DEF Idle, Hands, Backs, Holds, Rests
  <1>6. InHand'
    BY <1>2, <1>5, HandsKept DEF CreateComparison, Goes
  <1> QED
    BY <1>2, <1>3, <1>4, <1>6, DiskStays DEF Types

LEMMA EndsTypes ==
    ASSUME Types, NEW r \in Requests, ShowPage(r) \/ EndsEarly(r)
    PROVE  Types'
  <1>1. Idle \in Hands /\ Holds(Idle, devices, DOMAIN snapshots)
    BY DEF Idle, Hands, Backs, Holds, Rests
  <1>2. CASE ShowPage(r)
    BY <1>1, <1>2, LooksTypes DEF ShowPage, Goes
  <1>3. CASE EndsEarly(r)
    <2>1. dropped' \subseteq DOMAIN snapshots
      BY <1>3 DEF EndsEarly, Types, Database
    <2>2. Database'
      BY <1>3, <2>1 DEF EndsEarly, Types, Database
    <2>3. InHand'
      BY <1>1, <1>3, HandsKept DEF EndsEarly
    <2> QED
      BY <1>3, <2>2, <2>3, DiskStays DEF EndsEarly, Types
  <1> QED
    BY <1>2, <1>3

-----------------------------------------------------------------------------
(* The backup.                                                             *)

(* An analysis table: of every snapshot the rows of one kind.              *)
LEMMA AnalysisContents ==
    ASSUME Types, NEW n \in AnalysisTables
    PROVE  /\ Tables[n] \in Kinds /\ Contents(Tables[n]) \in Seq(Found)
           /\ DOMAIN Contents(Tables[n]) = DOMAIN snapshots
           /\ \A s \in DOMAIN snapshots : Contents(Tables[n])[s] = analysis[s][Tables[n]]
  <1>1. Tables[n] \in Kinds /\ Tables[n] \notin {"devices", "snapshots", "comparisons"}
    <2>1. n \in {3, 4, 5, 6}
      BY DEF AnalysisTables
    <2> QED
      BY <2>1 DEF Tables, Kinds
  <1> DEFINE kind == Tables[n]
  <1> HIDE DEF kind
  <1>2. Contents(kind) = [s \in DOMAIN snapshots |-> analysis[s][kind]]
    BY <1>1 DEF Contents, kind
  <1>3. \A s \in DOMAIN snapshots : analysis[s][kind] \in Found
    BY <1>1, SnapshotKeys DEF Stored, kind
  <1>4. DOMAIN snapshots = 1..Len(snapshots) /\ Len(snapshots) \in Nat
    BY SnapshotKeys, RequestsAssumption
  <1>5. Contents(kind) \in [1..Len(snapshots) -> Found]
    BY <1>2, <1>3, <1>4
  <1>6. Contents(kind) \in UNION {[1..m -> Found] : m \in Nat}
    BY <1>4, <1>5, Zenon
  <1>7. Contents(kind) \in Seq(Found)
    BY <1>6, SeqDef, Zenon
  <1> QED
    BY <1>1, <1>2, <1>7 DEF kind

LEMMA ContentsTypes ==
    ASSUME Types, NEW n \in 1..7
    PROVE  Contents(Tables[n]) \in Table
  <1>1. devices \in SUBSET Devices /\ DOMAIN snapshots \in SUBSET Snaps
    BY SnapshotKeys DEF Types, Database
  <1>2. \A c \in DOMAIN comparisons : comparisons[c].base \in Snaps /\ comparisons[c].target \in Snaps
    BY <1>1 DEF Types, Database
  <1>3. {[base |-> comparisons[c].base, target |-> comparisons[c].target] :
            c \in DOMAIN comparisons} \in SUBSET [base : Snaps, target : Snaps]
    BY <1>2
  <1>4. n = 1 => Contents(Tables[n]) = devices
    BY DEF Contents, Tables
  <1>5. n = 2 => Contents(Tables[n]) = DOMAIN snapshots
    BY DEF Contents, Tables
  <1>6. n = 7 => Contents(Tables[n]) = {[base |-> comparisons[c].base,
                                         target |-> comparisons[c].target] :
                                            c \in DOMAIN comparisons}
    BY DEF Contents, Tables
  <1>7. n \in 3..6 => Contents(Tables[n]) \in Seq(Found)
    BY AnalysisContents DEF AnalysisTables
  <1> QED
    BY <1>1, <1>3, <1>4, <1>5, <1>6, <1>7 DEF Table

(* What a backup in progress holds, and one more table of it.              *)
LEMMA BackupFields ==
    ASSUME Types, backup.pc # "idle"
    PROVE  /\ backup \in [pc : {"read", "written"}, tables : Seq(Table), begun : Begun]
           /\ backup.tables \in Seq(Table) /\ Len(backup.tables) \in 0..7
           /\ DOMAIN backup.tables = 1..Len(backup.tables)
           /\ backup.pc = "written" => Len(backup.tables) = 7
  <1>1. /\ backup \in [pc : {"read", "written"}, tables : Seq(Table), begun : Begun]
        /\ Len(backup.tables) \in 0..7
        /\ backup.pc = "written" => Len(backup.tables) = 7
    BY DEF Types, Backup
  <1>2. backup.tables \in Seq(Table)
    BY <1>1
  <1> QED
    BY <1>1, <1>2

LEMMA SevenTables == Len(Tables) = 7 /\ DOMAIN Tables = 1..7
  BY DEF Tables

(* The steps of the backup keep the types.                                 *)
LEMMA ReadTableTypes ==
    ASSUME Types, ReadTable
    PROVE  /\ Types'
           /\ backup'.pc = "read" /\ backup'.begun = backup.begun
           /\ DOMAIN backup'.tables = 1..(Len(backup.tables) + 1)
           /\ \A i \in DOMAIN backup.tables : backup'.tables[i] = backup.tables[i]
           /\ backup'.tables[Len(backup.tables) + 1] = Contents(Tables[Len(backup.tables) + 1])
  <1> DEFINE new == Contents(Tables[Len(backup.tables) + 1])
             more == Append(backup.tables, new)
  <1>1. /\ backup \in [pc : {"read", "written"}, tables : Seq(Table), begun : Begun]
        /\ backup.tables \in Seq(Table) /\ Len(backup.tables) \in 0..7
        /\ DOMAIN backup.tables = 1..Len(backup.tables)
    BY BackupFields DEF ReadTable
  <1>2. new \in Table
    <2>1. Len(backup.tables) + 1 \in 1..7
      BY <1>1, SevenTables DEF ReadTable
    <2> QED
      BY <2>1, ContentsTypes
  <1>3. Len(backup.tables) < 7 /\ backup.pc = "read" /\ UNCHANGED <<rows, req, backups, destination>>
    BY SevenTables DEF ReadTable
  <1>4. backup' = [backup EXCEPT !.tables = more]
    BY <1>1 DEF ReadTable
  <1> HIDE DEF new
  <1>5. /\ more \in Seq(Table) /\ Len(more) \in 0..7
        /\ DOMAIN more = 1..(Len(backup.tables) + 1)
        /\ \A i \in DOMAIN backup.tables : more[i] = backup.tables[i]
        /\ more[Len(backup.tables) + 1] = new
    BY <1>1, <1>2, <1>3
  <1> HIDE DEF more
  <1>6. /\ backup' \in [pc : {"read", "written"}, tables : Seq(Table), begun : Begun]
        /\ backup'.pc = "read" /\ backup'.tables = more /\ backup'.begun = backup.begun
    BY <1>1, <1>3, <1>4, <1>5
  <1>7. Backup'
    BY <1>3, <1>5, <1>6 DEF Types, Backup
  <1>8. Database' /\ UNCHANGED <<devices, snapshots>>
    BY <1>3, RowsStay DEF rows
  <1>9. InHand'
    BY <1>3, <1>8, HandsStay
  <1> QED
    BY <1>5, <1>6, <1>7, <1>8, <1>9 DEF Types, new

LEMMA OtherBackupTypes ==
    ASSUME Types, StartBackup \/ WriteFile \/ ReplaceFile \/ BackupEndsEarly
    PROVE  Types'
  <1>1. UNCHANGED <<rows, req>>
    BY DEF StartBackup, WriteFile, ReplaceFile, BackupEndsEarly
  <1>2. Database' /\ UNCHANGED <<devices, snapshots>>
    BY <1>1, RowsStay DEF rows
  <1>3. InHand'
    BY <1>1, <1>2, HandsStay
  <1>4. Backup'
    <2>1. CASE StartBackup
      <3>1. [devices |-> devices, snapshots |-> Len(snapshots)] \in Begun
        BY SnapshotKeys DEF Types, Database, Begun
      <3>2. <<>> \in Seq(Table) /\ Len(<<>>) = 0
        OBVIOUS
      <3> QED
        BY <2>1, <3>1, <3>2 DEF StartBackup, Types, Backup
    <2>2. CASE WriteFile
      <3>1. /\ backup \in [pc : {"read", "written"}, tables : Seq(Table), begun : Begun]
            /\ Len(backup.tables) = 7
        BY <2>2, BackupFields, SevenTables DEF WriteFile
      <3> QED
        BY <2>2, <3>1 DEF WriteFile, Types, Backup
    <2>3. CASE ReplaceFile
      <3>1. backup \in [pc : {"read", "written"}, tables : Seq(Table), begun : Begun]
        BY <2>3, BackupFields DEF ReplaceFile
      <3> QED
        BY <2>3, <3>1 DEF ReplaceFile, Types, Backup
    <2>4. CASE BackupEndsEarly
      BY <2>4 DEF BackupEndsEarly, Types, Backup
    <2> QED
      BY <2>1, <2>2, <2>3, <2>4
  <1> QED
    BY <1>2, <1>3, <1>4 DEF Types

-----------------------------------------------------------------------------
(* The types hold at the start, and every step keeps them.                 *)
LEMMA TypesInit == Init => Types
  <1> SUFFICES ASSUME Init PROVE Types
    OBVIOUS
  <1> USE RequestsAssumption
  <1>1. Database
    BY DEF Init, Database, Keys
  <1>2. Idle \in Hands /\ Holds(Idle, devices, DOMAIN snapshots)
    BY DEF Idle, Hands, Backs, Holds, Rests
  <1>3. InHand
    BY <1>2 DEF Init, InHand
  <1> QED
    BY <1>1, <1>3 DEF Init, Types, Backup

LEMMA TypesStep == Types /\ [Next]_vars => Types'
  <1> SUFFICES ASSUME Types, [Next]_vars PROVE Types'
    OBVIOUS
  <1>1. ASSUME NEW r \in Requests, RequestStep(r) PROVE Types'
    BY <1>1, UploadTypes, NewAnalysisTypes, SaveTypes, LookUpTypes, StoreAnalysisTypes,
       ReanalyseTypes, FollowLinkTypes, OpenPageTypes, ComparePageTypes, CompareNewTypes, ReadRowsTypes,
       EnsureAnalyzedTypes, StoreComparisonTypes, CreateTypes, EndsTypes DEF RequestStep
  <1>2. CASE StartBackup \/ ReadTable \/ WriteFile \/ ReplaceFile \/ BackupEndsEarly
    BY <1>2, ReadTableTypes, OtherBackupTypes
  <1>3. CASE UNCHANGED vars
    <2>1. UNCHANGED rows /\ UNCHANGED disk /\ req' = req
      BY <1>3 DEF vars
    <2> QED
      BY <2>1, RowsStay, DiskStays, HandsStay DEF Types
  <1> QED
    BY <1>1, <1>2, <1>3 DEF Next

LEMMA TypesImplyTypeOK == Types => TypeOK
  <1> SUFFICES ASSUME Types PROVE TypeOK
    OBVIOUS
  <1>1. /\ devices \subseteq Devices /\ dropped \subseteq DOMAIN snapshots
        /\ keys \in 0..MaxAnalyses
    BY DEF Types, Database, Keys
  <1>2. \A s \in DOMAIN snapshots : snapshots[s] \in Snapshot /\ snapshots[s].device \in devices
    BY SnapshotKeys DEF Types, Database
  <1>3. analysis \in Seq([Kinds -> SUBSET (1..keys)]) /\ Len(analysis) = Len(snapshots)
    <2> DEFINE Rows == [Kinds -> SUBSET (1..keys)]
    <2>1. /\ analysis \in Seq(Stored) /\ Len(analysis) = Len(snapshots) /\ keys \in Nat
          /\ \A s \in DOMAIN analysis : \A k \in Kinds : \A a \in analysis[s][k] : a <= keys
      BY RequestsAssumption DEF Types, Database, Keys
    <2>2. DOMAIN analysis = 1..Len(analysis) /\ Len(analysis) \in Nat
      BY <2>1
    <2>3. \A s \in DOMAIN analysis : analysis[s] \in Stored
      BY <2>1, <2>2, SnapshotKeys
    <2>4. \A s \in DOMAIN analysis : \A k \in Kinds : analysis[s][k] \in SUBSET (1..keys)
      BY <2>1, <2>3 DEF Stored, Found
    <2>5. \A s \in DOMAIN analysis : analysis[s] \in Rows
      BY <2>3, <2>4 DEF Stored
    <2> HIDE DEF Rows
    <2>6. analysis = [s \in 1..Len(analysis) |-> analysis[s]]
      BY <2>1, <2>2
    <2>7. analysis \in [1..Len(analysis) -> Rows]
      BY <2>2, <2>5, <2>6
    <2>8. analysis \in UNION {[1..n -> Rows] : n \in Nat}
      BY <2>2, <2>7, Zenon
    <2>9. analysis \in Seq(Rows)
      BY <2>8, SeqDef, Zenon
    <2> QED
      BY <2>1, <2>9 DEF Rows
  <1>4. \A c \in DOMAIN comparisons :
           /\ comparisons[c] \in Comparison
           /\ {comparisons[c].base, comparisons[c].target} \subseteq DOMAIN snapshots
    BY DEF Types, Database
  <1>5. \A r \in Requests :
           req[r].pc \in {"idle", "save", "analyse", "store", "open", "create", "page",
                          "compare"}
    BY HandFields
  <1>6. backup.pc \in {"idle", "read", "written"}
    BY DEF Types, Backup
  <1> QED
    BY <1>1, <1>2, <1>3, <1>4, <1>5, <1>6 DEF TypeOK

LEMMA AlwaysTypes == Spec => []Types
  BY TypesInit, TypesStep, PTL DEF Spec

(* Nothing here deletes a device or a snapshot, so every row and everything *)
(* a request has in hand refers to rows that are there.                    *)
THEOREM Typing == Spec => []TypeOK
  BY AlwaysTypes, TypesImplyTypeOK, PTL

-----------------------------------------------------------------------------
(* Reading leaves a request at its reading; an analysis begins, commits and *)
(* gives way to what it was made for.                                      *)
LEMMA ReadingStays ==
    ASSUME Types, NEW r \in Requests, ReadRows(r)
    PROVE  /\ req[r].pc \in {"page", "compare"} /\ req'[r].pc = req[r].pc
           /\ \A q \in Requests : q # r => req'[q] = req[q]
  <1>1. req[r].pc \in {"page", "compare"}
    BY DEF ReadRows
  <1>2. req[r] \in [pc : {"page", "compare"}, plan : Seq(Snaps), seen : Seq(Found)]
    BY <1>1, HandFields DEF Reader
  <1> QED
    BY <1>1, <1>2 DEF ReadRows, Read, Types, InHand

LEMMA AnalysisMoves ==
    ASSUME Types, NEW r \in Requests,
           \/ LookUp(r) \/ StoreAnalysis(r) \/ EnsureAnalyzed(r)
           \/ \E s \in DOMAIN snapshots : Reanalyse(r, s)
    PROVE  /\ req'[r].pc \in {"idle", "analyse", "store", "open", "compare"}
           /\ \A q \in Requests : q # r => req'[q] = req[q]
           /\ UNCHANGED <<devices, snapshots, comparisons, disk>>
  <1>1. req \in [Requests -> Hands]
    BY DEF Types, InHand
  <1>2. CASE LookUp(r)
    BY <1>1, <1>2 DEF LookUp, Goes, Storing, rows
  <1>3. CASE StoreAnalysis(r)
    <2>1. req[r].pc = "store" /\ keys + 1 \in 1..MaxAnalyses
      BY <1>3, HandFields, AnalyseTypes DEF StoreAnalysis
    <2>2. Resumed(req[r].back, keys + 1).pc \in {"idle", "open", "compare"}
      BY <2>1, ResumedTypes, HandFields
    <2> QED
      BY <1>1, <1>3, <2>2 DEF StoreAnalysis, Goes
  <1>4. CASE EnsureAnalyzed(r)
    BY <1>1, <1>4 DEF EnsureAnalyzed, Goes, Analysing, rows
  <1>5. ASSUME NEW s \in DOMAIN snapshots, Reanalyse(r, s)
        PROVE  /\ req'[r].pc = "analyse" /\ \A q \in Requests : q # r => req'[q] = req[q]
               /\ UNCHANGED <<devices, snapshots, comparisons, disk>>
    BY <1>1, <1>5 DEF Reanalyse, Goes, Analysing, rows
  <1> QED
    BY <1>2, <1>3, <1>4, <1>5

-----------------------------------------------------------------------------
(* Duplicates.  A request that is to save a snapshot has looked at those   *)
(* that were there when it began, and found none with this hash.           *)

Same(row, other) == other.device = row.device /\ Normal[other.text] = Normal[row.text]

HasLooked ==
    \A r \in Requests : req[r].pc = "save" =>
        /\ req[r].row.known <= Len(snapshots)
        /\ \A s \in DOMAIN snapshots : s <= req[r].row.known => ~ Same(req[r].row, snapshots[s])

DuplicatesInv == DuplicatesOverlap /\ HasLooked

LEMMA DuplicatesKept ==
    ASSUME DuplicatesInv, snapshots' = snapshots,
           \A q \in Requests : req'[q].pc = "save" => req'[q] = req[q]
    PROVE  DuplicatesInv'
  BY DEF DuplicatesInv, DuplicatesOverlap, HasLooked, Same

LEMMA DuplicatesSave ==
    ASSUME Types, DuplicatesInv, NEW r \in Requests, SaveSnapshot(r)
    PROVE  DuplicatesInv'
  <1> DEFINE row == req[r].row
             new == Len(snapshots) + 1
  <1>1. /\ row \in Snapshot /\ row.known \in Nat
        /\ \A s \in DOMAIN snapshots : s <= row.known => ~ Same(row, snapshots[s])
    BY HandFields DEF SaveSnapshot, Snapshot, DuplicatesInv, HasLooked
  <1>2. /\ DOMAIN snapshots' = 1..new /\ DOMAIN snapshots = 1..Len(snapshots)
        /\ \A s \in DOMAIN snapshots : snapshots'[s] = snapshots[s]
        /\ snapshots'[new] = row /\ Len(snapshots) \in Nat /\ Len(snapshots') = new
    <2>1. Types' /\ Types
      BY SaveTypes
    <2>2. snapshots \in Seq(Snapshot) /\ snapshots' \in Seq(Snapshot)
      BY <2>1 DEF Types, Database
    <2> QED
      BY <2>2, SaveTypes
  <1> HIDE DEF row, new
  <1>3. DuplicatesOverlap'
    <2> SUFFICES ASSUME NEW s \in DOMAIN snapshots', NEW u \in DOMAIN snapshots', s < u,
                        snapshots'[s].device = snapshots'[u].device,
                        Normal[snapshots'[s].text] = Normal[snapshots'[u].text]
                 PROVE  snapshots'[u].known < s
      BY DEF DuplicatesOverlap
    <2>1. s \in DOMAIN snapshots /\ s \in Nat
      BY <1>2 DEF new
    <2>2. CASE u = new
      BY <1>1, <1>2, <2>1, <2>2 DEF Same
    <2>3. CASE u # new
      <3>1. u \in DOMAIN snapshots
        BY <1>2, <2>3 DEF new
      <3> QED
        BY <1>2, <2>1, <3>1 DEF DuplicatesInv, DuplicatesOverlap
    <2> QED
      BY <2>2, <2>3
  <1>4. HasLooked'
    <2> SUFFICES ASSUME NEW q \in Requests, req'[q].pc = "save"
                 PROVE  /\ req'[q].row.known <= Len(snapshots')
                        /\ \A s \in DOMAIN snapshots' :
                              s <= req'[q].row.known => ~ Same(req'[q].row, snapshots'[s])
      BY DEF HasLooked
    <2>1. /\ req' = [req EXCEPT ![r] = Analysing(Len(snapshots) + 1,
                                                 Opening(Len(snapshots) + 1, 0))]
          /\ req \in [Requests -> Hands]
      BY DEF SaveSnapshot, Goes, Types, InHand
    <2>2. req'[q] = req[q]
      BY <2>1 DEF Analysing
    <2>3. /\ req[q].row.known \in Nat /\ req[q].row.known <= Len(snapshots)
          /\ \A s \in DOMAIN snapshots : s <= req[q].row.known => ~ Same(req[q].row, snapshots[s])
      BY <2>2, HandFields DEF DuplicatesInv, HasLooked, Snapshot
    <2> QED
      BY <1>2, <2>2, <2>3 DEF new
  <1> QED
    BY <1>3, <1>4 DEF DuplicatesInv

LEMMA DuplicatesLook ==
    ASSUME Types, DuplicatesInv, NEW r \in Requests, NEW d \in Devices, NEW t \in Texts,
           Upload(r, d, t) \/ NewAnalysis(r, d, t)
    PROVE  DuplicatesInv'
  <1>1. snapshots' = snapshots /\ Len(snapshots) \in Nat /\ DOMAIN snapshots = 1..Len(snapshots)
    BY SnapshotKeys DEF Upload, NewAnalysis, rows
  <1>2. \A q \in Requests : q # r => req'[q] = req[q]
    BY DEF Upload, NewAnalysis, Goes, Types, InHand
  <1>3. HasLooked'
    <2>1. CASE Upload(r, d, t)
      <3>1. req'[r] = Saving([device |-> d, text |-> t, known |-> Len(snapshots)])
        BY <2>1 DEF Upload, Goes, Types, InHand
      <3>2. \A s \in DOMAIN snapshots :
               ~ Same([device |-> d, text |-> t, known |-> Len(snapshots)], snapshots[s])
        BY <2>1 DEF Upload, is_duplicate_of, Same
      <3> QED
        BY <1>1, <1>2, <3>1, <3>2 DEF DuplicatesInv, HasLooked, Same, Saving
    <2>2. CASE NewAnalysis(r, d, t)
      <3>1. req'[r] = Saving([device |-> d, text |-> t, known |-> 0])
        BY <2>2 DEF NewAnalysis, Goes, Types, InHand
      <3> QED
        BY <1>1, <1>2, <3>1 DEF DuplicatesInv, HasLooked, Same, Saving
    <2> QED
      BY <2>1, <2>2
  <1> QED
    BY <1>1, <1>3 DEF DuplicatesInv, DuplicatesOverlap

LEMMA DuplicatesStep == Types /\ DuplicatesInv /\ [Next]_vars => DuplicatesInv'
  <1> SUFFICES ASSUME Types, DuplicatesInv, [Next]_vars PROVE DuplicatesInv'
    OBVIOUS
  <1> USE DEF Types, InHand
  <1>1. ASSUME NEW r \in Requests, NEW d \in Devices, NEW t \in Texts,
               Upload(r, d, t) \/ NewAnalysis(r, d, t)
        PROVE  DuplicatesInv'
    BY <1>1, DuplicatesLook
  <1>2. ASSUME NEW r \in Requests, SaveSnapshot(r) PROVE DuplicatesInv'
    BY <1>2, DuplicatesSave
  <1>3. ASSUME NEW r \in Requests,
               \/ LookUp(r) \/ StoreAnalysis(r) \/ EnsureAnalyzed(r)
               \/ \E s \in DOMAIN snapshots : Reanalyse(r, s)
        PROVE  DuplicatesInv'
    <2>1. \A q \in Requests : req'[q].pc = "save" => req'[q] = req[q]
      BY <1>3, AnalysisMoves
    <2> QED
      BY <1>3, <2>1, AnalysisMoves, DuplicatesKept
  <1>31. ASSUME NEW r \in Requests, NEW s \in DOMAIN snapshots, FollowLink(r, s)
         PROVE  DuplicatesInv'
    BY <1>31, DuplicatesKept DEF FollowLink, Goes, Opening, rows
  <1>4. ASSUME NEW r \in Requests, OpenPage(r) PROVE DuplicatesInv'
    BY <1>4, DuplicatesKept DEF OpenPage, Goes, Page, Idle, rows
  <1>5. ASSUME NEW r \in Requests, NEW b \in DOMAIN snapshots, NEW t \in DOMAIN snapshots,
               ComparePage(r, b, t) \/ CompareNew(r, b, t)
        PROVE  DuplicatesInv'
    BY <1>5, DuplicatesKept DEF ComparePage, CompareNew, Goes, Creating, Comparing, rows
  <1>6. ASSUME NEW r \in Requests, ReadRows(r) PROVE DuplicatesInv'
    <2>1. \A q \in Requests : req'[q].pc = "save" => req'[q] = req[q]
      BY <1>6, ReadingStays
    <2> QED
      BY <1>6, <2>1, DuplicatesKept DEF ReadRows, rows
  <1>7. ASSUME NEW r \in Requests,
               StoreComparison(r) \/ ShowPage(r) \/ CreateComparison(r) \/ EndsEarly(r)
        PROVE  DuplicatesInv'
    BY <1>7, DuplicatesKept
       DEF StoreComparison, ShowPage, CreateComparison, EndsEarly, Goes, Creating, Idle, rows
  <1>8. CASE StartBackup \/ ReadTable \/ WriteFile \/ ReplaceFile \/ BackupEndsEarly
    BY <1>8, DuplicatesKept
       DEF StartBackup, ReadTable, WriteFile, ReplaceFile, BackupEndsEarly, rows
  <1>9. CASE UNCHANGED vars
    BY <1>9, DuplicatesKept DEF vars, rows
  <1> QED
    BY <1>1, <1>2, <1>3, <1>31, <1>4, <1>5, <1>6, <1>7, <1>8, <1>9 DEF Next, RequestStep

(* Two snapshots of one device with one hash come only from requests that  *)
(* overlapped or that look for none (device_snapshot_upload).              *)
THEOREM Duplicates == Spec => []DuplicatesOverlap
<1>1. Init => DuplicatesInv
  BY DEF Init, DuplicatesInv, DuplicatesOverlap, HasLooked, Idle
<1> QED
  BY <1>1, AlwaysTypes, DuplicatesStep, PTL DEF Spec, DuplicatesInv

-----------------------------------------------------------------------------
(* Pairs.  The device page has looked at the comparisons there were.       *)

SamePair(row, other) == other.base = row.base /\ other.target = row.target

HasLookedForPair ==
    \A r \in Requests : req[r].pc = "create" =>
        /\ req[r].row.known <= Len(comparisons)
        /\ \A c \in DOMAIN comparisons :
              c <= req[r].row.known => ~ SamePair(req[r].row, comparisons[c])

PairsInv == PairsRepeatByOverlap /\ HasLookedForPair

LEMMA PairsKept ==
    ASSUME PairsInv, comparisons' = comparisons,
           \A q \in Requests : req'[q].pc = "create" => req'[q] = req[q]
    PROVE  PairsInv'
  BY DEF PairsInv, PairsRepeatByOverlap, HasLookedForPair, SamePair

LEMMA PairsCreate ==
    ASSUME Types, PairsInv, NEW r \in Requests, CreateComparison(r)
    PROVE  PairsInv'
  <1> DEFINE row == req[r].row
             new == Len(comparisons) + 1
  <1>1. /\ row.known \in Nat
        /\ \A c \in DOMAIN comparisons : c <= row.known => ~ SamePair(row, comparisons[c])
    BY HandFields DEF CreateComparison, Comparison, PairsInv, HasLookedForPair
  <1>2. /\ DOMAIN comparisons' = 1..new /\ DOMAIN comparisons = 1..Len(comparisons)
        /\ \A c \in DOMAIN comparisons : comparisons'[c] = comparisons[c]
        /\ comparisons'[new] = row /\ Len(comparisons) \in Nat /\ Len(comparisons') = new
    <2>1. Types'
      BY CreateTypes
    <2>2. comparisons \in Seq(Comparison) /\ comparisons' \in Seq(Comparison)
      BY <2>1 DEF Types, Database
    <2> QED
      BY <2>2, CreateTypes
  <1> HIDE DEF row, new
  <1>3. PairsRepeatByOverlap'
    <2> SUFFICES ASSUME NEW c \in DOMAIN comparisons', NEW e \in DOMAIN comparisons', c < e,
                        comparisons'[c].base = comparisons'[e].base,
                        comparisons'[c].target = comparisons'[e].target
                 PROVE  comparisons'[e].known < c
      BY DEF PairsRepeatByOverlap
    <2>1. c \in DOMAIN comparisons /\ c \in Nat
      BY <1>2 DEF new
    <2>2. CASE e = new
      BY <1>1, <1>2, <2>1, <2>2 DEF SamePair
    <2>3. CASE e # new
      <3>1. e \in DOMAIN comparisons
        BY <1>2, <2>3 DEF new
      <3> QED
        BY <1>2, <2>1, <3>1 DEF PairsInv, PairsRepeatByOverlap
    <2> QED
      BY <2>2, <2>3
  <1>4. HasLookedForPair'
    <2> SUFFICES ASSUME NEW q \in Requests, req'[q].pc = "create"
                 PROVE  /\ req'[q].row.known <= Len(comparisons')
                        /\ \A c \in DOMAIN comparisons' : c <= req'[q].row.known =>
                              ~ SamePair(req'[q].row, comparisons'[c])
      BY DEF HasLookedForPair
    <2>1. req' = [req EXCEPT ![r] = Idle] /\ req \in [Requests -> Hands]
      BY DEF CreateComparison, Goes, Types, InHand
    <2>2. req'[q] = req[q]
      BY <2>1 DEF Idle
    <2>3. /\ req[q].row.known \in Nat /\ req[q].row.known <= Len(comparisons)
          /\ \A c \in DOMAIN comparisons :
                c <= req[q].row.known => ~ SamePair(req[q].row, comparisons[c])
      BY <2>2, HandFields DEF PairsInv, HasLookedForPair, Comparison
    <2> QED
      BY <1>2, <2>2, <2>3 DEF new
  <1> QED
    BY <1>3, <1>4 DEF PairsInv

LEMMA PairsLook ==
    ASSUME Types, PairsInv, NEW r \in Requests,
           \/ StoreComparison(r)
           \/ \E b, t \in DOMAIN snapshots : ComparePage(r, b, t)
    PROVE  PairsInv'
  <1>1. PICK row : /\ req' = [req EXCEPT ![r] = Creating(row)]
                   /\ row.known = 0 \/ /\ row.known = Len(comparisons)
                                       /\ ~ existing(row.base, row.target)
    <2>1. CASE StoreComparison(r)
      <3> DEFINE row == [base |-> req[r].plan[1], target |-> req[r].plan[2], known |-> 0,
                         seen |-> req[r].seen]
      <3>1. req' = [req EXCEPT ![r] = Creating(row)] /\ row.known = 0
        BY <2>1 DEF StoreComparison, Goes
      <3> QED
        BY <3>1
    <2>2. CASE \E b, t \in DOMAIN snapshots : ComparePage(r, b, t)
      <3>1. PICK b \in DOMAIN snapshots, t \in DOMAIN snapshots : ComparePage(r, b, t)
        BY <2>2
      <3> DEFINE row == [base |-> b, target |-> t, known |-> Len(comparisons), seen |-> <<>>]
      <3>2. /\ req' = [req EXCEPT ![r] = Creating(row)] /\ row.known = Len(comparisons)
            /\ ~ existing(row.base, row.target)
        BY <3>1 DEF ComparePage, Goes
      <3> QED
        BY <3>2
    <2> QED
      BY <2>1, <2>2
  <1>2. /\ comparisons' = comparisons /\ DOMAIN comparisons = 1..Len(comparisons)
        /\ Len(comparisons) \in Nat /\ req \in [Requests -> Hands]
    <2>1. comparisons \in Seq(Comparison) /\ req \in [Requests -> Hands]
      BY DEF Types, Database, InHand
    <2>2. comparisons' = comparisons
      BY DEF StoreComparison, ComparePage, rows
    <2> QED
      BY <2>1, <2>2
  <1>3. /\ row.known <= Len(comparisons)
        /\ \A c \in DOMAIN comparisons : c <= row.known => ~ SamePair(row, comparisons[c])
    BY <1>1, <1>2 DEF existing, SamePair
  <1>4. HasLookedForPair'
    BY <1>1, <1>2, <1>3 DEF PairsInv, HasLookedForPair, SamePair, Creating
  <1> QED
    BY <1>2, <1>4 DEF PairsInv, PairsRepeatByOverlap

LEMMA PairsStep == Types /\ PairsInv /\ [Next]_vars => PairsInv'
  <1> SUFFICES ASSUME Types, PairsInv, [Next]_vars PROVE PairsInv'
    OBVIOUS
  <1> USE DEF Types, InHand
  <1>1. ASSUME NEW r \in Requests, NEW d \in Devices, NEW t \in Texts,
               Upload(r, d, t) \/ NewAnalysis(r, d, t)
        PROVE  PairsInv'
    BY <1>1, PairsKept DEF Upload, NewAnalysis, Goes, Saving, rows
  <1>2. ASSUME NEW r \in Requests, SaveSnapshot(r) PROVE PairsInv'
    BY <1>2, PairsKept DEF SaveSnapshot, Goes, Analysing
  <1>3. ASSUME NEW r \in Requests,
               \/ LookUp(r) \/ StoreAnalysis(r) \/ EnsureAnalyzed(r)
               \/ \E s \in DOMAIN snapshots : Reanalyse(r, s)
        PROVE  PairsInv'
    <2>1. \A q \in Requests : req'[q].pc = "create" => req'[q] = req[q]
      BY <1>3, AnalysisMoves
    <2> QED
      BY <1>3, <2>1, AnalysisMoves, PairsKept
  <1>31. ASSUME NEW r \in Requests, NEW s \in DOMAIN snapshots, FollowLink(r, s)
         PROVE  PairsInv'
    BY <1>31, PairsKept DEF FollowLink, Goes, Opening, rows
  <1>4. ASSUME NEW r \in Requests, OpenPage(r) PROVE PairsInv'
    BY <1>4, PairsKept DEF OpenPage, Goes, Page, Idle, rows
  <1>5. ASSUME NEW r \in Requests, NEW b \in DOMAIN snapshots, NEW t \in DOMAIN snapshots,
               CompareNew(r, b, t)
        PROVE  PairsInv'
    BY <1>5, PairsKept DEF CompareNew, Goes, Comparing, rows
  <1>6. ASSUME NEW r \in Requests, ReadRows(r) PROVE PairsInv'
    BY <1>6, ReadingStays, PairsKept DEF ReadRows, rows
  <1>7. ASSUME NEW r \in Requests, ShowPage(r) \/ EndsEarly(r) PROVE PairsInv'
    BY <1>7, PairsKept DEF ShowPage, EndsEarly, Goes, Idle, rows
  <1>8. CASE StartBackup \/ ReadTable \/ WriteFile \/ ReplaceFile \/ BackupEndsEarly
    BY <1>8, PairsKept
       DEF StartBackup, ReadTable, WriteFile, ReplaceFile, BackupEndsEarly, rows
  <1>9. CASE UNCHANGED vars
    BY <1>9, PairsKept DEF vars, rows
  <1> QED
    BY <1>1, <1>2, <1>3, <1>31, <1>4, <1>5, <1>6, <1>7, <1>8, <1>9, PairsLook, PairsCreate
       DEF Next, RequestStep

(* The device page gives a pair a second comparison only when the first    *)
(* came between its lookup and its create (device_compare).                *)
THEOREM Pairs == Spec => []PairsRepeatByOverlap
<1>1. Init => PairsInv
  BY DEF Init, PairsInv, PairsRepeatByOverlap, HasLookedForPair, Idle
<1> QED
  BY <1>1, AlwaysTypes, PairsStep, PTL DEF Spec, PairsInv

-----------------------------------------------------------------------------
(* Only an analysis clears what is dropped, and it stores a ParsedConfig.  *)
LEMMA UnanalysedKept ==
    ASSUME UnanalysedIsAccounted, analysis' = analysis, snapshots' = snapshots,
           dropped' = dropped, NEW r \in Requests, \A s : ~ Owes(r, s),
           \A q \in Requests : q # r => req'[q] = req[q]
    PROVE  UnanalysedIsAccounted'
  BY DEF UnanalysedIsAccounted, Owes, Analysed

LEMMA UnanalysedStep == Types /\ UnanalysedIsAccounted /\ [Next]_vars => UnanalysedIsAccounted'
  <1> SUFFICES ASSUME Types, UnanalysedIsAccounted, [Next]_vars PROVE UnanalysedIsAccounted'
    OBVIOUS
  <1>0. req \in [Requests -> Hands]
    BY DEF Types, InHand
  <1>1. ASSUME NEW r \in Requests, NEW d \in Devices, NEW t \in Texts,
               Upload(r, d, t) \/ NewAnalysis(r, d, t)
        PROVE  UnanalysedIsAccounted'
    BY <1>0, <1>1, UnanalysedKept DEF Upload, NewAnalysis, Goes, Owes, rows
  <1>2. ASSUME NEW r \in Requests, SaveSnapshot(r) PROVE UnanalysedIsAccounted'
    <2>0. PICK new : new = Len(snapshots) + 1
      OBVIOUS
    <2>1. /\ req' = [req EXCEPT ![r] = Analysing(new, Opening(new, 0))]
          /\ req[r].pc = "save" /\ dropped' = dropped
      BY <1>2, <2>0 DEF SaveSnapshot, Goes
    <2>2. /\ \A s \in DOMAIN snapshots' : s \in DOMAIN snapshots \/ s = new
          /\ \A s \in DOMAIN snapshots : analysis'[s] = analysis[s]
      BY <1>2, <2>0, SaveTypes, SnapshotKeys
    <2>3. \A q \in Requests, s \in DOMAIN snapshots : Owes(q, s) => Owes(q, s)'
      BY <1>0, <2>1 DEF Owes
    <2>4. req'[r] = Analysing(new, Opening(new, 0))
      BY <1>0, <2>1
    <2>5. Owes(r, new)'
      BY <2>4 DEF Owes, Analysing, Opening
    <2>6. ASSUME NEW s \in DOMAIN snapshots
          PROVE  Analysed(s)' \/ s \in dropped' \/ \E q \in Requests : Owes(q, s)'
      <3>1. Analysed(s) => Analysed(s)'
        BY <2>2 DEF Analysed
      <3> QED
        BY <3>1, <2>1, <2>3 DEF UnanalysedIsAccounted
    <2>7. \A s \in DOMAIN snapshots' :
              Analysed(s)' \/ s \in dropped' \/ \E q \in Requests : Owes(q, s)'
      BY <2>2, <2>5, <2>6
    <2> QED
      BY <2>7 DEF UnanalysedIsAccounted
  <1>3. ASSUME NEW r \in Requests, LookUp(r) PROVE UnanalysedIsAccounted'
    <2>1. \A q \in Requests, s \in DOMAIN snapshots : Owes(q, s) => Owes(q, s)'
      BY <1>0, <1>3 DEF LookUp, Goes, Owes, Storing
    <2> QED
      BY <1>3, <2>1 DEF LookUp, UnanalysedIsAccounted, Analysed, rows
  <1>4. ASSUME NEW r \in Requests, StoreAnalysis(r) PROVE UnanalysedIsAccounted'
    <2> DEFINE s == req[r].snap
    <2>1. s \in DOMAIN snapshots /\ snapshots' = snapshots /\ dropped' = dropped \ {s}
      BY <1>4, HandFields DEF StoreAnalysis, Analyse
    <2>2. /\ \A u \in DOMAIN snapshots : u # s => analysis'[u] = analysis[u]
          /\ keys + 1 \in analysis'[s]["parsed"]
      BY <1>4, <2>1, AnalyseTypes DEF StoreAnalysis, Kinds
    <2>3. \A u \in DOMAIN snapshots, q \in Requests : u # s /\ Owes(q, u) => Owes(q, u)'
      BY <1>0, <1>4 DEF StoreAnalysis, Goes, Owes
    <2> HIDE DEF s
    <2> QED
      BY <2>1, <2>2, <2>3 DEF UnanalysedIsAccounted, Analysed
  <1>5. ASSUME NEW r \in Requests, NEW s \in DOMAIN snapshots, Reanalyse(r, s) \/ FollowLink(r, s)
        PROVE  UnanalysedIsAccounted'
    BY <1>0, <1>5, UnanalysedKept DEF Reanalyse, FollowLink, Goes, Owes, rows
  <1>6. ASSUME NEW r \in Requests, OpenPage(r) \/ EnsureAnalyzed(r) PROVE UnanalysedIsAccounted'
    BY <1>0, <1>6, UnanalysedKept DEF OpenPage, EnsureAnalyzed, Goes, Owes, rows
  <1>7. ASSUME NEW r \in Requests, NEW b \in DOMAIN snapshots, NEW t \in DOMAIN snapshots,
               ComparePage(r, b, t) \/ CompareNew(r, b, t)
        PROVE  UnanalysedIsAccounted'
    BY <1>0, <1>7, UnanalysedKept DEF ComparePage, CompareNew, Goes, Owes, rows
  <1>8. ASSUME NEW r \in Requests, ReadRows(r) PROVE UnanalysedIsAccounted'
    BY <1>8, ReadingStays, UnanalysedKept DEF ReadRows, Owes, rows
  <1>9. ASSUME NEW r \in Requests, StoreComparison(r) \/ ShowPage(r) \/ CreateComparison(r)
        PROVE  UnanalysedIsAccounted'
    BY <1>0, <1>9, UnanalysedKept
       DEF StoreComparison, ShowPage, AllRead, CreateComparison, Goes, Owes, rows
  <1>10. ASSUME NEW r \in Requests, EndsEarly(r) PROVE UnanalysedIsAccounted'
    <2>1. \A q \in Requests, s \in DOMAIN snapshots : q # r /\ Owes(q, s) => Owes(q, s)'
      BY <1>10 DEF EndsEarly, Owes
    <2> QED
      BY <1>10, <2>1 DEF EndsEarly, UnanalysedIsAccounted, Analysed
  <1>11. CASE StartBackup \/ ReadTable \/ WriteFile \/ ReplaceFile \/ BackupEndsEarly
    BY <1>11 DEF StartBackup, ReadTable, WriteFile, ReplaceFile, BackupEndsEarly, rows,
                 UnanalysedIsAccounted, Owes, Analysed
  <1>12. CASE UNCHANGED vars
    BY <1>12 DEF vars, rows, UnanalysedIsAccounted, Owes, Analysed
  <1> QED
    BY <1>1, <1>2, <1>3, <1>4, <1>5, <1>6, <1>7, <1>8, <1>9, <1>10, <1>11, <1>12
       DEF Next, RequestStep

(* A snapshot without an analysis is about to get one, or its request      *)
(* failed or died after the save.                                          *)
THEOREM Unanalysed == Spec => []UnanalysedIsAccounted
<1>1. Init => UnanalysedIsAccounted
  BY DEF Init, UnanalysedIsAccounted
<1> QED
  BY <1>1, AlwaysTypes, UnanalysedStep, PTL DEF Spec

-----------------------------------------------------------------------------
(* Every step keeps the analyses, saves a snapshot or stores an analysis.  *)
LEMMA AnalysisSteps ==
    ASSUME [Next]_vars
    PROVE  \/ UNCHANGED <<snapshots, analysis>> /\ devices \subseteq devices'
           \/ \E r \in Requests : SaveSnapshot(r)
           \/ \E r \in Requests : StoreAnalysis(r)
  <1> DEFINE Keeps == UNCHANGED <<snapshots, analysis>> /\ devices \subseteq devices'
  <1>1. ASSUME NEW r \in Requests, NEW d \in Devices, NEW t \in Texts,
               Upload(r, d, t) \/ NewAnalysis(r, d, t)
        PROVE  Keeps
    BY <1>1 DEF Upload, NewAnalysis, rows
  <1>2. ASSUME NEW r \in Requests, NEW s \in DOMAIN snapshots,
               \/ Reanalyse(r, s) \/ FollowLink(r, s)
               \/ \E t \in DOMAIN snapshots : ComparePage(r, s, t) \/ CompareNew(r, s, t)
        PROVE  Keeps
    BY <1>2 DEF Reanalyse, FollowLink, ComparePage, CompareNew, rows
  <1>3. ASSUME NEW r \in Requests,
               LookUp(r) \/ OpenPage(r) \/ ReadRows(r) \/ EnsureAnalyzed(r) \/ StoreComparison(r)
                 \/ ShowPage(r) \/ CreateComparison(r) \/ EndsEarly(r)
        PROVE  Keeps
    BY <1>3 DEF LookUp, OpenPage, ReadRows, EnsureAnalyzed, StoreComparison, ShowPage,
                CreateComparison, EndsEarly, rows
  <1>4. CASE StartBackup \/ ReadTable \/ WriteFile \/ ReplaceFile \/ BackupEndsEarly
    BY <1>4 DEF StartBackup, ReadTable, WriteFile, ReplaceFile, BackupEndsEarly, rows
  <1>5. CASE UNCHANGED vars
    BY <1>5 DEF vars, rows
  <1> QED
    BY <1>1, <1>2, <1>3, <1>4, <1>5 DEF Next, RequestStep

(* Rows of devices and snapshots stay.                                     *)
LEMMA Grows ==
    ASSUME Types, [Next]_vars
    PROVE  devices \subseteq devices' /\ DOMAIN snapshots \subseteq DOMAIN snapshots'
  <1>1. ASSUME NEW r \in Requests, SaveSnapshot(r)
        PROVE  devices' = devices /\ DOMAIN snapshots \subseteq DOMAIN snapshots'
    BY <1>1, SaveTypes, SnapshotKeys DEF SaveSnapshot
  <1>2. ASSUME NEW r \in Requests, StoreAnalysis(r)
        PROVE  UNCHANGED <<devices, snapshots>>
    BY <1>2 DEF StoreAnalysis
  <1> QED
    BY <1>1, <1>2, AnalysisSteps

-----------------------------------------------------------------------------
(* The backup holds what there was when it began, and refers to what there *)
(* is now.                                                                 *)

Export(tables, begun, devs, snaps) ==
    /\ begun.devices \subseteq devs /\ 1..begun.snapshots \subseteq snaps
    /\ 1 \in DOMAIN tables => begun.devices \subseteq tables[1]
    /\ 2 \in DOMAIN tables => 1..begun.snapshots \subseteq tables[2] /\ tables[2] \subseteq snaps
    /\ \A i \in AnalysisTables : i \in DOMAIN tables => DOMAIN tables[i] \subseteq snaps
    /\ 7 \in DOMAIN tables => \A c \in tables[7] : c.base \in snaps /\ c.target \in snaps

BackupInv ==
    /\ backup.pc # "idle" => Export(backup.tables, backup.begun, devices, DOMAIN snapshots)
    /\ destination # <<>> =>
          /\ Export(destination.tables, destination.begun, devices, DOMAIN snapshots)
          /\ DOMAIN destination.tables = 1..7

(* Every step keeps it, a table that is read and one that is there.        *)
LEMMA ExportKept ==
    ASSUME NEW tables, NEW begun, Types, [Next]_vars,
           Export(tables, begun, devices, DOMAIN snapshots)
    PROVE  Export(tables, begun, devices', DOMAIN snapshots')
  BY Grows DEF Export

LEMMA ExportRead ==
    ASSUME Types, BackupInv, ReadTable
    PROVE  Export(backup'.tables, backup'.begun, devices, DOMAIN snapshots)
  <1> DEFINE n == Len(backup.tables)
             old == backup.tables
             new == backup'.tables
  <1>1. /\ DOMAIN old = 1..n /\ n \in 0..6
        /\ Export(old, backup.begun, devices, DOMAIN snapshots)
    BY BackupFields, SevenTables DEF ReadTable, BackupInv
  <1>2. /\ DOMAIN new = 1..(n + 1) /\ backup'.begun = backup.begun
        /\ \A i \in DOMAIN old : new[i] = old[i]
        /\ new[n + 1] = Contents(Tables[n + 1])
    BY ReadTableTypes
  <1>3. \A i \in DOMAIN new : i \in DOMAIN old \/ i = n + 1
    BY <1>1, <1>2
  <1>4. n + 1 = 1 => new[1] = devices
    BY <1>2 DEF Contents, Tables
  <1>5. n + 1 = 2 => new[2] = DOMAIN snapshots
    BY <1>2 DEF Contents, Tables
  <1>6. n + 1 \in AnalysisTables => DOMAIN new[n + 1] = DOMAIN snapshots
    BY <1>2, AnalysisContents
  <1>7. n + 1 = 7 => \A c \in new[7] : c.base \in DOMAIN snapshots /\ c.target \in DOMAIN snapshots
    <2>1. n + 1 = 7 => new[7] = {[base |-> comparisons[c].base, target |-> comparisons[c].target] :
                                    c \in DOMAIN comparisons}
      BY <1>2 DEF Contents, Tables
    <2> QED
      BY <2>1 DEF Types, Database
  <1> HIDE DEF n, old, new
  <1>8. 1 \in DOMAIN new => backup'.begun.devices \subseteq new[1]
    BY <1>1, <1>2, <1>3, <1>4 DEF Export
  <1>9. 2 \in DOMAIN new => /\ 1..(backup'.begun.snapshots) \subseteq new[2]
                            /\ new[2] \subseteq DOMAIN snapshots
    BY <1>1, <1>2, <1>3, <1>5 DEF Export
  <1>10. \A i \in AnalysisTables : i \in DOMAIN new => DOMAIN new[i] \subseteq DOMAIN snapshots
    BY <1>1, <1>2, <1>3, <1>6 DEF Export
  <1>11. 7 \in DOMAIN new => \A c \in new[7] : c.base \in DOMAIN snapshots /\ c.target \in DOMAIN snapshots
    BY <1>1, <1>2, <1>3, <1>7 DEF Export
  <1> QED
    BY <1>1, <1>2, <1>8, <1>9, <1>10, <1>11 DEF Export, new

LEMMA BackupStep == Types /\ BackupInv /\ [Next]_vars => BackupInv'
  <1> SUFFICES ASSUME Types, BackupInv, [Next]_vars PROVE BackupInv'
    OBVIOUS
  <1>1. ASSUME UNCHANGED <<backup, destination>> PROVE BackupInv'
    BY <1>1, ExportKept DEF BackupInv
  <1>2. CASE StartBackup
    <2>1. /\ backup'.begun.devices = devices /\ 1..(backup'.begun.snapshots) = DOMAIN snapshots
          /\ DOMAIN backup'.tables = {}
          /\ UNCHANGED <<devices, snapshots, destination>>
      BY <1>2, SnapshotKeys DEF StartBackup, rows
    <2>2. Export(backup'.tables, backup'.begun, devices', DOMAIN snapshots')
      BY <2>1 DEF Export
    <2> QED
      BY <2>1, <2>2 DEF BackupInv
  <1>3. CASE ReadTable
    <2>1. UNCHANGED <<devices, snapshots, destination>>
      BY <1>3 DEF ReadTable, rows
    <2> QED
      BY <1>3, <2>1, ExportRead DEF BackupInv
  <1>4. CASE WriteFile
    <2>1. /\ backup' = [backup EXCEPT !.pc = "written"] /\ backup.pc # "idle"
          /\ UNCHANGED <<devices, snapshots, destination>>
      BY <1>4 DEF WriteFile, rows
    <2>2. backup'.tables = backup.tables /\ backup'.begun = backup.begun
      BY <2>1, BackupFields
    <2> QED
      BY <2>1, <2>2 DEF BackupInv
  <1>5. CASE ReplaceFile
    <2>1. /\ backup.pc # "idle" /\ DOMAIN backup.tables = 1..7
          /\ destination' = [tables |-> backup.tables, begun |-> backup.begun]
          /\ backup'.pc = "idle" /\ UNCHANGED <<devices, snapshots>>
      BY <1>5, BackupFields DEF ReplaceFile, rows
    <2>2. /\ destination'.tables = backup.tables /\ destination'.begun = backup.begun
      BY <2>1
    <2> QED
      BY <2>1, <2>2 DEF BackupInv
  <1>6. CASE BackupEndsEarly
    BY <1>6 DEF BackupEndsEarly, rows, BackupInv
  <1>7. ASSUME NEW r \in Requests, RequestStep(r) PROVE UNCHANGED <<backup, destination>>
    BY <1>7 DEF RequestStep, Upload, NewAnalysis, SaveSnapshot, LookUp, StoreAnalysis, Reanalyse,
                FollowLink, OpenPage, ComparePage, CompareNew, ReadRows, EnsureAnalyzed, StoreComparison,
                ShowPage, CreateComparison, EndsEarly, disk
  <1>8. CASE UNCHANGED vars
    BY <1>1, <1>8 DEF vars, disk
  <1> QED
    BY <1>1, <1>2, <1>3, <1>4, <1>5, <1>6, <1>7, <1>8 DEF Next

LEMMA AlwaysBackup == Spec => []BackupInv
<1>1. Init => BackupInv
  BY DEF Init, BackupInv
<1> QED
  BY <1>1, AlwaysTypes, BackupStep, PTL DEF Spec

(* The destination is what was there before or a whole export, whenever the *)
(* command fails or is killed.                                             *)
THEOREM Whole == Spec => []FileIsWhole
<1>1. BackupInv => FileIsWhole
  BY SevenTables DEF BackupInv, FileIsWhole
<1> QED
  BY <1>1, AlwaysBackup, PTL

(* What existed when the backup began is in it, and a reference out of the *)
(* file is to a row created while it was made.                             *)
THEOREM HoldsItsStart == Spec => []BackupHoldsItsStart
<1>1. Types /\ BackupInv => BackupHoldsItsStart
  <2> SUFFICES ASSUME Types, BackupInv, destination # <<>> PROVE BackupHoldsItsStart
    BY DEF BackupHoldsItsStart
  <2> DEFINE began == destination.begun
             file == destination.tables
  <2>1. Export(file, began, devices, DOMAIN snapshots) /\ DOMAIN file = 1..7
    BY DEF BackupInv
  <2>2. began.snapshots \in Nat /\ DOMAIN snapshots = 1..Len(snapshots) /\ Len(snapshots) \in Nat
    <3>1. destination \in [tables : Seq(Table), begun : Begun]
      BY DEF Types, Backup
    <3>2. began \in Begun
      BY <3>1
    <3> QED
      BY <3>2, SnapshotKeys, RequestsAssumption DEF Begun
  <2> HIDE DEF began, file
  <2>3. /\ began.devices \subseteq file[1]
        /\ 1..began.snapshots \subseteq file[2] /\ file[2] \subseteq DOMAIN snapshots
        /\ \A i \in AnalysisTables : DOMAIN file[i] \subseteq DOMAIN snapshots
        /\ \A c \in file[7] : c.base \in DOMAIN snapshots /\ c.target \in DOMAIN snapshots
    BY <2>1 DEF Export, AnalysisTables
  <2>4. \A s \in DOMAIN snapshots : s \in file[2] \/ s > began.snapshots
    BY <2>2, <2>3
  <2> QED
    BY <2>3, <2>4 DEF BackupHoldsItsStart, began, file
<1> QED
  BY <1>1, AlwaysTypes, AlwaysBackup, PTL
-----------------------------------------------------------------------------
(* What is read goes forward.  Below: of every kind, the snapshot has rows *)
(* as new as those found, or newer; Onward: so has what is found later.    *)
Below(found, s, an) == \A a \in found : \A q \in Kinds : \E b \in an[s][q] : a <= b

Onward(found, later) == \A a \in found : \E b \in later : a <= b

(* No kind of rows is behind another, however analyses overlapped.         *)
Level(an) == \A s \in DOMAIN an : \A p \in Kinds : Below(an[s][p], s, an)

(* Forward of what a request or a comparison has read, beside what is there. *)
ForwardIn(an, plan, seen) ==
    /\ \A i \in DOMAIN seen : seen[i] # {} /\ Below(seen[i], plan[i], an)
    /\ \A i, j \in DOMAIN seen : (i <= j /\ plan[i] = plan[j]) => Onward(seen[i], seen[j])

ComparisonForward(row, an) ==
    DOMAIN row.seen \subseteq 1..8 /\ ForwardIn(an, Pair(row.base, row.target), row.seen)

HandForward(hand, an) ==
    /\ hand.pc = "create" => ComparisonForward(hand.row, an)
    /\ hand.pc \in {"page", "compare"} => ForwardIn(an, hand.plan, hand.seen)
    /\ hand.pc \in {"analyse", "store"} /\ hand.back.pc = "compare" =>
          ForwardIn(an, hand.back.plan, hand.back.seen)

(* The analysis tables of a backup: each as old as the next or older, and  *)
(* none newer than what is there.                                          *)
BackupForward(tables, an) ==
    /\ \A i \in DOMAIN tables \cap AnalysisTables :
          /\ tables[i] \in Seq(Found) /\ DOMAIN tables[i] \subseteq DOMAIN an
          /\ \A s \in DOMAIN tables[i] : Below(tables[i][s], s, an)
    /\ \A i, j \in DOMAIN tables \cap AnalysisTables : i < j =>
          \A s \in DOMAIN tables[i] : s \in DOMAIN tables[j] /\ Onward(tables[i][s], tables[j][s])

ReadsInv ==
    /\ Level(analysis)
    /\ \A r \in Requests : HandForward(req[r], analysis)
    /\ \A c \in DOMAIN comparisons : ComparisonForward(comparisons[c], analysis)
    /\ backup.pc # "idle" => BackupForward(backup.tables, analysis)

(* The rows of every kind grow newer together: an analysis leaves its own in *)
(* every kind, and no newer ones are there.                                *)
LEMMA Newer ==
    ASSUME Types, Level(analysis), [Next]_vars
    PROVE  /\ Level(analysis')
           /\ \A s \in DOMAIN snapshots : \A p \in Kinds : Below(analysis[s][p], s, analysis')
           /\ DOMAIN snapshots \subseteq DOMAIN snapshots'
           /\ DOMAIN analysis = DOMAIN snapshots /\ DOMAIN analysis' = DOMAIN snapshots'
  <1>0. DOMAIN analysis = DOMAIN snapshots /\ DOMAIN analysis' = DOMAIN snapshots'
    <2>1. Types'
      BY TypesStep
    <2>2. Len(analysis') = Len(snapshots') /\ analysis' \in Seq(Stored)
          /\ \E S : snapshots' \in Seq(S)
      BY <2>1 DEF Types, Database
    <2> QED
      BY <2>2, SnapshotKeys
  <1>1. CASE UNCHANGED <<snapshots, analysis>>
    BY <1>0, <1>1 DEF Level
  <1>2. ASSUME NEW r \in Requests, SaveSnapshot(r)
        PROVE  /\ Level(analysis')
               /\ \A s \in DOMAIN snapshots : \A p \in Kinds : Below(analysis[s][p], s, analysis')
               /\ DOMAIN snapshots \subseteq DOMAIN snapshots'
    <2>1. /\ \A s \in DOMAIN snapshots : s \in DOMAIN snapshots' /\ analysis'[s] = analysis[s]
          /\ \A s \in DOMAIN snapshots' : s \in DOMAIN snapshots \/ analysis'[s] = NoRows
      BY <1>2, SaveTypes, SnapshotKeys
    <2>2. \A s \in DOMAIN snapshots : \A p \in Kinds : Below(analysis[s][p], s, analysis')
      BY <1>0, <2>1 DEF Level, Below
    <2>3. \A s \in DOMAIN snapshots' : \A p \in Kinds : Below(analysis'[s][p], s, analysis')
      BY <2>1, <2>2 DEF Below, NoRows
    <2> QED
      BY <1>0, <2>1, <2>2, <2>3 DEF Level
  <1>3. ASSUME NEW r \in Requests, StoreAnalysis(r)
        PROVE  /\ Level(analysis')
               /\ \A s \in DOMAIN snapshots : \A p \in Kinds : Below(analysis[s][p], s, analysis')
               /\ DOMAIN snapshots \subseteq DOMAIN snapshots'
    <2>1. PICK u \in DOMAIN snapshots : u = req[r].snap
      BY <1>3, HandFields DEF StoreAnalysis
    <2>2. /\ \A k \in Kinds : /\ keys + 1 \in analysis'[u][k]
                              /\ analysis'[u][k] \subseteq analysis[u][k] \cup {keys + 1}
          /\ \A s \in DOMAIN snapshots : s # u => analysis'[s] = analysis[s]
          /\ snapshots' = snapshots
      BY <1>3, <2>1, AnalyseTypes DEF StoreAnalysis
    <2>3. \A k \in Kinds : \A a \in analysis[u][k] \cup {keys + 1} : a <= keys + 1
      BY <1>0, <2>1, SnapshotKeys, RequestsAssumption DEF Types, Database, Stored, Found, Keys
    <2>4. \A s \in DOMAIN snapshots : \A p \in Kinds : Below(analysis[s][p], s, analysis')
      BY <1>0, <2>2, <2>3 DEF Level, Below
    <2>5. \A s \in DOMAIN snapshots : \A p \in Kinds : Below(analysis'[s][p], s, analysis')
      BY <2>2, <2>3, <2>4 DEF Below
    <2> QED
      BY <1>0, <2>2, <2>4, <2>5 DEF Level
  <1> QED
    BY <1>0, <1>1, <1>2, <1>3, AnalysisSteps

(* What was found stays below what is there, and what was read forward.    *)
LEMMA BelowKept ==
    ASSUME Types, Level(analysis), [Next]_vars, NEW s \in DOMAIN snapshots,
           NEW found \in Found, Below(found, s, analysis)
    PROVE  Below(found, s, analysis')
  <1>1. ASSUME NEW a \in found, NEW q \in Kinds PROVE \E c \in analysis'[s][q] : a <= c
    <2>1. PICK b \in analysis[s][q] : a <= b
      BY DEF Below
    <2>2. PICK c \in analysis'[s][q] : b <= c
      BY <2>1, Newer DEF Below
    <2>3. a \in Nat /\ b \in Nat
      BY SnapshotKeys DEF Found, Stored
    <2>4. Types' /\ s \in DOMAIN snapshots'
      BY TypesStep, Newer
    <2>5. analysis' \in Seq(Stored) /\ s \in DOMAIN analysis'
      BY <2>4, Newer DEF Types, Database
    <2>6. analysis'[s] \in Stored
      BY <2>5
    <2>7. c \in Nat
      BY <2>6 DEF Found, Stored
    <2> QED
      BY <2>1, <2>2, <2>3, <2>7
  <1> QED
    BY <1>1 DEF Below

LEMMA ForwardKept ==
    ASSUME Types, Level(analysis), [Next]_vars, NEW plan, NEW seen \in Seq(Found),
           \A i \in DOMAIN seen : plan[i] \in DOMAIN snapshots,
           ForwardIn(analysis, plan, seen)
    PROVE  ForwardIn(analysis', plan, seen)
  <1>1. \A i \in DOMAIN seen : seen[i] \in Found
    OBVIOUS
  <1> QED
    BY <1>1, BelowKept DEF ForwardIn

(* One more query: rows that are there, behind none of those found before. *)
LEMMA ForwardRead ==
    ASSUME NEW an, NEW plan, NEW seen \in Seq(Found), NEW found \in Found,
           found # {}, Below(found, plan[Len(seen) + 1], an), ForwardIn(an, plan, seen),
           \A i \in DOMAIN seen : plan[i] = plan[Len(seen) + 1] => Onward(seen[i], found)
    PROVE  ForwardIn(an, plan, Append(seen, found))
  <1> DEFINE n == Len(seen)
             more == Append(seen, found)
  <1>1. /\ n \in Nat /\ DOMAIN seen = 1..n /\ DOMAIN more = 1..(n + 1)
        /\ more[n + 1] = found /\ \A i \in 1..n : more[i] = seen[i]
    OBVIOUS
  <1>2. Onward(found, found)
    BY DEF Onward, Found
  <1> HIDE DEF n, more
  <1>3. ASSUME NEW i \in 1..(n + 1) PROVE more[i] # {} /\ Below(more[i], plan[i], an)
    BY <1>1 DEF ForwardIn, n
  <1>4. ASSUME NEW i \in 1..(n + 1), NEW j \in 1..(n + 1), i <= j, plan[i] = plan[j]
        PROVE  Onward(more[i], more[j])
    <2>1. CASE j \in 1..n
      BY <1>1, <1>4, <2>1 DEF ForwardIn
    <2>2. CASE j = n + 1 /\ i \in 1..n
      BY <1>1, <1>4, <2>2 DEF n
    <2>3. CASE j = n + 1 /\ i = n + 1
      BY <1>1, <1>2, <2>3
    <2> QED
      BY <1>1, <1>4, <2>1, <2>2, <2>3
  <1> QED
    BY <1>1, <1>3, <1>4 DEF ForwardIn, more

(* So do a comparison, what a request has in hand, and the backup's tables. *)
LEMMA ComparisonKept ==
    ASSUME Types, Level(analysis), [Next]_vars, NEW row \in Comparison,
           row.base \in DOMAIN snapshots, row.target \in DOMAIN snapshots,
           ComparisonForward(row, analysis)
    PROVE  ComparisonForward(row, analysis')
  <1>1. row.seen \in Seq(Found)
    BY DEF Comparison, Found
  <1>2. \A i \in 1..8 : Pair(row.base, row.target)[i] \in DOMAIN snapshots
    BY DEF Pair
  <1> QED
    BY <1>1, <1>2, ForwardKept DEF ComparisonForward

LEMMA ReaderKept ==
    ASSUME Types, Level(analysis), [Next]_vars, NEW hand \in Reader,
           Rests(hand, DOMAIN snapshots), ForwardIn(analysis, hand.plan, hand.seen)
    PROVE  ForwardIn(analysis', hand.plan, hand.seen)
  <1>1. /\ hand.seen \in Seq(Found) /\ DOMAIN hand.seen \subseteq DOMAIN hand.plan
        /\ \A i \in DOMAIN hand.plan : hand.plan[i] \in DOMAIN snapshots
    <2>1. /\ hand.seen \in Seq(Found) /\ DOMAIN hand.seen = 1..Len(hand.seen)
          /\ hand.plan \in Seq(Snaps) /\ Len(hand.seen) \in 0..Len(hand.plan)
          /\ \A i \in DOMAIN hand.plan : hand.plan[i] \in DOMAIN snapshots
      BY ReaderFields
    <2> QED
      BY <2>1
  <1> QED
    BY <1>1, ForwardKept

(* An analysis made for a comparison carries a reader.                     *)
LEMMA BackReads ==
    ASSUME Types, NEW r \in Requests, req[r].pc \in {"analyse", "store"},
           req[r].back.pc = "compare"
    PROVE  /\ req[r].back \in Reader /\ Rests(req[r].back, DOMAIN snapshots)
           /\ Len(req[r].back.seen) < 2
           /\ req[r].back.plan[Len(req[r].back.seen) + 1] = req[r].snap
  <1>1. req[r].back \in Backs /\ Rests(req[r].back, DOMAIN snapshots)
    BY HandFields
  <1>2. req[r].back \in Reader
    BY <1>1 DEF Backs, Idle, Opener
  <1> QED
    BY <1>1, <1>2 DEF Types, InHand, Holds

LEMMA HandKept ==
    ASSUME Types, Level(analysis), [Next]_vars, NEW r \in Requests,
           HandForward(req[r], analysis)
    PROVE  HandForward(req[r], analysis')
  <1>1. CASE req[r].pc = "create"
    BY <1>1, HandFields, ComparisonKept DEF HandForward
  <1>2. CASE req[r].pc \in {"page", "compare"}
    BY <1>2, HandFields, ReaderKept DEF HandForward
  <1>3. CASE req[r].pc \in {"analyse", "store"} /\ req[r].back.pc = "compare"
    <2>1. ForwardIn(analysis', req[r].back.plan, req[r].back.seen)
      BY <1>3, BackReads, ReaderKept DEF HandForward
    <2> QED
      BY <1>3, <2>1 DEF HandForward
  <1> QED
    BY <1>1, <1>2, <1>3 DEF HandForward

LEMMA TablesKept ==
    ASSUME Types, Level(analysis), [Next]_vars, NEW tables, BackupForward(tables, analysis)
    PROVE  BackupForward(tables, analysis')
  <1>1. ASSUME NEW i \in DOMAIN tables \cap AnalysisTables
        PROVE  /\ DOMAIN tables[i] \subseteq DOMAIN analysis'
               /\ \A s \in DOMAIN tables[i] : Below(tables[i][s], s, analysis')
    <2>1. /\ tables[i] \in Seq(Found) /\ DOMAIN tables[i] \subseteq DOMAIN snapshots
          /\ \A s \in DOMAIN tables[i] : Below(tables[i][s], s, analysis)
      BY Newer DEF BackupForward
    <2>2. \A s \in DOMAIN tables[i] : tables[i][s] \in Found
      BY <2>1
    <2>3. DOMAIN tables[i] \subseteq DOMAIN analysis'
      BY <2>1, Newer
    <2> QED
      BY <2>1, <2>2, <2>3, BelowKept
  <1> QED
    BY <1>1 DEF BackupForward

(* A step of request r keeps the rest when what r has in hand is forward.  *)
LEMMA ReadsByRequest ==
    ASSUME Types, ReadsInv, [Next]_vars, NEW r \in Requests,
           HandForward(req'[r], analysis'), \A q \in Requests : q # r => req'[q] = req[q],
           UNCHANGED <<comparisons, disk>>
    PROVE  ReadsInv'
  <1>1. \A q \in Requests : HandForward(req'[q], analysis')
    BY HandKept DEF ReadsInv
  <1>2. \A c \in DOMAIN comparisons : ComparisonForward(comparisons[c], analysis')
    <2>1. \A c \in DOMAIN comparisons : /\ comparisons[c] \in Comparison
                                        /\ comparisons[c].base \in DOMAIN snapshots
                                        /\ comparisons[c].target \in DOMAIN snapshots
      BY DEF Types, Database
    <2> QED
      BY <2>1, ComparisonKept DEF ReadsInv
  <1>3. backup.pc # "idle" => BackupForward(backup.tables, analysis')
    BY TablesKept DEF ReadsInv
  <1>4. Level(analysis')
    BY Newer DEF ReadsInv
  <1> QED
    BY <1>1, <1>2, <1>3, <1>4 DEF ReadsInv, disk

(* What a query of a page or a comparison finds: rows, and behind none that *)
(* the queries before it found of the same snapshot.                       *)
LEMMA QueryFinds ==
    ASSUME Types, ReadsInv, NEW r \in Requests, ReadRows(r)
    PROVE  \E found \in Found :
              /\ Read(r, found) /\ found # {} /\ Below(found, Ahead(r), analysis)
              /\ \A i \in DOMAIN req[r].seen :
                    req[r].plan[i] = Ahead(r) => Onward(req[r].seen[i], found)
  <1> DEFINE n == Len(req[r].seen)
             plan == req[r].plan
             seen == req[r].seen
             s == Ahead(r)
             k == KindAhead(r)
  <1>1. /\ req[r] \in Reader /\ Rests(req[r], DOMAIN snapshots)
        /\ ForwardIn(analysis, plan, seen) /\ n < Len(plan)
        /\ req[r].pc \in {"page", "compare"}
    BY HandFields DEF ReadRows, ReadsInv, HandForward
  <1>2. /\ s \in DOMAIN snapshots /\ k \in Kinds /\ s = plan[n + 1]
        /\ k = (IF req[r].pc = "page" THEN PageKinds ELSE CompareKinds)[n + 1]
    BY AheadIsThere DEF ReadRows, Ahead, KindAhead
  <1>3. /\ seen \in Seq(Found) /\ DOMAIN seen = 1..n /\ n \in Nat
        /\ n < (IF req[r].pc = "page" THEN 4 ELSE 8)
        /\ req[r].pc = "page" => n # 0 /\ \E u \in DOMAIN snapshots : plan = <<u, u, u, u>>
        /\ req[r].pc = "compare" =>
              \E b, t \in DOMAIN snapshots : b # t /\ plan = <<b, t, b, t, b, t, b, t>>
    <2>1. /\ seen \in Seq(Found) /\ DOMAIN seen = 1..n /\ n \in 0..Len(plan)
          /\ Len(plan) = (IF req[r].pc = "page" THEN 4 ELSE 8)
      BY <1>1, ReaderFields
    <2>2. req[r].pc = "page" => n # 0 /\ \E u \in DOMAIN snapshots : plan = <<u, u, u, u>>
      <3>1. ASSUME req[r].pc = "page" PROVE (\E u \in DOMAIN snapshots : plan = <<u, u, u, u>>) /\ n \in 1..4
        BY <1>1, <3>1 DEF Rests
      <3> HIDE DEF n, plan
      <3>2. n \in 1..4 => n # 0
        OBVIOUS
      <3> QED
        BY <3>1, <3>2
    <2>3. req[r].pc = "compare" =>
              \E b, t \in DOMAIN snapshots : b # t /\ plan = <<b, t, b, t, b, t, b, t>>
      BY <1>1 DEF Rests, Pair
    <2> QED
      BY <1>1, <2>1, <2>2, <2>3
  <1>4. analysis[s][k] \in Found /\ Below(analysis[s][k], s, analysis)
    BY <1>2, SnapshotKeys DEF Stored, ReadsInv, Level
  <1>5. CASE k = "parsed" /\ req[r].pc = "compare" /\ n < 2
    <2>1. PICK a \in analysis[s][k] : Read(r, {a})
      BY <1>5 DEF ReadRows
    <2>2. {a} \in Found /\ Below({a}, s, analysis)
      BY <1>4, <2>1 DEF Found, Below
    <2>3. ASSUME NEW i \in DOMAIN seen, plan[i] = s PROVE FALSE
      <3>1. PICK b \in DOMAIN snapshots, t \in DOMAIN snapshots :
                b # t /\ plan = <<b, t, b, t, b, t, b, t>>
        BY <1>3, <1>5
      <3> HIDE DEF n, plan, seen, s, k
      <3>2. i = 1 /\ n = 1
        BY <1>3, <1>5, <2>3
      <3> QED
        BY <1>2, <2>3, <3>1, <3>2
    <2> QED
      BY <2>1, <2>2, <2>3
  <1>6. ASSUME k # "parsed", NEW i \in 1..n, plan[i] = s
        PROVE  \E found \in Found :
                  /\ Read(r, found) /\ found # {} /\ Below(found, s, analysis)
                  /\ \A j \in DOMAIN seen : plan[j] = s => Onward(seen[j], found)
    <2>1. Read(r, analysis[s][k])
      BY <1>6 DEF ReadRows
    <2>2. \A j \in DOMAIN seen : plan[j] = s => Onward(seen[j], analysis[s][k])
      BY <1>1, <1>2 DEF ForwardIn, Below, Onward
    <2>3. analysis[s][k] # {}
      <3>1. i \in DOMAIN seen
        BY <1>3
      <3>2. PICK a : a \in seen[i]
        BY <1>1, <3>1 DEF ForwardIn
      <3>3. Onward(seen[i], analysis[s][k])
        BY <1>6, <2>2, <3>1
      <3> HIDE DEF seen, s, k
      <3> QED
        BY <3>2, <3>3 DEF Onward
    <2> QED
      BY <1>4, <2>1, <2>2, <2>3
  <1> HIDE DEF n, plan, seen, s, k
  <1>7. CASE req[r].pc = "page"
    <2>1. PICK u \in DOMAIN snapshots : plan = <<u, u, u, u>>
      BY <1>3, <1>7
    <2>2. n \in {1, 2, 3} /\ plan[1] = u /\ plan[2] = u /\ plan[3] = u /\ plan[4] = u
      BY <1>3, <1>7, <2>1
    <2>3. plan[1] = s /\ 1 \in 1..n
      BY <1>2, <2>2
    <2>4. k # "parsed"
      BY <1>2, <1>7, <2>2 DEF PageKinds
    <2> QED
      BY <1>6, <2>3, <2>4 DEF s, plan, seen
  <1>8. CASE req[r].pc = "compare" /\ n >= 2
    <2>1. PICK b \in DOMAIN snapshots, t \in DOMAIN snapshots : plan = <<b, t, b, t, b, t, b, t>>
      BY <1>3, <1>8
    <2>2. n \in {2, 3, 4, 5, 6, 7}
      BY <1>3, <1>8
    <2>3. /\ plan[1] = b /\ plan[3] = b /\ plan[5] = b /\ plan[7] = b
          /\ plan[2] = t /\ plan[4] = t /\ plan[6] = t /\ plan[8] = t
      BY <2>1
    <2>4. plan[n - 1] = s /\ n - 1 \in 1..n
      BY <1>2, <2>2, <2>3
    <2>5. k # "parsed"
      BY <1>2, <1>8, <2>2 DEF CompareKinds
    <2> QED
      BY <1>6, <2>4, <2>5 DEF s, plan, seen
  <1>9. CASE req[r].pc = "compare" /\ n < 2
    <2>1. n \in {0, 1}
      BY <1>3, <1>9
    <2>2. k = "parsed"
      BY <1>2, <1>9, <2>1 DEF CompareKinds
    <2> QED
      BY <1>5, <1>9, <2>2
  <1> QED
    BY <1>1, <1>3, <1>7, <1>8, <1>9 DEF s, plan, seen

(* The query after it.                                                     *)
LEMMA ReadsOneMore ==
    ASSUME Types, ReadsInv, NEW r \in Requests, ReadRows(r)
    PROVE  HandForward(req'[r], analysis')
  <1>1. PICK found \in Found :
              /\ Read(r, found) /\ found # {} /\ Below(found, Ahead(r), analysis)
              /\ \A i \in DOMAIN req[r].seen :
                    req[r].plan[i] = Ahead(r) => Onward(req[r].seen[i], found)
    BY QueryFinds
  <1>2. /\ req[r] \in Reader /\ Rests(req[r], DOMAIN snapshots)
        /\ ForwardIn(analysis, req[r].plan, req[r].seen)
        /\ Len(req[r].seen) < Len(req[r].plan)
    BY HandFields DEF ReadRows, ReadsInv, HandForward
  <1>3. req[r].seen \in Seq(Found)
    BY <1>2, ReaderFields
  <1>4. ForwardIn(analysis, req[r].plan, Append(req[r].seen, found))
    BY <1>1, <1>2, <1>3, ForwardRead DEF Ahead
  <1> DEFINE to == [req[r] EXCEPT !.seen = Append(req[r].seen, found)]
  <1>5. to.plan = req[r].plan /\ to.seen = Append(req[r].seen, found) /\ to.pc = req[r].pc
    BY <1>2, ReaderReads
  <1>6. req'[r] = to
    BY <1>1 DEF Read, Types, InHand
  <1>7. req[r].pc \in {"page", "compare"} /\ analysis' = analysis
    BY DEF ReadRows, rows
  <1> HIDE DEF to
  <1> QED
    BY <1>4, <1>5, <1>6, <1>7 DEF HandForward

(* A comparison goes on with the analysis it made.                         *)
LEMMA ReadsOwnAnalysis ==
    ASSUME Types, ReadsInv, [Next]_vars, NEW r \in Requests, StoreAnalysis(r)
    PROVE  HandForward(req'[r], analysis')
  <1> DEFINE to == Resumed(req[r].back, keys + 1)
             back == req[r].back
  <1>1. /\ req[r].pc = "store" /\ req[r].snap \in DOMAIN snapshots
        /\ keys + 1 \in 1..MaxAnalyses
        /\ \A k \in Kinds : keys + 1 \in analysis'[req[r].snap][k]
    BY HandFields, AnalyseTypes DEF StoreAnalysis
  <1>2. /\ to.pc = back.pc /\ back.pc \in {"idle", "open", "compare"}
        /\ to.pc = "compare" => /\ to.plan = back.plan
                                /\ to.seen = Append(back.seen, {keys + 1})
    BY <1>1, ResumedTypes, HandFields
  <1>3. req'[r] = to
    BY DEF StoreAnalysis, Goes, Types, InHand
  <1>4. CASE back.pc = "compare"
    <2>1. /\ back \in Reader /\ Rests(back, DOMAIN snapshots)
          /\ Len(back.seen) < 2 /\ back.plan[Len(back.seen) + 1] = req[r].snap
      BY <1>1, <1>4, BackReads
    <2>2. ForwardIn(analysis, back.plan, back.seen) /\ Level(analysis)
      BY <1>1, <1>4 DEF ReadsInv, HandForward
    <2>3. ForwardIn(analysis', back.plan, back.seen)
      BY <2>1, <2>2, ReaderKept
    <2>4. back.seen \in Seq(Found) /\ DOMAIN back.seen = 1..Len(back.seen) /\ Len(back.seen) \in Nat
      BY <2>1, ReaderFields
    <2>5. {keys + 1} \in Found /\ {keys + 1} # {}
      BY <1>1 DEF Found
    <2>6. Below({keys + 1}, req[r].snap, analysis')
      BY <1>1 DEF Below
    <2>7. ASSUME NEW i \in DOMAIN back.seen, back.plan[i] = back.plan[Len(back.seen) + 1]
          PROVE  FALSE
      <3>1. PICK b \in DOMAIN snapshots, t \in DOMAIN snapshots :
                b # t /\ back.plan = <<b, t, b, t, b, t, b, t>>
        BY <1>4, <2>1 DEF Rests, Pair
      <3> DEFINE n == Len(back.seen)
      <3>2. n \in Nat /\ n < 2 /\ i \in 1..n
        BY <2>1, <2>4
      <3> HIDE DEF n
      <3>3. i = 1 /\ n = 1
        BY <3>2
      <3> QED
        BY <2>7, <3>1, <3>3 DEF n
    <2> HIDE DEF back, to
    <2>8. ForwardIn(analysis', back.plan, Append(back.seen, {keys + 1}))
      BY <2>1, <2>3, <2>4, <2>5, <2>6, <2>7, ForwardRead
    <2> QED
      BY <1>2, <1>3, <1>4, <2>8 DEF HandForward
  <1>5. CASE back.pc # "compare"
    <2> HIDE DEF to
    <2> QED
      BY <1>2, <1>3, <1>5 DEF HandForward
  <1> QED
    BY <1>4, <1>5

(* The next table of a backup.                                             *)
LEMMA TablesRead ==
    ASSUME Types, ReadsInv, ReadTable
    PROVE  BackupForward(backup'.tables, analysis)
  <1> DEFINE n == Len(backup.tables)
             old == backup.tables
             new == backup'.tables
  <1>1. /\ DOMAIN old = 1..n /\ n \in 0..6 /\ BackupForward(old, analysis)
    BY BackupFields, SevenTables DEF ReadTable, ReadsInv
  <1>2. /\ DOMAIN new = 1..(n + 1) /\ \A i \in DOMAIN old : new[i] = old[i]
        /\ new[n + 1] = Contents(Tables[n + 1])
    BY ReadTableTypes
  <1>3. n + 1 \in AnalysisTables =>
            /\ new[n + 1] \in Seq(Found) /\ DOMAIN new[n + 1] = DOMAIN snapshots
            /\ \A s \in DOMAIN snapshots :
                  \E k \in Kinds : new[n + 1][s] = analysis[s][k]
    BY <1>2, AnalysisContents
  <1>4. DOMAIN analysis = DOMAIN snapshots
    BY SnapshotKeys
  <1>5. \A i \in DOMAIN new : (i \in DOMAIN old /\ new[i] = old[i]) \/ i = n + 1
    BY <1>1, <1>2
  <1> HIDE DEF n, old, new
  <1>6. ASSUME NEW i \in DOMAIN new \cap AnalysisTables
        PROVE  /\ new[i] \in Seq(Found) /\ DOMAIN new[i] \subseteq DOMAIN analysis
               /\ \A s \in DOMAIN new[i] : Below(new[i][s], s, analysis)
    <2>1. CASE i \in DOMAIN old /\ new[i] = old[i]
      BY <1>1, <2>1 DEF BackupForward
    <2>2. CASE i = n + 1
      BY <1>3, <1>4, <2>2 DEF ReadsInv, Level
    <2> QED
      BY <1>5, <2>1, <2>2
  <1>7. ASSUME NEW i \in DOMAIN new \cap AnalysisTables, NEW j \in DOMAIN new \cap AnalysisTables,
               i < j, NEW s \in DOMAIN new[i]
        PROVE  s \in DOMAIN new[j] /\ Onward(new[i][s], new[j][s])
    <2>1. i \in DOMAIN old /\ new[i] = old[i]
      BY <1>1, <1>2, <1>7
    <2>2. CASE j \in DOMAIN old
      BY <1>1, <1>2, <1>7, <2>1, <2>2 DEF BackupForward
    <2>3. CASE j = n + 1
      <3>1. s \in DOMAIN snapshots /\ Below(new[i][s], s, analysis)
        BY <1>4, <1>6
      <3> QED
        BY <1>3, <2>3, <3>1 DEF Below, Onward
    <2> QED
      BY <1>5, <2>2, <2>3
  <1> QED
    BY <1>6, <1>7 DEF BackupForward, new

LEMMA ReadsStep == Types /\ ReadsInv /\ [Next]_vars => ReadsInv'
  <1> SUFFICES ASSUME Types, ReadsInv, [Next]_vars PROVE ReadsInv'
    OBVIOUS
  <1>0. req \in [Requests -> Hands]
    BY DEF Types, InHand
  <1>1. ASSUME NEW r \in Requests, NEW d \in Devices, NEW t \in Texts,
               Upload(r, d, t) \/ NewAnalysis(r, d, t)
        PROVE  ReadsInv'
    <2>1. req'[r].pc = "save" /\ \A q \in Requests : q # r => req'[q] = req[q]
      BY <1>0, <1>1 DEF Upload, NewAnalysis, Goes, Saving
    <2>2. UNCHANGED <<comparisons, disk>>
      BY <1>1 DEF Upload, NewAnalysis, rows
    <2> QED
      BY <2>1, <2>2, ReadsByRequest DEF HandForward
  <1>2. ASSUME NEW r \in Requests, SaveSnapshot(r) PROVE ReadsInv'
    <2>0. PICK new : req' = [req EXCEPT ![r] = Analysing(new, Opening(new, 0))]
      BY <1>2 DEF SaveSnapshot, Goes
    <2>1. /\ req'[r].pc = "analyse" /\ req'[r].back.pc = "open"
          /\ \A q \in Requests : q # r => req'[q] = req[q]
      BY <1>0, <2>0 DEF Analysing, Opening
    <2> QED
      BY <1>2, <2>1, ReadsByRequest DEF HandForward, SaveSnapshot
  <1>3. ASSUME NEW r \in Requests, StoreAnalysis(r) PROVE ReadsInv'
    BY <1>3, AnalysisMoves, ReadsOwnAnalysis, ReadsByRequest
  <1>4. ASSUME NEW r \in Requests, NEW s \in DOMAIN snapshots, Reanalyse(r, s) PROVE ReadsInv'
    <2>1. req'[r].pc = "analyse" /\ req'[r].back = Idle
      BY <1>0, <1>4 DEF Reanalyse, Goes, Analysing
    <2>2. HandForward(req'[r], analysis')
      BY <2>1 DEF HandForward, Idle
    <2> QED
      BY <1>4, <2>2, AnalysisMoves, ReadsByRequest
  <1>5. ASSUME NEW r \in Requests, NEW s \in DOMAIN snapshots, FollowLink(r, s) PROVE ReadsInv'
    <2>1. /\ req'[r].pc = "open" /\ \A q \in Requests : q # r => req'[q] = req[q]
      BY <1>0, <1>5 DEF FollowLink, Goes, Opening
    <2>3. UNCHANGED <<comparisons, disk>>
      BY <1>5 DEF FollowLink, rows
    <2> QED
      BY <2>1, <2>3, ReadsByRequest DEF HandForward
  <1>6. ASSUME NEW r \in Requests, OpenPage(r) PROVE ReadsInv'
    <2>1. \A q \in Requests : q # r => req'[q] = req[q]
      BY <1>6 DEF OpenPage, Goes
    <2>2. UNCHANGED <<comparisons, disk, analysis>>
      BY <1>6 DEF OpenPage, rows
    <2>3. CASE req'[r] = Idle
      BY <2>1, <2>2, <2>3, ReadsByRequest DEF HandForward, Idle
    <2>4. CASE /\ req'[r] = Page(req[r].snap, req[r].key)
               /\ req[r].key \in analysis[req[r].snap]["parsed"]
      <3>1. PICK s \in DOMAIN snapshots : s = req[r].snap
        BY <1>6, HandFields DEF OpenPage
      <3>2. PICK k \in analysis[s]["parsed"] : k = req[r].key
        BY <2>4, <3>1
      <3>3. req'[r].pc = "page" /\ req'[r].plan = <<s, s, s, s>> /\ req'[r].seen = <<{k}>>
        BY <2>4, <3>1, <3>2 DEF Page
      <3>4. k \in Nat
        BY <3>1, SnapshotKeys DEF Stored, Found, Kinds
      <3>5. Below({k}, s, analysis)
        BY <3>1, SnapshotKeys DEF ReadsInv, Level, Below, Kinds
      <3>6. Onward({k}, {k})
        BY <3>4 DEF Onward
      <3>7. ForwardIn(analysis, <<s, s, s, s>>, <<{k}>>)
        BY <3>5, <3>6 DEF ForwardIn
      <3> QED
        BY <2>1, <2>2, <3>3, <3>7, ReadsByRequest DEF HandForward
    <2> QED
      BY <1>0, <1>6, <2>3, <2>4 DEF OpenPage, Goes
  <1>7. ASSUME NEW r \in Requests, NEW b \in DOMAIN snapshots, NEW t \in DOMAIN snapshots,
               ComparePage(r, b, t) \/ CompareNew(r, b, t)
        PROVE  ReadsInv'
    <2>1. \A q \in Requests : q # r => req'[q] = req[q]
      <3>1. \E to : req' = [req EXCEPT ![r] = to]
        BY <1>7 DEF ComparePage, CompareNew, Goes
      <3> QED
        BY <1>0, <3>1
    <2>2. UNCHANGED <<comparisons, disk>>
      BY <1>7 DEF ComparePage, CompareNew, rows
    <2>3. HandForward(req'[r], analysis')
      <3>1. CASE ComparePage(r, b, t)
        BY <1>0, <3>1 DEF ComparePage, Goes, Creating, HandForward, ComparisonForward, ForwardIn
      <3>2. CASE CompareNew(r, b, t)
        BY <1>0, <3>2 DEF CompareNew, Goes, Comparing, HandForward, ForwardIn
      <3> QED
        BY <1>7, <3>1, <3>2
    <2> QED
      BY <2>1, <2>2, <2>3, ReadsByRequest
  <1>8. ASSUME NEW r \in Requests, ReadRows(r) PROVE ReadsInv'
    <2>1. UNCHANGED <<comparisons, disk>>
      BY <1>8 DEF ReadRows, rows
    <2> QED
      BY <1>8, <2>1, ReadsOneMore, ReadingStays, ReadsByRequest
  <1>9. ASSUME NEW r \in Requests, EnsureAnalyzed(r) PROVE ReadsInv'
    <2>1. /\ req'[r].pc = "analyse" /\ req'[r].back = req[r] /\ analysis' = analysis
          /\ req[r].pc = "compare"
      BY <1>0, <1>9 DEF EnsureAnalyzed, Goes, Analysing, rows
    <2>2. HandForward(req'[r], analysis')
      BY <2>1 DEF ReadsInv, HandForward
    <2> QED
      BY <1>9, <2>2, AnalysisMoves, ReadsByRequest
  <1>10. ASSUME NEW r \in Requests, LookUp(r) PROVE ReadsInv'
    <2>1. /\ req'[r].pc = "store" /\ req'[r].back = req[r].back /\ analysis' = analysis
          /\ req[r].pc = "analyse"
      BY <1>0, <1>10 DEF LookUp, Goes, Storing, rows
    <2>2. HandForward(req'[r], analysis')
      BY <2>1 DEF ReadsInv, HandForward
    <2> QED
      BY <1>10, <2>2, AnalysisMoves, ReadsByRequest
  <1>11. ASSUME NEW r \in Requests, StoreComparison(r) PROVE ReadsInv'
    <2>1. \A q \in Requests : q # r => req'[q] = req[q]
      BY <1>11 DEF StoreComparison, Goes
    <2>2. UNCHANGED <<comparisons, disk, analysis>>
      BY <1>11 DEF StoreComparison, rows
    <2>3. /\ req[r].pc = "compare" /\ req[r] \in Reader /\ Rests(req[r], DOMAIN snapshots)
          /\ ForwardIn(analysis, req[r].plan, req[r].seen)
      BY <1>11, HandFields DEF StoreComparison, ReadsInv, HandForward
    <2>4. PICK b \in DOMAIN snapshots, t \in DOMAIN snapshots :
              req[r].plan = <<b, t, b, t, b, t, b, t>>
      BY <2>3 DEF Rests, Pair
    <2>5. req[r].plan = Pair(req[r].plan[1], req[r].plan[2])
      BY <2>4 DEF Pair
    <2>6. DOMAIN req[r].seen \subseteq 1..8
      <3>1. /\ Len(req[r].plan) = 8 /\ DOMAIN req[r].seen = 1..Len(req[r].seen)
            /\ Len(req[r].seen) \in 0..Len(req[r].plan)
        BY <2>3, ReaderFields
      <3> DEFINE n == Len(req[r].seen)
      <3>2. n \in 0..8
        BY <3>1
      <3> HIDE DEF n
      <3>3. 1..n \subseteq 1..8
        BY <3>2
      <3> QED
        BY <3>1, <3>3 DEF n
    <2>7. /\ req'[r].pc = "create" /\ req'[r].row.seen = req[r].seen
          /\ req'[r].row.base = req[r].plan[1] /\ req'[r].row.target = req[r].plan[2]
      BY <1>0, <1>11 DEF StoreComparison, Goes, Creating
    <2>8. ComparisonForward(req'[r].row, analysis')
      BY <2>2, <2>3, <2>5, <2>6, <2>7 DEF ComparisonForward
    <2> QED
      BY <2>1, <2>2, <2>7, <2>8, ReadsByRequest DEF HandForward
  <1>12. ASSUME NEW r \in Requests, ShowPage(r) \/ EndsEarly(r) PROVE ReadsInv'
    <2>1. req'[r] = Idle /\ \A q \in Requests : q # r => req'[q] = req[q]
      BY <1>0, <1>12 DEF ShowPage, EndsEarly, Goes
    <2>2. UNCHANGED <<comparisons, disk>>
      BY <1>12 DEF ShowPage, EndsEarly, rows
    <2> QED
      BY <2>1, <2>2, ReadsByRequest DEF HandForward, Idle
  <1>13. ASSUME NEW r \in Requests, CreateComparison(r) PROVE ReadsInv'
    <2>1. /\ DOMAIN comparisons' = 1..(Len(comparisons) + 1) /\ DOMAIN comparisons = 1..Len(comparisons)
          /\ \A c \in DOMAIN comparisons : comparisons'[c] = comparisons[c]
          /\ comparisons'[Len(comparisons) + 1] = req[r].row
      BY <1>13, CreateTypes
    <2>2. /\ req'[r] = Idle /\ \A q \in Requests : q # r => req'[q] = req[q]
          /\ UNCHANGED <<analysis, disk>> /\ req[r].pc = "create"
      BY <1>0, <1>13 DEF CreateComparison, Goes
    <2>3. \A q \in Requests : HandForward(req'[q], analysis')
      <3>1. HandForward(Idle, analysis)
        BY DEF HandForward, Idle
      <3> QED
        BY <2>2, <3>1 DEF ReadsInv
    <2>4. ComparisonForward(req[r].row, analysis)
      BY <2>2 DEF ReadsInv, HandForward
    <2>5. Len(comparisons) \in Nat
      BY DEF Types, Database
    <2>6. \A c \in DOMAIN comparisons' : ComparisonForward(comparisons'[c], analysis')
      BY <2>1, <2>2, <2>4, <2>5 DEF ReadsInv
    <2>7. backup'.pc # "idle" => BackupForward(backup'.tables, analysis')
      BY <2>2 DEF ReadsInv, disk
    <2> QED
      BY <2>2, <2>3, <2>6, <2>7 DEF ReadsInv
  <1>14. CASE StartBackup \/ ReadTable \/ WriteFile \/ ReplaceFile \/ BackupEndsEarly
    <2>1. UNCHANGED <<req, comparisons, analysis>>
      BY <1>14 DEF StartBackup, ReadTable, WriteFile, ReplaceFile, BackupEndsEarly, rows
    <2>2. CASE StartBackup
      <3>1. DOMAIN backup'.tables = {}
        BY <2>2 DEF StartBackup
      <3> QED
        BY <2>1, <3>1 DEF ReadsInv, BackupForward
    <2>3. CASE ReadTable
      BY <2>1, <2>3, TablesRead DEF ReadsInv
    <2>4. CASE WriteFile
      <3>1. backup'.tables = backup.tables /\ backup.pc # "idle"
        BY <2>4, BackupFields DEF WriteFile
      <3> QED
        BY <2>1, <3>1 DEF ReadsInv
    <2>5. CASE ReplaceFile \/ BackupEndsEarly
      BY <2>1, <2>5 DEF ReplaceFile, BackupEndsEarly, ReadsInv
    <2> QED
      BY <1>14, <2>2, <2>3, <2>4, <2>5
  <1>15. CASE UNCHANGED vars
    BY <1>15 DEF vars, rows, disk, ReadsInv
  <1> QED
    BY <1>1, <1>2, <1>3, <1>4, <1>5, <1>6, <1>7, <1>8, <1>9, <1>10, <1>11, <1>12, <1>13, <1>14, <1>15
       DEF Next, RequestStep

(* The page of an analysis, a comparison and the backup never show an      *)
(* analysis that is half deleted, nor only detections older than the parsed *)
(* data beside them, however many requests look for an earlier analysis of *)
(* the snapshot, find none or the same, and store theirs while they read.  *)
THEOREM GoForward == Spec => []ReadsGoForward
<1>1. Init => ReadsInv
  BY DEF Init, ReadsInv, HandForward, Idle, Level
<1>2. ReadsInv => ReadsGoForward
  <2>1. \A b, t : Comparing(b, t).plan = Pair(b, t)
    BY DEF Comparing, Pair
  <2>2. ASSUME NEW plan, NEW seen, ForwardIn(analysis, plan, seen) PROVE Forward(plan, seen)
    BY <2>2 DEF ForwardIn, Forward, Onward
  <2> QED
    BY <2>1, <2>2 DEF ReadsInv, ReadsGoForward, HandForward, ComparisonForward, BackupForward, Onward
<1> QED
  BY <1>1, <1>2, AlwaysTypes, ReadsStep, PTL DEF Spec
=============================================================================
