--------------------------- MODULE CollectorProofs ---------------------------
(***************************************************************************)
(* Theorems of Collector, for any number of processes, addresses, runs and *)
(* devices.                                                                *)
(***************************************************************************)
EXTENDS Collector, SequenceTheorems, TLAPS

(* A step of a process to a label with a memory of the right type.         *)
LEMMA GoTyped ==
    ASSUME TypeOK, NEW p \in Procs, NEW next \in Labels, NEW m \in Memory, Go(p, next, m)
    PROVE  /\ pc' \in [Procs -> Labels] /\ mem' \in [Procs -> Memory]
           /\ pc'[p] = next /\ mem'[p] = m
           /\ \A q \in Procs \ {p} : pc'[q] = pc[q] /\ mem'[q] = mem[q]
  BY DEF Go, TypeOK, Labels

(* The memory an idle process starts with.                                 *)
LEMMA IdleTyped == Idle \in Memory
  BY CollectorAssumption DEF Idle, Memory, Works

(* The memories the statements leave are typed and keep run and address.   *)
LEMMA Counted ==
    ASSUME NEW x \in Memory, NEW k \in Nat,
           NEW y \in {[x EXCEPT !.outcome = "failed", !.failed = @ + 1],
                      [x EXCEPT !.done = @ + 1],
                      [x EXCEPT !.analyzed = @ + 1], [x EXCEPT !.failed = @ + 1],
                      [x EXCEPT !.hand = k]}
    PROVE  y \in Memory /\ y.run = x.run /\ y.at = x.at
<1>1. x.failed + 1 \in Nat /\ x.done + 1 \in Nat /\ x.analyzed + 1 \in Nat
  BY DEF Memory
<1>2. CASE y = [x EXCEPT !.outcome = "failed", !.failed = @ + 1]
  BY <1>1, <1>2 DEF Memory
<1>4. CASE y = [x EXCEPT !.done = @ + 1]
  BY <1>1, <1>4 DEF Memory
<1>5. CASE y = [x EXCEPT !.analyzed = @ + 1]
  BY <1>1, <1>5 DEF Memory
<1>6. CASE y = [x EXCEPT !.failed = @ + 1]
  BY <1>1, <1>6 DEF Memory
<1>7. CASE y = [x EXCEPT !.hand = k]
  BY <1>7 DEF Memory
<1> QED
  BY <1>2, <1>4, <1>5, <1>6, <1>7

(* What the others know stays true when rows are only added: runs and tasks *)
(* are never deleted.                                                      *)
LEMMA OthersPlaced ==
    ASSUME TypeOK, NEW q \in Procs, pc'[q] = pc[q], mem'[q] = mem[q],
           Len(runs') \in Nat, Len(runs') >= Len(runs),
           \A r \in 1..Len(runs) : Len(tasks[r]) > 0 => Len(tasks'[r]) > 0
    PROVE  Placed(q)'
<1>1. Placed(q) /\ Len(runs) \in Nat
  BY DEF TypeOK
<1>2. mem'[q].run \in 0..Len(runs')
  BY <1>1 DEF Placed
<1>3. pc'[q] \notin {"idle", "continue"} => mem'[q].run # 0
  BY <1>1 DEF Placed
<1>4. pc'[q] \in {"snmp", "match_name", "set_ip", "create"} => mem'[q].at \in Ips
  BY <1>1 DEF Placed
<1>5. pc'[q] \in InTask => Len(tasks'[mem'[q].run]) > 0
  <2>1. pc[q] \in InTask => mem[q].run \in 1..Len(runs)
    BY <1>1 DEF Placed, InTask
  <2> QED
    BY <1>1, <2>1 DEF Placed
<1> QED
  BY <1>2, <1>3, <1>4, <1>5 DEF Placed

(* Every step of a process keeps the types if it writes typed rows and     *)
(* goes where it knows what it needs.                                      *)
LEMMA StepTyped ==
    ASSUME TypeOK, NEW p \in Procs, NEW next \in Labels, NEW m \in Memory, Go(p, next, m),
           devices' \subseteq Device, nextPk' \in Nat \ {0},
           \A d \in devices' : d.pk < nextPk',
           runs' \in Seq(Run), tasks' \in Seq(Seq(Task)), Len(tasks') = Len(runs'),
           Len(runs') >= Len(runs),
           \A r \in 1..Len(runs) : Len(tasks[r]) > 0 => Len(tasks'[r]) > 0,
           snapshots' \subseteq Snapshot,
           m.run \in 0..Len(runs'),
           next \notin {"idle", "continue"} => m.run # 0,
           next \in {"snmp", "match_name", "set_ip", "create"} => m.at \in Ips,
           next \in InTask => Len(tasks'[m.run]) > 0
    PROVE  TypeOK'
<1>1. /\ pc' \in [Procs -> Labels] /\ mem' \in [Procs -> Memory]
      /\ pc'[p] = next /\ mem'[p] = m
      /\ \A q \in Procs \ {p} : pc'[q] = pc[q] /\ mem'[q] = mem[q]
  BY GoTyped
<1>2. Placed(p)'
  BY <1>1 DEF Placed
<1>3. \A q \in Procs \ {p} : Placed(q)'
  BY <1>1, OthersPlaced
<1> QED
  BY <1>1, <1>2, <1>3 DEF TypeOK

LEMMA CreateRunTyped ==
    ASSUME TypeOK, NEW p \in Procs, NEW m \in Memory, CreateRun(p, m)
    PROVE  TypeOK'
<1> DEFINE run == [work |-> m.work, status |-> "running", done |-> 0, analyzed |-> 0,
                   failed |-> 0, broken |-> FALSE]
           next == IF m.work = "discovery" THEN "next" ELSE "query"
           n == [m EXCEPT !.run = Len(runs) + 1]
<1>1. /\ runs \in Seq(Run) /\ run \in Run /\ runs' = Append(runs, run)
      /\ tasks \in Seq(Seq(Task)) /\ <<>> \in Seq(Task) /\ tasks' = Append(tasks, <<>>)
      /\ Len(runs) = Len(tasks) /\ Len(runs) \in Nat
  BY DEF CreateRun, TypeOK, Run, Memory
<1>2. /\ runs' \in Seq(Run) /\ Len(runs') = Len(runs) + 1
      /\ tasks' \in Seq(Seq(Task)) /\ Len(tasks') = Len(tasks) + 1
      /\ \A r \in 1..Len(tasks) : tasks'[r] = tasks[r]
  BY <1>1
<1>3. next \in Labels \ (InTask \cup {"idle", "continue"}) /\ n \in Memory
  <2>1. next \in Labels \ (InTask \cup {"idle", "continue"})
    BY DEF Labels, InTask
  <2>2. Len(runs) + 1 \in Nat
    BY <1>1
  <2>3. n \in Memory
    BY <2>2 DEF Memory
  <2> QED
    BY <2>1, <2>3
<1>4. n.run = Len(runs) + 1
  BY DEF Memory
<1>5. UNCHANGED <<devices, nextPk, snapshots>> /\ Go(p, next, n)
  BY DEF CreateRun
<1>6. /\ devices \subseteq Device /\ nextPk \in Nat \ {0} /\ \A d \in devices : d.pk < nextPk
      /\ snapshots \subseteq Snapshot
  BY DEF TypeOK
<1>7. next \notin {"snmp", "match_name", "set_ip", "create"}
  OBVIOUS
<1> HIDE DEF next, n, run
<1> QED
  BY <1>1, <1>2, <1>3, <1>4, <1>5, <1>6, <1>7, StepTyped

(* A process in a loop knows its run.                                      *)
LEMMA InRun ==
    ASSUME TypeOK, NEW p \in Procs, pc[p] \notin {"idle", "continue"}
    PROVE  /\ mem[p] \in Memory /\ mem[p].run \in 1..Len(runs) /\ Len(runs) \in Nat
           /\ tasks[mem[p].run] \in Seq(Task)
           /\ runs \in Seq(Run) /\ Len(tasks) = Len(runs)
           /\ devices \subseteq Device /\ nextPk \in Nat \ {0}
           /\ \A d \in devices : d.pk < nextPk
           /\ snapshots \subseteq Snapshot
<1>1. /\ mem[p] \in Memory /\ Placed(p) /\ Len(runs) \in Nat
      /\ tasks \in Seq(Seq(Task)) /\ Len(tasks) = Len(runs)
  BY DEF TypeOK
<1>2. mem[p].run \in 1..Len(runs)
  BY <1>1 DEF Placed
<1>3. tasks[mem[p].run] \in Seq(Task)
  BY <1>1, <1>2, ElementOfSeq
<1> QED
  BY <1>1, <1>2, <1>3 DEF TypeOK

(* A statement in the body of a loop that leaves runs and tasks alone.     *)
LEMMA BodyTyped ==
    ASSUME TypeOK, NEW p \in Procs, NEW next \in Labels, NEW m \in Memory, Go(p, next, m),
           pc[p] \notin {"idle", "continue"}, next \notin {"idle", "continue", "snmp"},
           devices' \subseteq Device, nextPk' \in Nat \ {0},
           \A d \in devices' : d.pk < nextPk',
           UNCHANGED <<runs, tasks>>, snapshots' \subseteq Snapshot, m.run = mem[p].run,
           next \in {"match_name", "set_ip", "create"} => m.at = mem[p].at,
           next \in {"match_name", "set_ip", "create"} =>
               pc[p] \in {"snmp", "match_name", "set_ip", "create"},
           next \in InTask => pc[p] \in InTask
    PROVE  TypeOK'
<1>1. Placed(p) /\ Len(runs) \in Nat /\ runs \in Seq(Run) /\ tasks \in Seq(Seq(Task))
      /\ Len(tasks) = Len(runs)
  BY DEF TypeOK
<1>2. m.run \in 0..Len(runs) /\ m.run # 0
  BY <1>1 DEF Placed
<1>3. next \in {"snmp", "match_name", "set_ip", "create"} => m.at \in Ips
  BY <1>1 DEF Placed
<1>4. next \in InTask => Len(tasks[m.run]) > 0
  BY <1>1 DEF Placed
<1> QED
  BY <1>1, <1>2, <1>3, <1>4, StepTyped

(* The same when the tables do not change at all.                          *)
LEMMA QuietTyped ==
    ASSUME TypeOK, NEW p \in Procs, NEW next \in Labels, NEW m \in Memory, Go(p, next, m),
           pc[p] \notin {"idle", "continue"}, next \notin {"idle", "continue", "snmp"},
           UNCHANGED db, m.run = mem[p].run,
           next \in {"match_name", "set_ip", "create"} => m.at = mem[p].at,
           next \in {"match_name", "set_ip", "create"} =>
               pc[p] \in {"snmp", "match_name", "set_ip", "create"},
           next \in InTask => pc[p] \in InTask
    PROVE  TypeOK'
  BY BodyTyped DEF TypeOK, db

LEMMA FailTyped ==
    ASSUME TypeOK, NEW p \in Procs, pc[p] \in InTask, Fail(p), UNCHANGED db
    PROVE  TypeOK'
<1> DEFINE m == [mem[p] EXCEPT !.outcome = "failed", !.failed = @ + 1]
<1>1. mem[p] \in Memory
  BY DEF TypeOK
<1>2. m \in Memory /\ m.run = mem[p].run /\ m.at = mem[p].at
  BY <1>1, Counted
<1>3. Go(p, "save", m)
  BY DEF Fail
<1>4. "save" \in Labels /\ pc[p] \notin {"idle", "continue"}
  BY DEF Labels, InTask
<1> HIDE DEF m
<1> QED
  BY <1>2, <1>3, <1>4, QuietTyped

-----------------------------------------------------------------------------
(* The statements of the two loops, one lemma each where more than the     *)
(* memory changes.                                                         *)
LEMMA QueryTyped ==
    ASSUME TypeOK, NEW p \in Procs, QueryDevices(p)
    PROVE  TypeOK'
<1> DEFINE found == IF mem[p].only = 0 THEN Enabled ELSE {d \in devices : d.pk = mem[p].only}
           rows == {[pk |-> d.pk, enabled |-> d.enabled] : d \in found}
           m == [mem[p] EXCEPT !.only = 0, !.rows = rows]
<1>1. mem[p] \in Memory /\ found \in SUBSET Device
  BY DEF TypeOK, Enabled
<1>2. rows \in SUBSET [pk : Nat, enabled : BOOLEAN]
  BY <1>1 DEF Device
<1>3. Go(p, "next", m) /\ UNCHANGED db /\ pc[p] = "query"
  BY DEF QueryDevices
<1> HIDE DEF found, rows
<1>4. m \in Memory /\ m.run = mem[p].run
  BY <1>1, <1>2 DEF Memory
<1>5. "next" \in Labels /\ "next" \notin InTask
  BY DEF Labels, InTask
<1> HIDE DEF m
<1> QED
  BY <1>3, <1>4, <1>5, QuietTyped

LEMMA MatchTyped ==
    ASSUME TypeOK, NEW p \in Procs, MatchIp(p) \/ MatchName(p)
    PROVE  TypeOK'
<1>1. mem[p] \in Memory /\ pc[p] \in {"snmp", "match_name"} /\ UNCHANGED db
  BY DEF TypeOK, MatchIp, MatchName
<1>2. {"match_name", "create", "set_ip", "touch"} \subseteq Labels \ {"idle", "continue", "snmp"}
      /\ pc[p] \in InTask
  BY <1>1 DEF Labels, InTask
<1>3. ASSUME NEW next \in {"match_name", "create"}, Go(p, next, mem[p]) PROVE TypeOK'
  BY <1>1, <1>2, <1>3, QuietTyped
<1>4. ASSUME NEW next \in {"set_ip", "touch"}, NEW d \in devices,
             Go(p, next, [mem[p] EXCEPT !.hand = d.pk])
      PROVE  TypeOK'
  <2> DEFINE m == [mem[p] EXCEPT !.hand = d.pk]
  <2>1. d.pk \in Nat
    BY DEF TypeOK, Device
  <2>2. m \in Memory /\ m.run = mem[p].run /\ m.at = mem[p].at
    BY <1>1, <2>1 DEF Memory
  <2> HIDE DEF m
  <2>3. Go(p, next, m)
    BY <1>4 DEF m
  <2> QED
    BY <1>1, <1>2, <2>2, <2>3, QuietTyped
<1>5. CASE MatchIp(p)
  BY <1>3, <1>4, <1>5 DEF MatchIp
<1>6. CASE MatchName(p)
  BY <1>3, <1>4, <1>6 DEF MatchName
<1> QED
  BY <1>5, <1>6

LEMMA TouchTyped ==
    ASSUME TypeOK, NEW p \in Procs, TouchDiscovered(p) \/ TouchCollected(p) \/ BodyFails(p)
    PROVE  TypeOK'
<1>1. /\ mem[p] \in Memory /\ UNCHANGED db
      /\ pc[p] \in InTask /\ pc[p] \notin {"idle", "continue"}
      /\ {"save", "analyze"} \subseteq Labels
      /\ {"save", "analyze"} \cap {"match_name", "set_ip", "create"} = {}
  BY DEF TypeOK, TouchDiscovered, TouchCollected, BodyFails, Labels, InTask
<1>2. CASE BodyFails(p)
  BY <1>1, <1>2, FailTyped DEF BodyFails
<1>3. ASSUME NEW next \in {"save", "analyze"}, Go(p, next, mem[p]) PROVE TypeOK'
  BY <1>1, <1>3, QuietTyped
<1>4. CASE TouchDiscovered(p)
  <2> DEFINE m == [mem[p] EXCEPT !.done = @ + 1]
  <2>1. m \in Memory /\ m.run = mem[p].run /\ m.at = mem[p].at
    BY <1>1, Counted
  <2>2. Go(p, "save", m)
    BY <1>4 DEF TouchDiscovered
  <2> HIDE DEF m
  <2> QED
    BY <1>1, <2>1, <2>2, QuietTyped
<1> QED
  BY <1>2, <1>3, <1>4 DEF TouchCollected

LEMMA SetIpTyped ==
    ASSUME TypeOK, NEW p \in Procs, SetIp(p)
    PROVE  TypeOK'
<1>1. /\ mem[p] \in Memory /\ pc[p] = "set_ip" /\ pc[p] \in InTask /\ mem[p].at \in Ips
      /\ UNCHANGED <<nextPk, runs, tasks, snapshots>> /\ Go(p, "touch", mem[p])
      /\ devices' = {IF d.pk = mem[p].hand THEN [d EXCEPT !.ip = mem[p].at] ELSE d :
                        d \in devices}
  BY DEF TypeOK, SetIp, InTask, Placed
<1>2. \A d \in devices : d \in Device /\ d.pk < nextPk
  BY DEF TypeOK
<1>3. \A d \in devices : /\ [d EXCEPT !.ip = mem[p].at] \in Device
                         /\ [d EXCEPT !.ip = mem[p].at].pk = d.pk
  BY <1>1, <1>2 DEF Device
<1>4. devices' \subseteq Device /\ \A d \in devices' : d.pk < nextPk
  BY <1>1, <1>2, <1>3
<1>5. /\ "touch" \in Labels /\ "touch" \notin {"match_name", "set_ip", "create"}
      /\ nextPk \in Nat \ {0} /\ snapshots \subseteq Snapshot
  BY DEF Labels, InTask, TypeOK
<1> QED
  BY <1>1, <1>4, <1>5, BodyTyped

LEMMA CreateDeviceTyped ==
    ASSUME TypeOK, NEW p \in Procs, CreateDevice(p)
    PROVE  TypeOK'
<1> DEFINE m == [mem[p] EXCEPT !.hand = nextPk]
           d == [pk |-> nextPk, name |-> NameOf(mem[p].at), ip |-> mem[p].at,
                 enabled |-> TRUE, edited |-> FALSE]
<1>1. /\ mem[p] \in Memory /\ pc[p] = "create" /\ pc[p] \in InTask /\ mem[p].at \in Ips
      /\ nextPk \in Nat \ {0} /\ snapshots \subseteq Snapshot
      /\ UNCHANGED <<runs, tasks, snapshots>> /\ nextPk' = nextPk + 1
      /\ Go(p, "touch", m) /\ devices' = devices \cup {d}
  BY DEF TypeOK, CreateDevice, InTask, Placed
<1>2. m \in Memory /\ m.run = mem[p].run /\ m.at = mem[p].at
  BY <1>1, Counted
<1>3. d \in Device /\ d.pk = nextPk
  BY <1>1 DEF Device, Names
<1>4. devices \subseteq Device /\ \A c \in devices : c.pk \in Nat /\ c.pk < nextPk
  BY DEF TypeOK, Device
<1> HIDE DEF m, d
<1>5. devices' \subseteq Device /\ nextPk' \in Nat \ {0} /\ \A c \in devices' : c.pk < nextPk'
  BY <1>1, <1>3, <1>4
<1>6. "touch" \in Labels /\ "touch" \notin {"match_name", "set_ip", "create"}
  BY DEF Labels, InTask
<1> QED
  BY <1>1, <1>2, <1>5, <1>6, BodyTyped

LEMMA StoreSnapshotTyped ==
    ASSUME TypeOK, NEW p \in Procs, StoreSnapshot(p)
    PROVE  TypeOK'
<1> DEFINE m == [mem[p] EXCEPT !.done = @ + 1]
           s == [run |-> mem[p].run, task |-> Len(tasks[mem[p].run]),
                 device |-> mem[p].hand, analysed |-> FALSE]
<1>1. /\ mem[p] \in Memory /\ pc[p] = "ssh" /\ pc[p] \in InTask
      /\ devices \subseteq Device /\ nextPk \in Nat \ {0} /\ \A d \in devices : d.pk < nextPk
      /\ UNCHANGED <<devices, nextPk, runs, tasks>> /\ snapshots \subseteq Snapshot
      /\ Go(p, "touch_collected", m) /\ snapshots' = snapshots \cup {s}
  BY DEF TypeOK, StoreSnapshot, InTask
<1>2. m \in Memory /\ m.run = mem[p].run /\ m.at = mem[p].at
  BY <1>1, Counted
<1>3. mem[p].hand \in Nat /\ mem[p].run \in Nat \ {0} /\ Len(tasks[mem[p].run]) \in Nat \ {0}
  <2>1. mem[p].hand \in Nat /\ pc[p] \notin {"idle", "continue"}
    BY <1>1 DEF Memory
  <2>2. Len(tasks[mem[p].run]) > 0
    BY <1>1 DEF TypeOK, Placed
  <2>3. mem[p].run \in Nat \ {0} /\ Len(tasks[mem[p].run]) \in Nat
    BY <2>1, InRun
  <2> QED
    BY <2>1, <2>2, <2>3
<1>4. s \in Snapshot
  BY <1>3 DEF Snapshot
<1> HIDE DEF m, s
<1>5. /\ "touch_collected" \in Labels
      /\ "touch_collected" \notin {"match_name", "set_ip", "create"}
  BY DEF Labels, InTask
<1>6. snapshots' \subseteq Snapshot
  BY <1>1, <1>4
<1> QED
  BY <1>1, <1>2, <1>5, <1>6, BodyTyped

LEMMA AnalyzeTyped ==
    ASSUME TypeOK, NEW p \in Procs, Analyze(p)
    PROVE  TypeOK'
<1> DEFINE own == {s \in snapshots : s.run = mem[p].run /\ s.task = Len(tasks[s.run])}
           f == [mem[p] EXCEPT !.failed = @ + 1]
           a == [mem[p] EXCEPT !.analyzed = @ + 1]
<1>1. /\ mem[p] \in Memory /\ pc[p] = "analyze" /\ pc[p] \in InTask
      /\ devices \subseteq Device /\ nextPk \in Nat \ {0} /\ \A d \in devices : d.pk < nextPk
      /\ UNCHANGED <<devices, nextPk, runs, tasks>> /\ snapshots \subseteq Snapshot
  BY DEF TypeOK, Analyze, InTask
<1>2. /\ f \in Memory /\ f.run = mem[p].run /\ f.at = mem[p].at
      /\ a \in Memory /\ a.run = mem[p].run /\ a.at = mem[p].at
  BY <1>1, Counted
<1>3. \A s \in snapshots : [s EXCEPT !.analysed = TRUE] \in Snapshot
  BY <1>1 DEF Snapshot
<1>4. \/ UNCHANGED snapshots /\ Go(p, "save", f)
      \/ /\ snapshots' = (snapshots \ own) \cup {[s EXCEPT !.analysed = TRUE] : s \in own}
         /\ Go(p, "save", a)
  BY DEF Analyze
<1>5. "save" \in Labels /\ "save" \notin {"match_name", "set_ip", "create"}
  BY DEF Labels, InTask
<1>6. snapshots' \subseteq Snapshot
  BY <1>1, <1>3, <1>4
<1> HIDE DEF own, f, a
<1> QED
  BY <1>1, <1>2, <1>4, <1>5, <1>6, BodyTyped

-----------------------------------------------------------------------------
(* Writing one run's list of tasks keeps the lists of the others.          *)
LEMMA TasksTyped ==
    ASSUME TypeOK, NEW r \in 1..Len(runs), NEW s \in Seq(Task), Len(s) > 0,
           tasks' = [tasks EXCEPT ![r] = s]
    PROVE  /\ tasks' \in Seq(Seq(Task)) /\ Len(tasks') = Len(runs)
           /\ tasks'[r] = s
           /\ \A q \in 1..Len(runs) : Len(tasks[q]) > 0 => Len(tasks'[q]) > 0
<1>1. tasks \in Seq(Seq(Task)) /\ Len(tasks) = Len(runs)
  BY DEF TypeOK
<1>2. /\ tasks' \in Seq(Seq(Task)) /\ Len(tasks') = Len(tasks)
      /\ \A q \in 1..Len(tasks) : tasks'[q] = IF q = r THEN s ELSE tasks[q]
  BY <1>1, ExceptSeq
<1> QED
  BY <1>1, <1>2

(* The exception that leaves the loop.                                     *)
LEMMA BreakTyped ==
    ASSUME TypeOK, NEW p \in Procs, LoopRaises(p)
    PROVE  TypeOK'
<1> DEFINE m == [mem[p] EXCEPT !.broken = TRUE, !.scan = {}, !.rows = {},
                               !.hand = 0, !.at = NoIp, !.outcome = "success"]
<1>1. /\ mem[p] \in Memory /\ Go(p, "finish", m) /\ UNCHANGED db
      /\ pc[p] \notin {"idle", "continue"}
  BY DEF TypeOK, LoopRaises, Break
<1>2. m \in Memory
  BY <1>1 DEF Memory
<1>3. m.run = mem[p].run
  BY <1>1 DEF Memory
<1>4. "finish" \in Labels /\ "finish" \notin InTask
  BY DEF Labels, InTask
<1> HIDE DEF m
<1> QED
  BY <1>1, <1>2, <1>3, <1>4, QuietTyped

LEMMA NextAddressTyped ==
    ASSUME TypeOK, NEW p \in Procs, NextAddress(p)
    PROVE  TypeOK'
<1>1. PICK t \in mem[p].scan :
         /\ tasks' = [tasks EXCEPT ![mem[p].run] = Append(@, NewTask(0))]
         /\ Go(p, "snmp", [mem[p] EXCEPT !.scan = @ \ {t}, !.at = t[2],
                                         !.outcome = "success"])
  BY DEF NextAddress
<1> DEFINE r == mem[p].run
           s == Append(tasks[r], NewTask(0))
           m == [mem[p] EXCEPT !.scan = @ \ {t}, !.at = t[2], !.outcome = "success"]
<1>2. /\ pc[p] = "next" /\ pc[p] \notin {"idle", "continue"}
      /\ UNCHANGED <<devices, nextPk, runs, snapshots>>
  BY DEF NextAddress
<1>3. /\ mem[p] \in Memory /\ r \in 1..Len(runs) /\ tasks[r] \in Seq(Task)
      /\ runs \in Seq(Run) /\ Len(runs) \in Nat /\ Len(tasks) = Len(runs)
  BY <1>2, InRun
<1>4. t[2] \in Ips /\ mem[p].scan \in SUBSET (Subnets \X Ips)
  BY <1>3 DEF Memory
<1>5. m \in Memory /\ m.run = r /\ m.at \in Ips
  <2>1. mem[p].scan \ {t} \in SUBSET (Subnets \X Ips)
    BY <1>4
  <2>2. m \in Memory
    BY <1>3, <1>4, <2>1 DEF Memory
  <2>3. m.run = r /\ m.at = t[2]
    BY <1>3 DEF Memory
  <2> QED
    BY <1>4, <2>2, <2>3
<1>6. NewTask(0) \in Task
  BY DEF NewTask, Task
<1>7. s \in Seq(Task) /\ Len(s) > 0
  BY <1>3, <1>6
<1>8. tasks' = [tasks EXCEPT ![r] = s]
  BY <1>1
<1>9. Go(p, "snmp", m) /\ "snmp" \in Labels
  BY <1>1 DEF Labels, InTask
<1> HIDE DEF m, s
<1>10. /\ tasks' \in Seq(Seq(Task)) /\ Len(tasks') = Len(runs) /\ tasks'[r] = s
       /\ \A q \in 1..Len(runs) : Len(tasks[q]) > 0 => Len(tasks'[q]) > 0
  BY <1>3, <1>7, <1>8, TasksTyped
<1>11. /\ devices \subseteq Device /\ nextPk \in Nat \ {0} /\ \A d \in devices : d.pk < nextPk
       /\ snapshots \subseteq Snapshot
  BY DEF TypeOK
<1>12. /\ runs' \in Seq(Run) /\ Len(runs') >= Len(runs) /\ Len(tasks') = Len(runs')
       /\ m.run \in 0..Len(runs') /\ m.run # 0 /\ Len(tasks'[m.run]) > 0
  BY <1>2, <1>3, <1>5, <1>7, <1>10
<1> QED
  BY <1>2, <1>5, <1>9, <1>10, <1>11, <1>12, StepTyped

LEMMA NextDeviceTyped ==
    ASSUME TypeOK, NEW p \in Procs, NextDevice(p)
    PROVE  TypeOK'
<1>1. /\ pc[p] = "next" /\ pc[p] \notin {"idle", "continue"}
      /\ UNCHANGED <<devices, nextPk, runs, snapshots>>
  BY DEF NextDevice
<1>2. PICK d \in mem[p].rows :
        /\ tasks' = [tasks EXCEPT ![mem[p].run] = Append(@, NewTask(d.pk))]
        /\ Go(p, IF d.enabled THEN "ssh" ELSE "save",
                 [mem[p] EXCEPT !.rows = @ \ {d}, !.hand = d.pk,
                                !.outcome = IF d.enabled THEN "success" ELSE "skipped"])
  BY DEF NextDevice
<1> DEFINE r == mem[p].run
           s == Append(tasks[r], NewTask(d.pk))
           o == IF d.enabled THEN "success" ELSE "skipped"
           next == IF d.enabled THEN "ssh" ELSE "save"
           left == mem[p].rows \ {d}
           m == [mem[p] EXCEPT !.rows = left, !.hand = d.pk, !.outcome = o]
<1>3. /\ mem[p] \in Memory /\ r \in 1..Len(runs) /\ tasks[r] \in Seq(Task)
      /\ runs \in Seq(Run) /\ Len(runs) \in Nat /\ Len(tasks) = Len(runs)
      /\ devices \subseteq Device /\ nextPk \in Nat \ {0} /\ \A e \in devices : e.pk < nextPk
      /\ snapshots \subseteq Snapshot
  BY <1>1, InRun
<1>4. mem[p].rows \in SUBSET [pk : Nat, enabled : BOOLEAN]
  BY <1>3 DEF Memory
<1>5. /\ d.pk \in Nat /\ left \in SUBSET [pk : Nat, enabled : BOOLEAN]
      /\ o \in {"success", "skipped"}
  BY <1>4
<1>6. NewTask(d.pk) \in Task
  BY <1>5 DEF NewTask, Task
<1>7. s \in Seq(Task) /\ Len(s) > 0
  BY <1>3, <1>6
<1>8. tasks' = [tasks EXCEPT ![r] = s] /\ Go(p, next, m)
  BY <1>2
<1>9. next \in Labels /\ next \notin {"snmp", "match_name", "set_ip", "create"}
      /\ next \notin {"idle", "continue"}
  BY DEF Labels, InTask
<1> HIDE DEF s, o, next, left
<1>10. m \in Memory
  BY <1>3, <1>5 DEF Memory
<1>11. m.run = r
  BY <1>3 DEF Memory
<1> HIDE DEF m
<1>12. /\ tasks' \in Seq(Seq(Task)) /\ Len(tasks') = Len(runs) /\ tasks'[r] = s
       /\ \A q \in 1..Len(runs) : Len(tasks[q]) > 0 => Len(tasks'[q]) > 0
  BY <1>3, <1>7, <1>8, TasksTyped
<1>13. /\ runs' \in Seq(Run) /\ Len(runs') >= Len(runs) /\ Len(tasks') = Len(runs')
       /\ m.run \in 0..Len(runs') /\ m.run # 0 /\ Len(tasks'[m.run]) > 0
  BY <1>1, <1>3, <1>7, <1>11, <1>12
<1> QED
  BY <1>1, <1>3, <1>8, <1>9, <1>10, <1>12, <1>13, StepTyped

LEMMA SaveTaskTyped ==
    ASSUME TypeOK, NEW p \in Procs, SaveTask(p)
    PROVE  TypeOK'
<1> DEFINE r == mem[p].run
           t == [status |-> mem[p].outcome, device |-> Linked(p)]
           s == [tasks[r] EXCEPT ![Len(tasks[r])] = t]
           m == [mem[p] EXCEPT !.hand = 0, !.at = NoIp, !.outcome = "success"]
<1>1. /\ pc[p] = "save" /\ pc[p] \notin {"idle", "continue"} /\ pc[p] \in InTask
      /\ UNCHANGED <<devices, nextPk, runs, snapshots>>
      /\ tasks' = [tasks EXCEPT ![r] = s] /\ Go(p, "next", m)
  BY DEF SaveTask, InTask
<1>2. /\ mem[p] \in Memory /\ r \in 1..Len(runs) /\ tasks[r] \in Seq(Task)
      /\ runs \in Seq(Run) /\ Len(runs) \in Nat /\ Len(tasks) = Len(runs)
      /\ devices \subseteq Device /\ nextPk \in Nat \ {0} /\ \A e \in devices : e.pk < nextPk
      /\ snapshots \subseteq Snapshot
  BY <1>1, InRun
<1>3. Len(tasks[r]) > 0
  BY <1>1 DEF TypeOK, Placed
<1>4. t \in Task
  BY <1>2 DEF Linked, Task, Memory
<1>5. m \in Memory /\ m.run = r
  <2>1. m \in Memory
    BY <1>2 DEF Memory
  <2>2. m.run = r
    BY <1>2 DEF Memory
  <2> QED
    BY <2>1, <2>2
<1>6. "next" \in Labels /\ "next" \notin InTask
  BY DEF Labels, InTask
<1> HIDE DEF t, m
<1>7. s \in Seq(Task) /\ Len(s) = Len(tasks[r])
  BY <1>2, <1>3, <1>4, ExceptSeq
<1> HIDE DEF s
<1>8. /\ tasks' \in Seq(Seq(Task)) /\ Len(tasks') = Len(runs) /\ tasks'[r] = s
      /\ \A q \in 1..Len(runs) : Len(tasks[q]) > 0 => Len(tasks'[q]) > 0
  BY <1>1, <1>2, <1>3, <1>7, TasksTyped
<1>9. /\ runs' \in Seq(Run) /\ Len(runs') >= Len(runs) /\ Len(tasks') = Len(runs')
      /\ m.run \in 0..Len(runs') /\ m.run # 0
  BY <1>1, <1>2, <1>5, <1>8
<1> QED
  BY <1>1, <1>2, <1>5, <1>6, <1>8, <1>9, StepTyped

LEMMA FinishTyped ==
    ASSUME TypeOK, NEW p \in Procs, FinishRun(p)
    PROVE  TypeOK'
<1> DEFINE r == mem[p].run
           run == [work |-> runs[r].work, status |-> Verdict(mem[p]), done |-> mem[p].done,
                   analyzed |-> mem[p].analyzed, failed |-> mem[p].failed,
                   broken |-> mem[p].broken]
           m == IF mem[p].then = {} THEN Idle ELSE [Idle EXCEPT !.then = mem[p].then]
           next == IF mem[p].then = {} THEN "idle" ELSE "continue"
<1>1. /\ pc[p] \notin {"idle", "continue"}
      /\ UNCHANGED <<devices, nextPk, tasks, snapshots>>
      /\ runs' = [runs EXCEPT ![r] = run] /\ Go(p, next, m)
  BY DEF FinishRun
<1>2. /\ mem[p] \in Memory /\ r \in 1..Len(runs)
      /\ runs \in Seq(Run) /\ Len(runs) \in Nat /\ Len(tasks) = Len(runs)
      /\ devices \subseteq Device /\ nextPk \in Nat \ {0} /\ \A e \in devices : e.pk < nextPk
      /\ snapshots \subseteq Snapshot
  BY <1>1, InRun
<1>3. run \in Run
  <2>1. runs[r] \in Run
    BY <1>2, ElementOfSeq
  <2>2. Verdict(mem[p]) \in {"success", "partial", "failed"}
    BY DEF Verdict
  <2> QED
    BY <1>2, <2>1, <2>2 DEF Run, Memory
<1>4. m \in Memory /\ m.run = 0
  <2>1. mem[p].then \in SUBSET Works
    BY <1>2 DEF Memory
  <2> QED
    BY <2>1, IdleTyped DEF Memory, Idle
<1>5. next \in {"idle", "continue"} /\ {"idle", "continue"} \subseteq Labels
      /\ {"idle", "continue"} \cap InTask = {}
  BY DEF Labels, InTask
<1> HIDE DEF run, m, next
<1>6. runs' \in Seq(Run) /\ Len(runs') = Len(runs)
  BY <1>1, <1>2, <1>3, ExceptSeq
<1>7. tasks' \in Seq(Seq(Task))
  BY <1>1 DEF TypeOK
<1>8. /\ \A q \in 1..Len(runs) : Len(tasks[q]) > 0 => Len(tasks'[q]) > 0
      /\ Len(tasks') = Len(runs') /\ Len(runs') >= Len(runs) /\ m.run \in 0..Len(runs')
  BY <1>1, <1>2, <1>4, <1>6
<1>9. next \in Labels /\ next \notin {"snmp", "match_name", "set_ip", "create"} /\ next \notin InTask
  BY <1>5
<1> QED
  BY <1>1, <1>2, <1>4, <1>5, <1>6, <1>7, <1>8, <1>9, StepTyped

LEMMA CrashTyped ==
    ASSUME TypeOK, NEW p \in Procs, Crash(p)
    PROVE  TypeOK'
<1>1. Go(p, "idle", Idle) /\ UNCHANGED <<devices, nextPk, runs, tasks, snapshots>>
  BY DEF Crash, db
<1>2. Idle \in Memory /\ Idle.run = 0 /\ "idle" \in Labels /\ "idle" \notin InTask
  BY IdleTyped DEF Idle, Labels, InTask
<1>3. /\ devices \subseteq Device /\ nextPk \in Nat \ {0} /\ \A e \in devices : e.pk < nextPk
      /\ snapshots \subseteq Snapshot /\ runs \in Seq(Run) /\ tasks \in Seq(Seq(Task))
      /\ Len(tasks) = Len(runs) /\ Len(runs) \in Nat
  BY DEF TypeOK
<1> HIDE DEF Idle
<1>4. Idle.run \in 0..Len(runs')
  BY <1>1, <1>2, <1>3
<1> QED
  BY <1>1, <1>2, <1>3, <1>4, StepTyped

(* The three ways a run begins.                                            *)
LEMMA StartTyped ==
    ASSUME TypeOK, NEW p \in Procs, Start(p) \/ ContinueCollection(p)
    PROVE  TypeOK'
<1> DEFINE discovery(then) == [Idle EXCEPT !.then = then, !.scan = Scan]
           collection(w, only) == [Idle EXCEPT !.work = w, !.only = only]
<1>1. ASSUME NEW then \in SUBSET Works, CreateRun(p, discovery(then)) PROVE TypeOK'
  <2>1. Scan \in SUBSET (Subnets \X Ips)
    BY CollectorAssumption DEF Scan
  <2>2. discovery(then) \in Memory
    BY <2>1, IdleTyped DEF Memory
  <2> QED
    BY <1>1, <2>2, CreateRunTyped
<1>2. ASSUME NEW w \in Works, NEW only \in Nat, CreateRun(p, collection(w, only)) PROVE TypeOK'
  <2>1. collection(w, only) \in Memory
    BY IdleTyped DEF Memory
  <2> QED
    BY <1>2, <2>1, CreateRunTyped
<1>3. ASSUME NEW then \in SUBSET Works, NEW allow \in BOOLEAN, StartDiscovery(p, then, allow)
      PROVE  TypeOK'
  BY <1>1, <1>3 DEF StartDiscovery
<1>4. ASSUME NEW w \in Works, NEW only \in Pks \cup {0}, StartCollection(p, w, only)
      PROVE  TypeOK'
  <2>1. only \in Nat
    BY DEF Pks, TypeOK, Device
  <2> QED
    BY <1>2, <1>4, <2>1 DEF StartCollection
<1>5. CASE ContinueCollection(p)
  <2>1. PICK w \in mem[p].then : CreateRun(p, [Idle EXCEPT !.work = w])
    BY <1>5 DEF ContinueCollection
  <2>2. w \in Works
    BY DEF TypeOK, Memory
  <2>3. [Idle EXCEPT !.work = w] \in Memory
    BY <2>2, IdleTyped DEF Memory
  <2> QED
    BY <2>1, <2>3, CreateRunTyped
<1>6. CASE Start(p)
  <2>1. \A w \in Works : {w} \in SUBSET Works
    OBVIOUS
  <2> QED
    BY <1>3, <1>4, <1>6, <2>1 DEF Start
<1> QED
  BY <1>5, <1>6

LEMMA OperatorTyped ==
    ASSUME TypeOK, Operator
    PROVE  TypeOK'
<1>1. /\ devices \subseteq Device /\ nextPk \in Nat \ {0} /\ \A e \in devices : e.pk < nextPk
      /\ snapshots \subseteq Snapshot /\ runs \in Seq(Run) /\ tasks \in Seq(Seq(Task))
      /\ Len(tasks) = Len(runs) /\ Len(runs) \in Nat
      /\ pc \in [Procs -> Labels] /\ mem \in [Procs -> Memory]
      /\ \A p \in Procs : Placed(p)
  BY DEF TypeOK
<1>2. UNCHANGED <<runs, pc, mem>>
  BY DEF Operator, EnterDevice, DeleteDevice, EditDevice
<1>3. ASSUME devices' \subseteq Device, nextPk' \in Nat \ {0}, \A e \in devices' : e.pk < nextPk',
             snapshots' \subseteq Snapshot, tasks' \in Seq(Seq(Task)), Len(tasks') = Len(tasks),
             \A r \in 1..Len(runs) : Len(tasks'[r]) = Len(tasks[r])
      PROVE  TypeOK'
  <2>1. ASSUME NEW p \in Procs PROVE Placed(p)'
    <3>1. pc'[p] = pc[p] /\ mem'[p] = mem[p] /\ runs' = runs
      BY <1>2
    <3>2. \A r \in 1..Len(runs) : Len(tasks[r]) > 0 => Len(tasks'[r]) > 0
      BY <1>3
    <3>3. Len(runs') \in Nat /\ Len(runs') >= Len(runs)
      BY <1>1, <3>1
    <3> QED
      BY <3>1, <3>2, <3>3, OthersPlaced
  <2> QED
    BY <1>1, <1>2, <1>3, <2>1 DEF TypeOK
<1>4. CASE \E n \in Manual : EnterDevice(n)
  <2>1. PICK n \in Manual : EnterDevice(n)
    BY <1>4
  <2> DEFINE e == [pk |-> nextPk, name |-> n, ip |-> NoIp, enabled |-> TRUE,
                 edited |-> FALSE]
  <2>2. e \in Device /\ e.pk = nextPk
    BY <1>1 DEF Device, Names
  <2>3. devices' = devices \cup {e} /\ nextPk' = nextPk + 1 /\ UNCHANGED <<tasks, snapshots>>
    BY <2>1 DEF EnterDevice
  <2> HIDE DEF e
  <2>4. \A d \in devices : d.pk \in Nat
    BY <1>1 DEF Device
  <2> QED
    BY <1>1, <1>3, <2>2, <2>3, <2>4
<1>5. ASSUME NEW d \in devices, NEW form \in Forms, EditDevice(d, form) PROVE TypeOK'
  <2> DEFINE edited == d.edited \/ form.name # d.name \/ form.ip \notin {d.ip, NoIp}
             e == [d EXCEPT !.name = form.name, !.ip = form.ip, !.enabled = form.enabled,
                            !.edited = edited]
  <2>0. edited \in BOOLEAN
    OBVIOUS
  <2>2. devices' = (devices \ {d}) \cup {e} /\ UNCHANGED <<nextPk, tasks, snapshots>>
    BY <1>5 DEF EditDevice
  <2> HIDE DEF edited
  <2>1. e \in Device /\ e.pk = d.pk
    BY <1>1, <2>0, CollectorAssumption DEF Device, Names
  <2> HIDE DEF e
  <2> QED
    BY <1>1, <1>3, <2>1, <2>2
<1>6. ASSUME NEW d \in devices, DeleteDevice(d) PROVE TypeOK'
  <2> DEFINE list(r) == [i \in DOMAIN tasks[r] |-> Orphaned(tasks[r][i], d)]
  <2>1. /\ devices' \subseteq devices /\ UNCHANGED nextPk
        /\ snapshots' = {Orphaned(s, d) : s \in snapshots}
        /\ tasks' = [r \in DOMAIN tasks |-> list(r)]
    BY <1>6 DEF DeleteDevice
  <2>2. /\ \A t \in Task : Orphaned(t, d) \in Task
        /\ \A s \in Snapshot : Orphaned(s, d) \in Snapshot
    BY DEF Orphaned, Task, Snapshot
  <2>3. ASSUME NEW r \in 1..Len(tasks) PROVE list(r) \in Seq(Task) /\ Len(list(r)) = Len(tasks[r])
    <3>1. tasks[r] \in Seq(Task)
      BY <1>1, ElementOfSeq
    <3>2. /\ Len(tasks[r]) \in Nat /\ DOMAIN tasks[r] = 1..Len(tasks[r])
          /\ \A i \in 1..Len(tasks[r]) : tasks[r][i] \in Task
      BY <3>1
    <3>3. list(r) \in [1..Len(tasks[r]) -> Task]
      BY <2>2, <3>2
    <3> QED
      BY <3>2, <3>3, SeqDef, LenProperties
  <2>4. DOMAIN tasks = 1..Len(tasks) /\ Len(tasks) \in Nat
    BY <1>1
  <2> HIDE DEF list
  <2>5. tasks' \in [1..Len(tasks) -> Seq(Task)]
    BY <2>1, <2>3, <2>4
  <2>6. tasks' \in Seq(Seq(Task)) /\ Len(tasks') = Len(tasks)
    BY <2>4, <2>5, SeqDef, LenProperties
  <2>7. \A r \in 1..Len(runs) : Len(tasks'[r]) = Len(tasks[r])
    BY <1>1, <2>1, <2>3, <2>4
  <2>8. snapshots' \subseteq Snapshot
    BY <1>1, <2>1, <2>2
  <2> QED
    BY <1>1, <1>3, <2>1, <2>6, <2>7, <2>8
<1> QED
  BY <1>4, <1>5, <1>6 DEF Operator

LEMMA InitTyped == Init => TypeOK
<1> SUFFICES ASSUME Init PROVE TypeOK
  OBVIOUS
<1>1. Idle \in Memory /\ Idle.run = 0
  BY IdleTyped DEF Idle
<1>2. /\ runs = <<>> /\ tasks = <<>>
      /\ pc = [p \in Procs |-> "idle"] /\ mem = [p \in Procs |-> Idle]
  BY DEF Init
<1> HIDE DEF Idle
<1>3. \A p \in Procs : Placed(p)
  BY <1>1, <1>2 DEF Placed, InTask
<1>4. pc \in [Procs -> Labels] /\ mem \in [Procs -> Memory]
  BY <1>1, <1>2 DEF Labels
<1> QED
  BY <1>2, <1>3, <1>4 DEF Init, TypeOK

LEMMA NextTyped == TypeOK /\ [Next]_vars => TypeOK'
<1> SUFFICES ASSUME TypeOK, [Next]_vars PROVE TypeOK'
  OBVIOUS
<1>1. CASE Operator
  BY <1>1, OperatorTyped
<1>2. ASSUME NEW p \in Procs, Start(p) PROVE TypeOK'
  BY <1>2, StartTyped
<1>3. ASSUME NEW p \in Procs, Crash(p) PROVE TypeOK'
  BY <1>3, CrashTyped
<1>4. ASSUME NEW p \in Procs, Step(p) PROVE TypeOK'
  BY <1>4, StartTyped, QueryTyped, NextAddressTyped, NextDeviceTyped, MatchTyped,
     TouchTyped, SetIpTyped, CreateDeviceTyped, StoreSnapshotTyped, AnalyzeTyped,
     BreakTyped, SaveTaskTyped, FinishTyped DEF Step
<1>5. CASE UNCHANGED vars
  BY <1>5 DEF TypeOK, Placed, vars, db
<1> QED
  BY <1>1, <1>2, <1>3, <1>4, <1>5 DEF Next

(* The type invariant: a process in a loop knows a run that exists, and    *)
(* inside the body that run has a task.                                    *)
THEOREM Typing == Spec => []TypeOK
  BY InitTyped, NextTyped, PTL DEF Spec

-----------------------------------------------------------------------------
(* Why no two unedited devices share an address.  One with an address is   *)
(* named after it: by the sysName that its address reports, or else by the *)
(* address itself.  Names are unique, so these addresses are.  The read in *)
(* MatchName may be old when SetIp writes, but the row in hand, if it still *)
(* exists, has kept its name or was renamed and thereby edited.            *)
Unique == \A c, d \in devices : c.pk = d.pk \/ c.name = d.name => c = d
Named  == \A d \in devices : d.ip # NoIp /\ ~d.edited => d.name = NameOf(d.ip)
Handed(p) ==
    /\ pc[p] \in {"match_name", "set_ip"} => SysName[mem[p].at] # NoName
    /\ pc[p] = "set_ip" => /\ mem[p].hand < nextPk
                           /\ \A d \in devices : d.pk = mem[p].hand /\ ~d.edited =>
                                                    d.name = SysName[mem[p].at]
AddressInv == TypeOK /\ Unique /\ Named /\ \A p \in Procs : Handed(p)

(* The invariant implies the property.                                     *)
LEMMA AddressInvImplies == AddressInv => OneDevicePerIp
  BY DEF AddressInv, Unique, Named, OneDevicePerIp

(* What a process holds in its hand stays true while rows that are not     *)
(* edited keep their names and new rows get new keys.                      *)
LEMMA OthersHanded ==
    ASSUME AddressInv, NEW q \in Procs, pc'[q] = pc[q], mem'[q] = mem[q],
           nextPk' \in Nat, nextPk' >= nextPk,
           \A e \in devices' : e.pk < nextPk /\ ~e.edited =>
               \E d \in devices : d.pk = e.pk /\ d.name = e.name /\ ~d.edited
    PROVE  Handed(q)'
<1>1. Handed(q) /\ mem[q].hand \in Nat /\ nextPk \in Nat
  BY DEF AddressInv, TypeOK, Memory
<1>2. pc'[q] \in {"match_name", "set_ip"} => SysName[mem'[q].at] # NoName
  BY <1>1 DEF Handed
<1>3. ASSUME pc'[q] = "set_ip" PROVE mem'[q].hand < nextPk'
  BY <1>1, <1>3 DEF Handed
<1>4. ASSUME pc'[q] = "set_ip", NEW e \in devices', e.pk = mem'[q].hand, ~e.edited
      PROVE  e.name = SysName[mem'[q].at]
  <2>1. e.pk < nextPk
    BY <1>1, <1>4 DEF Handed
  <2>2. PICK d \in devices : d.pk = e.pk /\ d.name = e.name /\ ~d.edited
    BY <1>4, <2>1
  <2> QED
    BY <1>1, <1>4, <2>2 DEF Handed
<1> QED
  BY <1>2, <1>3, <1>4 DEF Handed

(* Steps that leave the devices alone and go on to neither of the labels   *)
(* that carry a promise.                                                   *)
Aside(p) == /\ UNCHANGED <<devices, nextPk>>
            /\ pc'[p] \notin {"match_name", "set_ip"}
            /\ \A q \in Procs \ {p} : pc'[q] = pc[q] /\ mem'[q] = mem[q]

LEMMA AsideKeeps ==
    ASSUME AddressInv, TypeOK', NEW p \in Procs, Aside(p)
    PROVE  AddressInv'
<1>1. Unique' /\ Named'
  BY DEF AddressInv, Unique, Named, Aside
<1>2. Handed(p)'
  BY DEF Aside, Handed
<1>3. nextPk \in Nat
  BY DEF AddressInv, TypeOK
<1>4. \A q \in Procs \ {p} : Handed(q)'
  BY <1>3, OthersHanded DEF Aside
<1> QED
  BY <1>1, <1>2, <1>4 DEF AddressInv

LEMMA GoAside ==
    ASSUME TypeOK, NEW p \in Procs, NEW next, NEW m, Go(p, next, m),
           next \notin {"match_name", "set_ip"}, UNCHANGED <<devices, nextPk>>
    PROVE  Aside(p)
  BY DEF Aside, Go, TypeOK

LEMMA FailAside ==
    ASSUME TypeOK, NEW p \in Procs, Fail(p), UNCHANGED <<devices, nextPk>>
    PROVE  Aside(p)
  BY GoAside DEF Fail

LEMMA CreateRunAside ==
    ASSUME TypeOK, NEW p \in Procs, NEW m, CreateRun(p, m)
    PROVE  Aside(p)
<1> DEFINE n == [m EXCEPT !.run = Len(runs) + 1]
           next == IF m.work = "discovery" THEN "next" ELSE "query"
<1>1. Go(p, next, n) /\ UNCHANGED <<devices, nextPk>>
  BY DEF CreateRun
<1>2. next \notin {"match_name", "set_ip"}
  OBVIOUS
<1> HIDE DEF n, next
<1> QED
  BY <1>1, <1>2, GoAside

(* The statements that are aside: all but the three of the match by name.  *)
LEMMA StepAside ==
    ASSUME TypeOK, NEW p \in Procs,
           \/ Start(p) \/ Crash(p)
           \/ ContinueCollection(p) \/ QueryDevices(p) \/ NextAddress(p) \/ NextDevice(p)
           \/ LoopRaises(p) \/ BodyFails(p) \/ TouchDiscovered(p) \/ StoreSnapshot(p) \/ TouchCollected(p)
           \/ Analyze(p) \/ SaveTask(p) \/ FinishRun(p)
    PROVE  Aside(p)
<1>1. CASE Start(p)
  BY <1>1, CreateRunAside DEF Start, StartDiscovery, StartCollection
<1>2. CASE Crash(p)
  BY <1>2, GoAside DEF Crash, db
<1>3. CASE ContinueCollection(p)
  BY <1>3, CreateRunAside DEF ContinueCollection
<1>4. CASE QueryDevices(p)
  BY <1>4, GoAside DEF QueryDevices, db
<1>5. CASE NextAddress(p)
  <2>1. PICK t \in mem[p].scan :
          Go(p, "snmp", [mem[p] EXCEPT !.scan = @ \ {t}, !.at = t[2], !.outcome = "success"])
    BY <1>5 DEF NextAddress
  <2> DEFINE m == [mem[p] EXCEPT !.scan = @ \ {t}, !.at = t[2], !.outcome = "success"]
  <2>2. Go(p, "snmp", m) /\ UNCHANGED <<devices, nextPk>>
    BY <1>5, <2>1 DEF NextAddress
  <2> HIDE DEF m
  <2> QED
    BY <2>2, GoAside
<1>6. CASE NextDevice(p)
  <2>1. PICK d \in mem[p].rows :
          Go(p, IF d.enabled THEN "ssh" ELSE "save",
             [mem[p] EXCEPT !.rows = @ \ {d}, !.hand = d.pk,
                            !.outcome = IF d.enabled THEN "success" ELSE "skipped"])
    BY <1>6 DEF NextDevice
  <2> DEFINE m == [mem[p] EXCEPT !.rows = @ \ {d}, !.hand = d.pk,
                                 !.outcome = IF d.enabled THEN "success" ELSE "skipped"]
             next == IF d.enabled THEN "ssh" ELSE "save"
  <2>2. Go(p, next, m) /\ next \notin {"match_name", "set_ip"}
        /\ UNCHANGED <<devices, nextPk>>
    BY <1>6, <2>1 DEF NextDevice
  <2> HIDE DEF m, next
  <2> QED
    BY <2>2, GoAside
<1>7. CASE LoopRaises(p)
  BY <1>7, GoAside DEF LoopRaises, Break, db
<1>14. CASE BodyFails(p)
  BY <1>14, FailAside DEF BodyFails, db
<1>8. CASE TouchDiscovered(p)
  BY <1>8, GoAside DEF TouchDiscovered, db
<1>9. CASE StoreSnapshot(p)
  BY <1>9, GoAside DEF StoreSnapshot
<1>10. CASE TouchCollected(p)
  BY <1>10, GoAside DEF TouchCollected, db
<1>11. CASE Analyze(p)
  BY <1>11, GoAside DEF Analyze
<1>12. CASE SaveTask(p)
  BY <1>12, GoAside DEF SaveTask
<1>13. CASE FinishRun(p)
  BY <1>13, GoAside DEF FinishRun
<1> QED
  BY <1>1, <1>2, <1>3, <1>4, <1>5, <1>6, <1>7, <1>8, <1>9, <1>10, <1>11, <1>12, <1>13,
     <1>14

LEMMA MatchKeeps ==
    ASSUME AddressInv, TypeOK', NEW p \in Procs, MatchIp(p) \/ MatchName(p)
    PROVE  AddressInv'
<1>1. TypeOK /\ UNCHANGED <<devices, nextPk>> /\ nextPk \in Nat
  BY DEF AddressInv, TypeOK, MatchIp, MatchName, db
<1>2. Unique' /\ Named'
  BY <1>1 DEF AddressInv, Unique, Named
<1>3. \A q \in Procs \ {p} : pc'[q] = pc[q] /\ mem'[q] = mem[q]
  BY <1>1 DEF TypeOK, MatchIp, MatchName, Go
<1>4. \A q \in Procs \ {p} : Handed(q)'
  BY <1>1, <1>3, OthersHanded
<1>5. Handed(p)'
  <2>1. CASE MatchIp(p)
    <3>1. \/ pc'[p] \notin {"match_name", "set_ip"}
          \/ /\ SysName[mem[p].at] # NoName
             /\ pc'[p] = "match_name" /\ mem'[p] = mem[p]
      BY <1>1, <2>1 DEF MatchIp, Go, TypeOK
    <3> QED
      BY <3>1 DEF Handed
  <2>2. CASE MatchName(p)
    <3>1. CASE pc'[p] \notin {"match_name", "set_ip"}
      BY <3>1 DEF Handed
    <3>2. CASE pc'[p] \in {"match_name", "set_ip"}
      <4>1. PICK d \in devices :
              /\ d.name = SysName[mem[p].at] /\ pc'[p] = "set_ip"
              /\ mem'[p] = [mem[p] EXCEPT !.hand = d.pk]
        BY <1>1, <2>2, <3>2 DEF MatchName, Go, TypeOK
      <4>2. mem[p] \in Memory /\ d.pk < nextPk /\ SysName[mem[p].at] # NoName
        BY <1>1, <2>2 DEF AddressInv, TypeOK, Handed, MatchName
      <4>3. mem'[p].at = mem[p].at /\ mem'[p].hand = d.pk
        BY <4>1, <4>2 DEF Memory
      <4>4. \A e \in devices : e.pk = d.pk => e = d
        BY DEF AddressInv, Unique
      <4> QED
        BY <1>1, <4>1, <4>2, <4>3, <4>4 DEF Handed
    <3> QED
      BY <3>1, <3>2
  <2> QED
    BY <2>1, <2>2
<1> QED
  BY <1>2, <1>4, <1>5 DEF AddressInv

LEMMA SetIpKeeps ==
    ASSUME AddressInv, TypeOK', NEW p \in Procs, SetIp(p)
    PROVE  AddressInv'
<1> DEFINE moved(d) == IF d.pk = mem[p].hand THEN [d EXCEPT !.ip = mem[p].at] ELSE d
<1>1. /\ TypeOK /\ UNCHANGED nextPk /\ nextPk \in Nat /\ mem[p] \in Memory
      /\ pc[p] = "set_ip" /\ devices \subseteq Device /\ mem[p].at \in Ips
  BY DEF AddressInv, TypeOK, SetIp, Placed
<1>2. devices' = {moved(d) : d \in devices} /\ Go(p, "touch", mem[p])
  BY DEF SetIp
<1>3. \A d \in devices : /\ moved(d).pk = d.pk /\ moved(d).name = d.name
                         /\ moved(d).edited = d.edited
  BY <1>1 DEF Device
<1>4. \A d \in devices : moved(d).ip = IF d.pk = mem[p].hand THEN mem[p].at ELSE d.ip
  BY <1>1 DEF Device
<1>5. SysName[mem[p].at] # NoName
      /\ \A d \in devices : d.pk = mem[p].hand /\ ~d.edited => d.name = SysName[mem[p].at]
  BY <1>1 DEF AddressInv, Handed
<1>6. pc'[p] = "touch" /\ \A q \in Procs \ {p} : pc'[q] = pc[q] /\ mem'[q] = mem[q]
  BY <1>1, <1>2 DEF Go, TypeOK
<1> HIDE DEF moved
<1>7. Unique'
  BY <1>2, <1>3 DEF AddressInv, Unique
<1>8. Named'
  BY <1>2, <1>3, <1>4, <1>5 DEF AddressInv, Named, NameOf
<1>9. \A q \in Procs \ {p} : Handed(q)'
  BY <1>1, <1>2, <1>3, <1>6, OthersHanded
<1>10. Handed(p)'
  BY <1>6 DEF Handed
<1> QED
  BY <1>7, <1>8, <1>9, <1>10 DEF AddressInv

LEMMA CreateDeviceKeeps ==
    ASSUME AddressInv, TypeOK', NEW p \in Procs, CreateDevice(p)
    PROVE  AddressInv'
<1> DEFINE e == [pk |-> nextPk, name |-> NameOf(mem[p].at), ip |-> mem[p].at,
                 enabled |-> TRUE, edited |-> FALSE]
<1>1. /\ TypeOK /\ nextPk \in Nat /\ mem[p] \in Memory
      /\ \A d \in devices : d.pk \in Nat /\ d.pk < nextPk
  BY DEF AddressInv, TypeOK, Device
<1>2. /\ \A d \in devices : d.name # NameOf(mem[p].at)
      /\ devices' = devices \cup {e} /\ nextPk' = nextPk + 1
      /\ Go(p, "touch", [mem[p] EXCEPT !.hand = nextPk])
  BY DEF CreateDevice
<1>3. e.pk = nextPk /\ e.name = NameOf(mem[p].at) /\ e.ip = mem[p].at
  OBVIOUS
<1>4. pc'[p] = "touch" /\ \A q \in Procs \ {p} : pc'[q] = pc[q] /\ mem'[q] = mem[q]
  BY <1>1, <1>2 DEF Go, TypeOK
<1> HIDE DEF e
<1>5. Unique'
  BY <1>1, <1>2, <1>3 DEF AddressInv, Unique
<1>6. Named'
  BY <1>2, <1>3 DEF AddressInv, Named
<1>7. \A q \in Procs \ {p} : Handed(q)'
  BY <1>1, <1>2, <1>3, <1>4, OthersHanded
<1>8. Handed(p)'
  BY <1>4 DEF Handed
<1> QED
  BY <1>5, <1>6, <1>7, <1>8 DEF AddressInv

LEMMA OperatorKeeps ==
    ASSUME AddressInv, TypeOK', Operator
    PROVE  AddressInv'
<1>1. /\ TypeOK /\ nextPk \in Nat /\ devices \subseteq Device /\ UNCHANGED <<pc, mem>>
      /\ \A d \in devices : d.pk \in Nat /\ d.pk < nextPk
  BY DEF AddressInv, TypeOK, Device, Operator, EnterDevice, DeleteDevice, EditDevice
<1>2. CASE \E n \in Manual : EnterDevice(n)
  <2>1. PICK n \in Manual : EnterDevice(n)
    BY <1>2
  <2> DEFINE e == [pk |-> nextPk, name |-> n, ip |-> NoIp, enabled |-> TRUE,
                 edited |-> FALSE]
  <2>2. e.pk = nextPk /\ e.name = n /\ e.ip = NoIp
    OBVIOUS
  <2>3. /\ devices' = devices \cup {e} /\ nextPk' = nextPk + 1
        /\ \A d \in devices : d.name # n
    BY <2>1 DEF EnterDevice
  <2> HIDE DEF e
  <2>4. Unique' /\ Named'
    BY <1>1, <2>2, <2>3 DEF AddressInv, Unique, Named
  <2>5. \A q \in Procs : Handed(q)'
    BY <1>1, <2>2, <2>3, OthersHanded
  <2> QED
    BY <2>4, <2>5 DEF AddressInv
<1>3. ASSUME NEW d \in devices, DeleteDevice(d) PROVE AddressInv'
  <2>1. devices' \subseteq devices /\ UNCHANGED nextPk
    BY <1>3 DEF DeleteDevice
  <2>2. Unique' /\ Named'
    BY <2>1 DEF AddressInv, Unique, Named
  <2>3. \A q \in Procs : Handed(q)'
    BY <1>1, <2>1, OthersHanded
  <2> QED
    BY <2>2, <2>3 DEF AddressInv
<1>4. ASSUME NEW d \in devices, NEW form \in Forms, EditDevice(d, form) PROVE AddressInv'
  <2> DEFINE edited == d.edited \/ form.name # d.name \/ form.ip \notin {d.ip, NoIp}
             e == [d EXCEPT !.name = form.name, !.ip = form.ip, !.enabled = form.enabled,
                            !.edited = edited]
  <2>1. /\ devices' = (devices \ {d}) \cup {e} /\ UNCHANGED nextPk
        /\ \A c \in devices \ {d} : c.name # form.name
    BY <1>4 DEF EditDevice
  <2>2. e.pk = d.pk /\ e.name = form.name /\ e.ip = form.ip /\ e.edited = edited
    BY <1>1 DEF Device
  <2>3. ~e.edited => ~d.edited /\ e.name = d.name /\ e.ip \in {d.ip, NoIp}
    BY <2>2
  <2> HIDE DEF e, edited
  <2>4. Unique'
    BY <2>1, <2>2 DEF AddressInv, Unique
  <2>5. Named'
    BY <2>1, <2>3 DEF AddressInv, Named
  <2>6. \A q \in Procs : Handed(q)'
    BY <1>1, <2>1, <2>2, <2>3, OthersHanded
  <2> QED
    BY <2>4, <2>5, <2>6 DEF AddressInv
<1> QED
  BY <1>2, <1>3, <1>4 DEF Operator

LEMMA AddressInit == Init => AddressInv
<1> SUFFICES ASSUME Init PROVE AddressInv
  OBVIOUS
<1>1. TypeOK
  BY InitTyped
<1>2. Unique /\ Named /\ \A p \in Procs : Handed(p)
  BY DEF Init, Unique, Named, Handed
<1> QED
  BY <1>1, <1>2 DEF AddressInv

LEMMA AddressStep == AddressInv /\ [Next]_vars => AddressInv'
<1> SUFFICES ASSUME AddressInv, [Next]_vars PROVE AddressInv'
  OBVIOUS
<1>1. TypeOK /\ TypeOK'
  BY NextTyped DEF AddressInv
<1>2. CASE Operator
  BY <1>1, <1>2, OperatorKeeps
<1>3. ASSUME NEW p \in Procs, Start(p) \/ Step(p) \/ Crash(p) PROVE AddressInv'
  BY <1>1, <1>3, StepAside, AsideKeeps, MatchKeeps, SetIpKeeps, CreateDeviceKeeps DEF Step
<1>4. CASE UNCHANGED vars
  BY <1>1, <1>4 DEF AddressInv, Unique, Named, Handed, vars, db
<1> QED
  BY <1>2, <1>3, <1>4 DEF Next

(* However discoveries interleave with each other and with operators who   *)
(* add, edit and delete devices, no two devices have one address, except   *)
(* with one that an operator renamed or typed the address into.            *)
THEOREM Addresses == Spec => []OneDevicePerIp
  BY AddressInit, AddressStep, AddressInvImplies, PTL DEF Spec
=============================================================================
