------------------------------ MODULE Collector ------------------------------
(***************************************************************************)
(* The collector (apps/collector/services.py): discovery of devices by     *)
(* SNMP, collection of their configurations by SSH, and the two in a row   *)
(* (run_full_collector).  Each process is a management command; several    *)
(* may run at once, from cron or by hand, on one database.                 *)
(*                                                                         *)
(* Nothing here is a transaction: every action that touches the database   *)
(* is one autocommitted statement, which the database may also refuse (a   *)
(* row that is gone, a name that is taken, a lost connection), and what a  *)
(* run counts lives in the process until its last statement saves it.      *)
(* Meanwhile operators add, edit and delete devices, and a process may die. *)
(***************************************************************************)
EXTENDS Naturals, Sequences, FiniteSets

CONSTANTS Procs,      \* processes running a collector command
          Subnets,    \* the subnets of the profile
          Large,      \* those with a prefix shorter than /24
          Hosts,      \* Hosts[s]: the addresses of subnet s
          Ips,        \* addresses
          SysName,    \* SysName[ip]: the sysName its device reports
          NoName,     \* the empty sysName
          NoIp,       \* a device without an address
          Manual,     \* names of devices operators enter themselves
          Forms,      \* what they save in the form of a device
          MaxRuns,    \* bound: CollectorRun rows
          MaxDevices  \* bound: Device rows ever created

ASSUME CollectorAssumption ==
    /\ Large \subseteq Subnets
    /\ Hosts \in [Subnets -> SUBSET Ips]
    /\ DOMAIN SysName = Ips
    /\ NoIp \notin Ips
    /\ \A i \in Ips : SysName[i] \notin Ips
    /\ MaxRuns \in Nat /\ MaxDevices \in Nat
    /\ Manual \cap Ips = {} /\ NoName \notin Manual
    /\ \A f \in Forms : f.ip \in Ips \cup {NoIp} /\ f.enabled \in BOOLEAN

\* sys_name or ip: the name a discovered device is created with.
NameOf(i) == IF SysName[i] = NoName THEN i ELSE SysName[i]
Names     == {NameOf(i) : i \in Ips} \cup Manual \cup {f.name : f \in Forms}

VARIABLES devices,    \* the Device rows; "edited" remembers that an operator
                      \* renamed one or typed an address into it
          nextPk,     \* the next Device key
          runs,       \* the CollectorRun rows, in order of creation
          tasks,      \* tasks[r]: the CollectorTask rows of run r, in order
          snapshots,  \* the ConfigSnapshot rows the collector stored
          pc,         \* pc[p]: what p does next
          mem         \* mem[p]: what p keeps in memory

db   == <<devices, nextPk, runs, tasks, snapshots>>
vars == <<db, pc, mem>>

Works == {"discovery", "collection", "collect_analyze"}

\* scan and rows: the addresses or device rows the loop still has to visit;
\* at and hand: the address and the key of the device it is at.  After a
\* discovery, run_full_collector starts the work in "then", if any.
Idle == [work |-> "discovery", then |-> {}, only |-> 0, run |-> 0,
         scan |-> {}, rows |-> {}, at |-> NoIp, hand |-> 0, outcome |-> "success",
         done |-> 0, analyzed |-> 0, failed |-> 0, broken |-> FALSE]

Pks       == {d.pk : d \in devices}
Exists(k) == k \in Pks
Enabled   == {d \in devices : d.enabled}

Init == /\ devices = {} /\ nextPk = 1
        /\ runs = <<>> /\ tasks = <<>> /\ snapshots = {}
        /\ pc = [p \in Procs |-> "idle"]
        /\ mem = [p \in Procs |-> Idle]

\* p goes on at "next" with the memory m.
Go(p, next, m) == pc' = [pc EXCEPT ![p] = next] /\ mem' = [mem EXCEPT ![p] = m]

-----------------------------------------------------------------------------
(* Bound: runs are started only while there is room for n more besides the *)
(* collections that discoveries still have to continue with.               *)
Room(n) == Len(runs) + Cardinality({p \in Procs : mem[p].then # {}}) + n <= MaxRuns

\* Faulty: the process forgets which run it created.
CreateRunForgotten(p, m) ==
    /\ runs' = Append(runs, [work |-> m.work, status |-> "running",
                             done |-> 0, analyzed |-> 0, failed |-> 0, broken |-> FALSE])
    /\ tasks' = Append(tasks, <<>>)
    /\ Go(p, IF m.work = "discovery" THEN "next" ELSE "query", m)
    /\ UNCHANGED <<devices, nextPk, snapshots>>

(* CollectorRun.objects.create(status=RUNNING).                            *)
CreateRun(p, m) ==
    /\ runs' = Append(runs, [work |-> m.work, status |-> "running",
                             done |-> 0, analyzed |-> 0, failed |-> 0, broken |-> FALSE])
    /\ tasks' = Append(tasks, <<>>)
    /\ Go(p, IF m.work = "discovery" THEN "next" ELSE "query",
             [m EXCEPT !.run = Len(runs) + 1])
    /\ UNCHANGED <<devices, nextPk, snapshots>>

(* expand_cidr, called without allow_large, raises for a large subnet and  *)
(* the loop goes on with the next one.                                     *)
Scan == UNION {{<<s, i>> : i \in Hosts[s]} : s \in Subnets \ Large}

(* run_discovery; a large subnet stops it unless it is allowed.            *)
StartDiscovery(p, then, allowLarge) ==
    /\ pc[p] = "idle"
    /\ Large = {} \/ allowLarge
    /\ Room(1 + Cardinality(then))
    /\ CreateRun(p, [Idle EXCEPT !.then = then, !.scan = Scan])

(* run_collection, of every enabled device or of one that was enabled when *)
(* the command looked it up (with a profile: the run needs one).           *)
StartCollection(p, work, only) ==
    /\ pc[p] = "idle"
    /\ Room(1)
    /\ only # 0 => \E d \in Enabled : d.pk = only
    /\ CreateRun(p, [Idle EXCEPT !.work = work, !.only = only])

(* The second half of run_full_collector.                                  *)
ContinueCollection(p) ==
    /\ pc[p] = "continue"
    /\ \E work \in mem[p].then : CreateRun(p, [Idle EXCEPT !.work = work])

(* _resolve_devices: the loop works on the rows as they were now.          *)
QueryDevices(p) ==
    /\ pc[p] = "query"
    /\ LET found == IF mem[p].only = 0 THEN Enabled
                    ELSE {d \in devices : d.pk = mem[p].only}
       IN  Go(p, "next", [mem[p] EXCEPT !.only = 0,
                 !.rows = {[pk |-> d.pk, enabled |-> d.enabled] : d \in found}])
    /\ UNCHANGED db

-----------------------------------------------------------------------------
NewTask(k) == [status |-> "pending", device |-> k]

\* Faulty: no outer finally.
BreakSilently(p) == Go(p, "idle", Idle)

(* The exception that leaves the loop: the run ends as FAILED.             *)
Break(p) == Go(p, "finish", [mem[p] EXCEPT !.broken = TRUE, !.scan = {}, !.rows = {},
                                           !.hand = 0, !.at = NoIp, !.outcome = "success"])

(* _create_task for the next address; the order of the scan is left open.  *)
NextAddress(p) ==
    /\ pc[p] = "next" /\ mem[p].work = "discovery"
    /\ \E t \in mem[p].scan :
         /\ tasks' = [tasks EXCEPT ![mem[p].run] = Append(@, NewTask(0))]
         /\ Go(p, "snmp", [mem[p] EXCEPT !.scan = @ \ {t}, !.at = t[2],
                                         !.outcome = "success"])
    /\ UNCHANGED <<devices, nextPk, runs, snapshots>>

(* _create_task for the next device; the foreign key to one deleted        *)
(* meanwhile is refused.                                                   *)
NextDevice(p) ==
    /\ pc[p] = "next" /\ mem[p].work # "discovery"
    /\ \E d \in mem[p].rows :
         /\ Exists(d.pk)
         /\ tasks' = [tasks EXCEPT ![mem[p].run] = Append(@, NewTask(d.pk))]
         /\ Go(p, IF d.enabled THEN "ssh" ELSE "save",
                  [mem[p] EXCEPT !.rows = @ \ {d}, !.hand = d.pk,
                                 !.outcome = IF d.enabled THEN "success" ELSE "skipped"])
    /\ UNCHANGED <<devices, nextPk, runs, snapshots>>

(* A statement of the loop outside the body's try is refused: the query of *)
(* the devices, _create_task, or task.save in the finally.                 *)
LoopRaises(p) ==
    /\ \/ pc[p] \in {"query", "save"}
       \/ pc[p] = "next" /\ (mem[p].scan # {} \/ mem[p].rows # {})
    /\ Break(p)
    /\ UNCHANGED db

Fail(p) == Go(p, "save", [mem[p] EXCEPT !.outcome = "failed", !.failed = @ + 1])

(* No answer, or the body's "except Exception" after a statement of it was *)
(* refused, at any of them: what was stored and counted before stays.      *)
BodyFails(p) ==
    /\ pc[p] \in {"snmp", "match_name", "set_ip", "create", "touch", "ssh", "touch_collected"}
    /\ Fail(p)
    /\ UNCHANGED db

-----------------------------------------------------------------------------
(* An answer to SNMP, and _get_or_create_device: by address,               *)
MatchIp(p) ==
    /\ pc[p] = "snmp"
    /\ LET found == {d \in devices : d.ip = mem[p].at}
       IN  \/ \E d \in found : Go(p, "touch", [mem[p] EXCEPT !.hand = d.pk])
           \/ /\ found = {}
              /\ Go(p, IF SysName[mem[p].at] = NoName THEN "create" ELSE "match_name",
                       mem[p])
    /\ UNCHANGED db

(* then by name,                                                           *)
MatchName(p) ==
    /\ pc[p] = "match_name"
    /\ LET found == {d \in devices : d.name = SysName[mem[p].at]}
       IN  \/ \E d \in found :
                Go(p, IF d.ip = NoIp THEN "set_ip" ELSE "touch",
                      [mem[p] EXCEPT !.hand = d.pk])
           \/ found = {} /\ Go(p, "create", mem[p])
    /\ UNCHANGED db

(* a known name without an address gets it: whatever it is by now is       *)
(* overwritten; save(update_fields) of a deleted row raises, here as below, *)
SetIp(p) ==
    /\ pc[p] = "set_ip"
    /\ Exists(mem[p].hand)
    /\ devices' = {IF d.pk = mem[p].hand THEN [d EXCEPT !.ip = mem[p].at] ELSE d :
                     d \in devices}
    /\ Go(p, "touch", mem[p])
    /\ UNCHANGED <<nextPk, runs, tasks, snapshots>>

\* Faulty: names are not unique in the database.
CreateDeviceTwice(p) ==
    /\ pc[p] = "create"
    /\ devices' = devices \cup {[pk |-> nextPk, name |-> NameOf(mem[p].at), ip |-> mem[p].at,
                                 enabled |-> TRUE, edited |-> FALSE]}
    /\ nextPk' = nextPk + 1
    /\ Go(p, "touch", [mem[p] EXCEPT !.hand = nextPk])
    /\ UNCHANGED <<runs, tasks, snapshots>>

(* and an unknown one is created, unless the unique name is taken by now.  *)
CreateDevice(p) ==
    /\ pc[p] = "create"
    /\ \A d \in devices : d.name # NameOf(mem[p].at)
    /\ devices' = devices \cup {[pk |-> nextPk, name |-> NameOf(mem[p].at), ip |-> mem[p].at,
                                 enabled |-> TRUE, edited |-> FALSE]}
    /\ nextPk' = nextPk + 1
    /\ Go(p, "touch", [mem[p] EXCEPT !.hand = nextPk])
    /\ UNCHANGED <<runs, tasks, snapshots>>

\* Faulty: the device is counted before it is saved.
TouchDiscoveredCounted(p) ==
    /\ pc[p] = "touch"
    /\ \/ Go(p, "save", [mem[p] EXCEPT !.done = @ + 1, !.failed = @ + 1, !.outcome = "failed"])
       \/ Exists(mem[p].hand) /\ Go(p, "save", [mem[p] EXCEPT !.done = @ + 1])
    /\ UNCHANGED db

(* save(update_fields=["last_discovered_at"]), before the count.           *)
TouchDiscovered(p) ==
    /\ pc[p] = "touch"
    /\ Exists(mem[p].hand)
    /\ Go(p, "save", [mem[p] EXCEPT !.done = @ + 1])
    /\ UNCHANGED db

-----------------------------------------------------------------------------
\* Faulty: an empty configuration is a success.
StoreSnapshotEmpty(p) ==
    /\ pc[p] = "ssh"
    /\ Go(p, "save", [mem[p] EXCEPT !.done = @ + 1])
    /\ UNCHANGED db

(* An answer to SSH: the configuration becomes a ConfigSnapshot.           *)
StoreSnapshot(p) ==
    /\ pc[p] = "ssh"
    /\ Exists(mem[p].hand)
    /\ snapshots' = snapshots \cup
         {[run |-> mem[p].run, task |-> Len(tasks[mem[p].run]),
           device |-> mem[p].hand, analysed |-> FALSE]}
    /\ Go(p, "touch_collected", [mem[p] EXCEPT !.done = @ + 1])
    /\ UNCHANGED <<devices, nextPk, runs, tasks>>

(* save(update_fields=["last_collected_at"]), after the count: when it is  *)
(* refused (BodyFails), the device counts as collected and as failed, its  *)
(* configuration stays and its task says failed.                           *)
TouchCollected(p) ==
    /\ pc[p] = "touch_collected"
    /\ Exists(mem[p].hand)
    /\ Go(p, IF mem[p].work = "collect_analyze" THEN "analyze" ELSE "save", mem[p])
    /\ UNCHANGED db

(* analyze_config_snapshot, all or nothing; it fails on a configuration it *)
(* cannot parse.  The task stays a success either way.                     *)
Analyze(p) ==
    /\ pc[p] = "analyze"
    /\ LET own == {s \in snapshots : s.run = mem[p].run /\ s.task = Len(tasks[s.run])}
       IN  \/ /\ Go(p, "save", [mem[p] EXCEPT !.failed = @ + 1])
              /\ UNCHANGED snapshots
           \/ /\ snapshots' = (snapshots \ own) \cup {[s EXCEPT !.analysed = TRUE] : s \in own}
              /\ Go(p, "save", [mem[p] EXCEPT !.analyzed = @ + 1])
    /\ UNCHANGED <<devices, nextPk, runs, tasks>>

-----------------------------------------------------------------------------
(* The device the task object refers to: a discovery sets it on success.   *)
Linked(p) == IF mem[p].work = "discovery" /\ mem[p].outcome = "failed" THEN 0
             ELSE mem[p].hand

(* task.save in the finally: a device deleted meanwhile is a foreign key   *)
(* error, and it leaves the loop (LoopRaises).                             *)
SaveTask(p) ==
    /\ pc[p] = "save"
    /\ Linked(p) = 0 \/ Exists(Linked(p))
    /\ tasks' = [tasks EXCEPT ![mem[p].run][Len(tasks[mem[p].run])] =
                   [status |-> mem[p].outcome, device |-> Linked(p)]]
    /\ Go(p, "next", [mem[p] EXCEPT !.hand = 0, !.at = NoIp, !.outcome = "success"])
    /\ UNCHANGED <<devices, nextPk, runs, snapshots>>

(* The status of a run whose loop ended, and of one whose loop broke.      *)
Verdict(m) == IF m.broken THEN "failed"
              ELSE IF m.failed > 0 /\ m.done > 0 THEN "partial"
              ELSE IF m.failed > 0 THEN "failed" ELSE "success"

\* Faulty: the first failure ends the loop.
FinishRunEarly(p) ==
    /\ \/ pc[p] = "finish"
       \/ pc[p] = "next" /\ (mem[p].scan \cup mem[p].rows = {} \/ mem[p].failed > 0)
    /\ runs' = [runs EXCEPT ![mem[p].run] =
                  [work |-> @.work, status |-> Verdict(mem[p]), done |-> mem[p].done,
                   analyzed |-> mem[p].analyzed, failed |-> mem[p].failed,
                   broken |-> mem[p].broken]]
    /\ IF mem[p].then = {} THEN Go(p, "idle", Idle)
                           ELSE Go(p, "continue", [Idle EXCEPT !.then = mem[p].then])
    /\ UNCHANGED <<devices, nextPk, tasks, snapshots>>

(* run.save in the outer finally.                                          *)
FinishRun(p) ==
    /\ \/ pc[p] = "finish"
       \/ pc[p] = "next" /\ mem[p].scan = {} /\ mem[p].rows = {}
    /\ runs' = [runs EXCEPT ![mem[p].run] =
                  [work |-> @.work, status |-> Verdict(mem[p]), done |-> mem[p].done,
                   analyzed |-> mem[p].analyzed, failed |-> mem[p].failed,
                   broken |-> mem[p].broken]]
    /\ IF mem[p].then = {} THEN Go(p, "idle", Idle)
                           ELSE Go(p, "continue", [Idle EXCEPT !.then = mem[p].then])
    /\ UNCHANGED <<devices, nextPk, tasks, snapshots>>

-----------------------------------------------------------------------------
(* The process is killed, or loses its database for good: then not even    *)
(* the save of the run succeeds.                                           *)
Crash(p) ==
    /\ pc[p] # "idle"
    /\ Go(p, "idle", Idle)
    /\ UNCHANGED db

(* new_analysis and the file commands: get_or_create by name, without an   *)
(* address.                                                                *)
EnterDevice(n) ==
    /\ \A d \in devices : d.name # n
    /\ devices' = devices \cup {[pk |-> nextPk, name |-> n, ip |-> NoIp,
                                 enabled |-> TRUE, edited |-> FALSE]}
    /\ nextPk' = nextPk + 1
    /\ UNCHANGED <<runs, tasks, snapshots, pc, mem>>

\* on_delete=SET_NULL: the row x when the device d is deleted.
Orphaned(x, d) == IF x.device = d.pk THEN [x EXCEPT !.device = 0] ELSE x

(* The admin's delete: snapshots and tasks lose their device (SET_NULL).   *)
(* The first guard is the bound: it leaves a key for every name that may   *)
(* still be created.                                                       *)
DeleteDevice(d) ==
    /\ nextPk + Cardinality(Names) <= MaxDevices + Cardinality(devices)
    /\ devices' = devices \ {d}
    /\ snapshots' = {Orphaned(s, d) : s \in snapshots}
    /\ tasks' = [r \in DOMAIN tasks |->
                   [i \in DOMAIN tasks[r] |-> Orphaned(tasks[r][i], d)]]
    /\ UNCHANGED <<nextPk, runs, pc, mem>>

(* The admin's form saves every field, also those it was opened with and a *)
(* discovery changed since; the name is unique, the address is not.        *)
EditDevice(d, form) ==
    /\ \A c \in devices \ {d} : c.name # form.name
    /\ devices' = (devices \ {d}) \cup
         {[d EXCEPT !.name = form.name, !.ip = form.ip, !.enabled = form.enabled,
                    !.edited = @ \/ form.name # d.name \/ form.ip \notin {d.ip, NoIp}]}
    /\ UNCHANGED <<nextPk, runs, tasks, snapshots, pc, mem>>

-----------------------------------------------------------------------------
Start(p) ==
    \/ \E then \in {{}} \cup {{w} : w \in Works \ {"discovery"}}, allow \in BOOLEAN :
          StartDiscovery(p, then, allow)
    \/ \E w \in Works \ {"discovery"}, only \in Pks \cup {0} : StartCollection(p, w, only)

Step(p) ==
    \/ ContinueCollection(p) \/ QueryDevices(p)
    \/ NextAddress(p) \/ NextDevice(p) \/ LoopRaises(p) \/ BodyFails(p)
    \/ MatchIp(p) \/ MatchName(p) \/ SetIp(p) \/ CreateDevice(p) \/ TouchDiscovered(p)
    \/ StoreSnapshot(p) \/ TouchCollected(p) \/ Analyze(p)
    \/ SaveTask(p) \/ FinishRun(p)

Operator == \/ \E n \in Manual : EnterDevice(n)
            \/ \E d \in devices : \/ DeleteDevice(d)
                                 \/ \E form \in Forms : EditDevice(d, form)

Next == \/ \E p \in Procs : Start(p) \/ Step(p) \/ Crash(p)
        \/ Operator

Spec == Init /\ [][Next]_vars

(* No process dies, and each goes on: SNMP and SSH end in a timeout.       *)
FairSpec == /\ Init
            /\ [][(\E p \in Procs : Start(p) \/ Step(p)) \/ Operator]_vars
            /\ \A p \in Procs : WF_vars(Step(p))

-----------------------------------------------------------------------------
Device   == [pk : Nat \ {0}, name : Names, ip : Ips \cup {NoIp}, enabled : BOOLEAN,
             edited : BOOLEAN]
Run      == [work : Works, status : {"running", "success", "partial", "failed"},
             done : Nat, analyzed : Nat, failed : Nat, broken : BOOLEAN]
Task     == [status : {"pending", "success", "failed", "skipped"}, device : Nat]
Snapshot == [run : Nat \ {0}, task : Nat \ {0}, device : Nat, analysed : BOOLEAN]

\* The statements of the body of the two loops, after _create_task.
InTask == {"snmp", "match_name", "set_ip", "create", "touch", "ssh", "touch_collected",
           "analyze", "save"}
Labels == InTask \cup {"idle", "query", "next", "finish", "continue"}

Memory   == [work : Works, then : SUBSET Works, only : Nat, run : Nat,
             scan : SUBSET (Subnets \X Ips), rows : SUBSET [pk : Nat, enabled : BOOLEAN],
             at : Ips \cup {NoIp}, hand : Nat, outcome : {"success", "failed", "skipped"},
             done : Nat, analyzed : Nat, failed : Nat, broken : BOOLEAN]

\* A process knows its run, its task and its address where it needs them.
Placed(p) ==
    /\ mem[p].run \in 0..Len(runs)
    /\ pc[p] \notin {"idle", "continue"} => mem[p].run # 0
    /\ pc[p] \in {"snmp", "match_name", "set_ip", "create"} => mem[p].at \in Ips
    /\ pc[p] \in InTask => Len(tasks[mem[p].run]) > 0

TypeOK ==
    /\ devices \subseteq Device
    /\ nextPk \in Nat \ {0} /\ \A d \in devices : d.pk < nextPk
    /\ runs \in Seq(Run)
    /\ tasks \in Seq(Seq(Task)) /\ Len(tasks) = Len(runs)
    /\ snapshots \subseteq Snapshot
    /\ pc \in [Procs -> Labels]
    /\ mem \in [Procs -> Memory]
    /\ \A p \in Procs : Placed(p)

(* However discoveries interleave with each other and with the operators,  *)
(* they never give one address to two devices ("Match by IP first, then by *)
(* name. Avoid duplicates."): of the devices that no operator has renamed  *)
(* or typed an address into, no two have the same one, also when operators *)
(* clear addresses.  The checks are not atomic with the writes, and what   *)
(* saves the promise is the unique name.  An operator may type the address *)
(* of another device, and by renaming one between the check and the write  *)
(* let a discovery create it again: the model allows both.                 *)
OneDevicePerIp ==
    \A c, d \in devices :
        c.ip = d.ip /\ c.ip # NoIp /\ ~c.edited /\ ~d.edited => c = d

Finished(r)  == runs[r].status # "running"
Count(r, st) == Cardinality({i \in DOMAIN tasks[r] : tasks[r][i].status = st})

(* The counters and the verdict of a run come from the memory of its       *)
(* process, the tasks from the database, and any statement between may be  *)
(* refused.  In a run that ended without a general error they agree: each  *)
(* failure is a failed task or a successful one whose analysis failed, and *)
(* what it found or collected is its successes and, in a collection, some  *)
(* of its failed tasks: those whose device it had counted before it failed *)
(* to note the time.  A general error leaves at most one task unfinished.  *)
RunTellsItsTasks ==
    \A r \in DOMAIN runs : Finished(r) =>
        IF runs[r].broken THEN runs[r].status = "failed" /\ Count(r, "pending") <= 1
        ELSE /\ Count(r, "pending") = 0
             /\ runs[r].failed = Count(r, "failed") +
                   (IF runs[r].work = "collect_analyze"
                    THEN Count(r, "success") - runs[r].analyzed ELSE 0)
             /\ runs[r].done \in Count(r, "success") ..
                   Count(r, "success") + (IF runs[r].work = "discovery"
                                          THEN 0 ELSE Count(r, "failed"))
             /\ runs[r].status = "success" => runs[r].failed = 0
             /\ runs[r].status = "partial" => runs[r].failed > 0 /\ runs[r].done > 0
             /\ runs[r].status = "failed" => Count(r, "success") = 0 /\ Count(r, "failed") > 0

(* The archive of a finished collection is what its run and its tasks say, *)
(* also after a general error: as many configurations as it counted, one   *)
(* for each success, none of a device that was skipped, and the others of  *)
(* tasks that failed after they stored theirs or of the one whose task the *)
(* run could not save.  A configuration and its task agree on the device,  *)
(* also when it was deleted meanwhile, and the analysed ones, as many as   *)
(* counted, are not of failed tasks.                                       *)
ArchiveMatchesTasks ==
    \A r \in DOMAIN runs : Finished(r) /\ runs[r].work # "discovery" =>
        LET stored == {s \in snapshots : s.run = r}
            of(st) == {i \in DOMAIN tasks[r] : tasks[r][i].status = st}
            kept   == {s.task : s \in stored}
        IN  /\ Cardinality(stored) = runs[r].done
            /\ of("success") \subseteq kept
            /\ kept \cap of("skipped") = {}
            /\ Cardinality(kept \cap of("pending")) <= (IF runs[r].broken THEN 1 ELSE 0)
            /\ \A s \in stored : s.device = tasks[r][s.task].device
            /\ Cardinality({s \in stored : s.analysed}) = runs[r].analyzed
            /\ \A s \in stored : s.analysed => s.task \notin of("failed")

(* A discovery that ends without a general error has tried every address   *)
(* of every subnet of its profile.                                         *)
ProfileScanned ==
    \A r \in DOMAIN runs :
        Finished(r) /\ runs[r].work = "discovery" /\ ~runs[r].broken =>
            Len(tasks[r]) = Cardinality(UNION {{<<s, i>> : i \in Hosts[s]} : s \in Subnets})

(* A run whose process lives is finished: every exception path of the two  *)
(* loops reaches the outer finally.                                        *)
RunsFinish ==
    \A r \in 1..MaxRuns : r \in DOMAIN runs ~> r \in DOMAIN runs /\ Finished(r)
=============================================================================
