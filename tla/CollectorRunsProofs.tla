------------------------- MODULE CollectorRunsProofs -------------------------
(***************************************************************************)
(* Why the runs of the collector tell the truth: the counters a process    *)
(* keeps in memory, the tasks it writes one by one and the snapshots it    *)
(* stores agree when the run ends, for any number of processes, devices    *)
(* and addresses, whatever operators edit and delete meanwhile and         *)
(* whatever statement is refused.                                          *)
(***************************************************************************)
EXTENDS CollectorProofs, FiniteSetTheorems

\* The tasks of the list T with status st, and how many there are.
With(T, st) == {i \in DOMAIN T : T[i].status = st}
Num(T, st)  == Cardinality(With(T, st))

\* Of the snapshots sn: the tasks of run r with one, and with an analysed one.
StoredIn(sn, r)   == {s.task : s \in {x \in sn : x.run = r}}
AnalysedIn(sn, r) == {s.task : s \in {x \in sn : x.run = r /\ x.analysed}}

(* Where a process may be with what it does, and what it has in mind there. *)
Sound(at, m) ==
    /\ m.broken <=> at = "finish"
    /\ at \in {"snmp", "match_name", "set_ip", "create", "touch"} => m.work = "discovery"
    /\ at \in {"ssh", "touch_collected", "analyze", "query"} => m.work # "discovery"
    /\ at = "analyze" => m.work = "collect_analyze"
    /\ at \in InTask \ {"save"} => m.outcome = "success"
    /\ at \in InTask /\ m.work # "discovery" => m.hand # 0

(* The only task without a result is the one the process works on.         *)
Unsettled(at, T) ==
    /\ at \in {"query", "next"} => With(T, "pending") = {}
    /\ at \in InTask => With(T, "pending") = {Len(T)}
    /\ at = "finish" => With(T, "pending") \subseteq {Len(T)}

(* The task in hand is counted, as done or as failed, before it is written; *)
(* until it is analysed, an analysis is still due.                         *)
Won(at, m)  == IF at \in {"touch_collected", "analyze"} \/ (at = "save" /\ m.outcome = "success")
               THEN 1 ELSE 0
Lost(at, m) == IF at = "save" /\ m.outcome = "failed" THEN 1 ELSE 0
Due(at)     == IF at \in {"touch_collected", "analyze"} THEN 1 ELSE 0

(* The counters of m against the tasks T.                                  *)
Tally(at, m, T) ==
    /\ m.work = "discovery" => m.done = Num(T, "success") + Won(at, m)
    /\ m.work = "collect_analyze" =>
           m.failed + m.analyzed + Due(at) =
               Num(T, "failed") + Lost(at, m) + Num(T, "success") + Won(at, m)
    /\ m.work # "collect_analyze" =>
           m.failed = Num(T, "failed") + Lost(at, m) /\ m.analyzed = 0
    /\ m.analyzed + Due(at) <= Num(T, "success") + Won(at, m)

(* S, the tasks of a collection with a snapshot, and A, those with an      *)
(* analysed one, against the counters of m and the tasks T.                *)
Archived(m, T, S, A) ==
    m.work # "discovery" =>
        /\ IsFiniteSet(S) /\ Cardinality(S) = m.done
        /\ With(T, "success") \subseteq S
        /\ S \subseteq With(T, "success") \cup With(T, "failed") \cup With(T, "pending")
        /\ Cardinality(A) = m.analyzed
        /\ A \cap With(T, "failed") = {}

(* The snapshot of the task in hand.  It may have one though it failed: the *)
(* time of its collection could not be noted.                              *)
Covered(at, m, T, S, A) ==
    m.work # "discovery" =>
        /\ at = "ssh" \/ (at = "save" /\ m.outcome = "skipped") => Len(T) \notin S
        /\ Won(at, m) = 1 => Len(T) \in S
        /\ at \in {"touch_collected", "analyze"} \/ (at = "save" /\ m.outcome = "failed") =>
              Len(T) \notin A

(* The task in hand names the device in hand, while that exists.  top: the *)
(* next key.                                                               *)
InHand(at, m, T, live, top) ==
    at \in InTask /\ m.work # "discovery" =>
        /\ m.hand < top
        /\ T[Len(T)].device = IF m.hand \in live THEN m.hand ELSE 0

(* What holds between a live process at label at, with the memory m, and   *)
(* the rows of its run.                                                    *)
Books(at, m, run, T, S, A, live, top) ==
    /\ run.status = "running" /\ run.work = m.work
    /\ Sound(at, m)
    /\ Unsettled(at, T)
    /\ at # "finish" => Tally(at, m, T)
    /\ Archived(m, T, S, A) /\ Covered(at, m, T, S, A)
    /\ InHand(at, m, T, live, top)

(* What a finished run leaves behind.                                      *)
Told(run, T, S, A) ==
    /\ IF run.broken
       THEN run.status = "failed" /\ With(T, "pending") \subseteq {Len(T)}
       ELSE /\ With(T, "pending") = {}
            /\ run.work = "discovery" => run.done = Num(T, "success")
            /\ run.work = "collect_analyze" =>
                  run.failed + run.analyzed = Num(T, "failed") + Num(T, "success")
            /\ run.work # "collect_analyze" => run.failed = Num(T, "failed") /\ run.analyzed = 0
            /\ run.analyzed <= Num(T, "success")
            /\ run.status = IF run.failed > 0 /\ run.done > 0 THEN "partial"
                            ELSE IF run.failed > 0 THEN "failed" ELSE "success"
    /\ Archived(run, T, S, A)

Active(at) == at \notin {"idle", "continue"}

Kept(p) ==
    Active(pc[p]) =>
        Books(pc[p], mem[p], runs[mem[p].run], tasks[mem[p].run],
              StoredIn(snapshots, mem[p].run), AnalysedIn(snapshots, mem[p].run),
              Pks, nextPk)

(* No two live processes have the same run.                                *)
Owned == \A p, q \in Procs :
            Active(pc[p]) /\ Active(pc[q]) /\ mem[p].run = mem[q].run => p = q

(* A snapshot belongs to a task of a collection, no other snapshot does,   *)
(* and the two name the same device.                                       *)
Filed ==
    /\ \A s \in snapshots :
         /\ s.run \in DOMAIN runs /\ runs[s.run].work # "discovery"
         /\ s.task \in DOMAIN tasks[s.run]
         /\ s.device = tasks[s.run][s.task].device
    /\ \A s, t \in snapshots : s.run = t.run /\ s.task = t.task => s = t

BooksInv ==
    /\ AddressInv
    /\ Owned
    /\ Filed
    /\ \A p \in Procs : Kept(p)
    /\ \A r \in DOMAIN runs : Finished(r) =>
          Told(runs[r], tasks[r], StoredIn(snapshots, r), AnalysedIn(snapshots, r))


-----------------------------------------------------------------------------
(* The tasks with a status are finitely many, and an empty list has none.  *)
LEMMA WithFinite ==
    ASSUME NEW T \in Seq(Task), NEW st
    PROVE  IsFiniteSet(With(T, st)) /\ With(T, st) \subseteq 1..Len(T) /\ Num(T, st) \in Nat
<1>1. With(T, st) \subseteq 1..Len(T) /\ Len(T) \in Nat
  BY DEF With
<1>2. IsFiniteSet(1..Len(T))
  BY <1>1, FS_Interval
<1>3. IsFiniteSet(With(T, st))
  BY <1>1, <1>2, FS_Subset
<1> QED
  BY <1>1, <1>3, FS_CardinalityType DEF Num

LEMMA WithNone == \A st : With(<<>>, st) = {} /\ Num(<<>>, st) = 0
<1>1. \A st : With(<<>>, st) = {}
  BY DEF With
<1> QED
  BY <1>1, FS_EmptySet DEF Num

(* _create_task adds a pending task at the end.                            *)
LEMMA WithAppended ==
    ASSUME NEW T \in Seq(Task), NEW t \in Task, NEW st
    PROVE  /\ t.status = st => With(Append(T, t), st) = With(T, st) \cup {Len(T) + 1}
           /\ t.status # st => With(Append(T, t), st) = With(T, st)
<1> DEFINE U == Append(T, t)
<1>1. /\ Len(T) \in Nat /\ DOMAIN T = 1..Len(T) /\ DOMAIN U = 1..(Len(T) + 1)
      /\ U[Len(T) + 1] = t /\ \A i \in 1..Len(T) : U[i] = T[i]
  OBVIOUS
<1>2. 1..(Len(T) + 1) = (1..Len(T)) \cup {Len(T) + 1} /\ Len(T) + 1 \notin 1..Len(T)
  BY <1>1
<1> HIDE DEF U
<1> QED
  BY <1>1, <1>2 DEF With, U

LEMMA NumAppended ==
    ASSUME NEW T \in Seq(Task), NEW t \in Task, NEW st, t.status # st
    PROVE  With(Append(T, t), st) = With(T, st) /\ Num(Append(T, t), st) = Num(T, st)
<1>1. With(Append(T, t), st) = With(T, st)
  BY WithAppended
<1> QED
  BY <1>1 DEF Num

(* task.save of the last task.                                             *)
LEMMA WithSaved ==
    ASSUME NEW T \in Seq(Task), Len(T) > 0, NEW t \in Task, NEW st
    PROVE  /\ t.status = st => With([T EXCEPT ![Len(T)] = t], st) = With(T, st) \cup {Len(T)}
           /\ t.status # st => With([T EXCEPT ![Len(T)] = t], st) = With(T, st) \ {Len(T)}
<1> DEFINE U == [T EXCEPT ![Len(T)] = t]
<1>1. /\ Len(T) \in Nat /\ DOMAIN U = DOMAIN T /\ Len(T) \in DOMAIN T
      /\ U[Len(T)] = t /\ \A i \in DOMAIN T \ {Len(T)} : U[i] = T[i]
  OBVIOUS
<1> HIDE DEF U
<1> QED
  BY <1>1 DEF With, U

LEMMA NumSaved ==
    ASSUME NEW T \in Seq(Task), Len(T) > 0, NEW t \in Task, NEW st,
           With(T, "pending") = {Len(T)}, st # "pending"
    PROVE  LET U == [T EXCEPT ![Len(T)] = t]
           IN  /\ t.status = st => /\ With(U, st) = With(T, st) \cup {Len(T)}
                                   /\ Num(U, st) = Num(T, st) + 1
               /\ t.status # st => With(U, st) = With(T, st) /\ Num(U, st) = Num(T, st)
<1> DEFINE U == [T EXCEPT ![Len(T)] = t]
<1>1. Len(T) \notin With(T, st)
  BY DEF With
<1>2. /\ t.status = st => With(U, st) = With(T, st) \cup {Len(T)}
      /\ t.status # st => With(U, st) = With(T, st) \ {Len(T)}
  BY WithSaved
<1> HIDE DEF U
<1>3. IsFiniteSet(With(T, st)) /\ Num(T, st) \in Nat
  BY WithFinite
<1>4. Cardinality(With(T, st) \cup {Len(T)}) = Num(T, st) + 1
  BY <1>1, <1>3, FS_AddElement DEF Num
<1>5. ASSUME t.status = st
      PROVE  With(U, st) = With(T, st) \cup {Len(T)} /\ Num(U, st) = Num(T, st) + 1
  BY <1>2, <1>4, <1>5 DEF Num
<1>6. ASSUME t.status # st
      PROVE  With(U, st) = With(T, st) /\ Num(U, st) = Num(T, st)
  <2>1. With(U, st) = With(T, st)
    BY <1>1, <1>2, <1>6
  <2> QED
    BY <2>1 DEF Num
<1> QED
  BY <1>5, <1>6 DEF U

(* SET_NULL leaves the statuses alone.                                     *)
LEMMA WithOrphaned ==
    ASSUME NEW T \in Seq(Task), NEW d \in Device, NEW st
    PROVE  With([i \in DOMAIN T |-> Orphaned(T[i], d)], st) = With(T, st)
<1>1. \A i \in DOMAIN T : T[i] \in Task
  OBVIOUS
<1>2. \A i \in DOMAIN T : Orphaned(T[i], d).status = T[i].status
  BY <1>1 DEF Orphaned, Task
<1> QED
  BY <1>2 DEF With

-----------------------------------------------------------------------------
(* The statements of the loops on the books of one process: each leads     *)
(* from books that agree to books that agree.                              *)

(* The exception of a statement of the body: the task is lost, also when   *)
(* its configuration was stored and counted.                               *)
LEMMA BooksFail ==
    ASSUME NEW m \in Memory, NEW T \in Seq(Task), NEW run, NEW S, NEW A \in SUBSET S,
           NEW live, NEW top,
           NEW at \in {"snmp", "match_name", "set_ip", "create", "touch", "ssh",
                       "touch_collected"},
           Books(at, m, run, T, S, A, live, top)
    PROVE  Books("save", [m EXCEPT !.outcome = "failed", !.failed = @ + 1],
                 run, T, S, A, live, top)
<1> DEFINE n == [m EXCEPT !.outcome = "failed", !.failed = @ + 1]
<1>1. /\ n.work = m.work /\ n.hand = m.hand /\ n.done = m.done /\ n.analyzed = m.analyzed
      /\ n.broken = m.broken /\ n.outcome = "failed" /\ n.failed = m.failed + 1
      /\ m.failed \in Nat /\ m.done \in Nat /\ m.analyzed \in Nat
  BY DEF Memory
<1>2. at \in InTask /\ "save" \in InTask
  BY DEF InTask
<1> HIDE DEF n
<1>3. run.status = "running" /\ run.work = n.work
  BY <1>1 DEF Books
<1>4. Sound("save", n)
  BY <1>1, <1>2 DEF Books, Sound
<1>5. Unsettled("save", T)
  BY <1>2 DEF Books, Unsettled
<1>6. /\ Won("save", n) = 0 /\ Lost("save", n) = 1 /\ Due("save") = 0
      /\ Won(at, m) = Due(at) /\ Due(at) \in Nat /\ Lost(at, m) = 0
  BY <1>1 DEF Won, Lost, Due
<1>7. Archived(n, T, S, A)
  BY <1>1 DEF Books, Archived
<1>8. Covered("save", n, T, S, A)
  <2>1. m.work # "discovery" => at \in {"ssh", "touch_collected"}
    BY DEF Books, Sound
  <2> QED
    BY <1>1, <1>6, <2>1 DEF Books, Covered
<1>9. InHand("save", n, T, live, top)
  BY <1>1, <1>2 DEF Books, InHand
<1>10. Tally("save", n, T)
  <2>1. Num(T, "success") \in Nat /\ Num(T, "failed") \in Nat
    BY WithFinite
  <2>2. m.work = "discovery" => Due(at) = 0
    BY DEF Books, Sound, Due
  <2>3. Due(at) = 0 \/ Due(at) = 1
    BY DEF Due
  <2>4. /\ m.work = "discovery" => m.done = Num(T, "success")
        /\ m.work = "collect_analyze" =>
              m.failed + m.analyzed + Due(at) = Num(T, "failed") + Num(T, "success") + Due(at)
        /\ m.work # "collect_analyze" => m.failed = Num(T, "failed") /\ m.analyzed = 0
        /\ m.analyzed + Due(at) <= Num(T, "success") + Due(at)
    <3>1. Tally(at, m, T)
      BY DEF Books
    <3>2. /\ m.work = "discovery" => m.done = Num(T, "success") + Due(at)
          /\ m.work = "collect_analyze" =>
                m.failed + m.analyzed + Due(at) =
                    Num(T, "failed") + 0 + Num(T, "success") + Due(at)
          /\ m.work # "collect_analyze" => m.failed = Num(T, "failed") + 0 /\ m.analyzed = 0
          /\ m.analyzed + Due(at) <= Num(T, "success") + Due(at)
      BY <1>6, <3>1 DEF Tally
    <3> QED
      BY <1>1, <2>1, <2>2, <2>3, <3>2
  <2>5. /\ n.work = "discovery" => n.done = Num(T, "success") + 0
        /\ n.work = "collect_analyze" =>
              n.failed + n.analyzed + 0 = Num(T, "failed") + 1 + Num(T, "success") + 0
        /\ n.work # "collect_analyze" => n.failed = Num(T, "failed") + 1 /\ n.analyzed = 0
        /\ n.analyzed + 0 <= Num(T, "success") + 0
    <3>1. m.failed + m.analyzed = Num(T, "failed") + Num(T, "success")
             \/ m.work # "collect_analyze"
      BY <1>1, <2>1, <2>3, <2>4
    <3>2. m.analyzed <= Num(T, "success")
      BY <1>1, <2>1, <2>3, <2>4
    <3>3. n.failed = m.failed + 1 /\ n.done = m.done /\ n.analyzed = m.analyzed /\ n.work = m.work
      BY <1>1
    <3>4. n.work = "discovery" => n.done = Num(T, "success") + 0
      BY <2>1, <2>4, <3>3
    <3>5. n.work = "collect_analyze" =>
              n.failed + n.analyzed + 0 = Num(T, "failed") + 1 + Num(T, "success") + 0
      <4>1. SUFFICES ASSUME m.work = "collect_analyze"
                     PROVE  m.failed + 1 + m.analyzed + 0 =
                                Num(T, "failed") + 1 + Num(T, "success") + 0
        BY <3>3
      <4> QED
        BY <1>1, <2>1, <3>1, <4>1
    <3>6. n.work # "collect_analyze" => n.failed = Num(T, "failed") + 1 /\ n.analyzed = 0
      BY <2>4, <3>3
    <3>7. n.analyzed + 0 <= Num(T, "success") + 0
      BY <1>1, <2>1, <3>2, <3>3
    <3> QED
      BY <3>4, <3>5, <3>6, <3>7
  <2> QED
    BY <1>6, <2>5 DEF Tally
<1> QED
  BY <1>3, <1>4, <1>5, <1>7, <1>8, <1>9, <1>10 DEF Books, n

(* The exception that leaves the loop.                                     *)
LEMMA BooksBreak ==
    ASSUME NEW m \in Memory, NEW T \in Seq(Task), NEW run, NEW S, NEW A, NEW live, NEW top,
           NEW at \in {"query", "next", "save"}, Books(at, m, run, T, S, A, live, top),
           NEW n, n.work = m.work, n.done = m.done, n.analyzed = m.analyzed, n.broken = TRUE
    PROVE  Books("finish", n, run, T, S, A, live, top)
<1>1. "finish" \notin InTask
  BY DEF InTask
<1>2. run.status = "running" /\ run.work = n.work
  BY DEF Books
<1>3. Sound("finish", n)
  BY <1>1 DEF Sound
<1>4. Unsettled("finish", T)
  BY <1>1 DEF Books, Unsettled, InTask
<1>5. Archived(n, T, S, A)
  BY DEF Books, Archived
<1>6. Covered("finish", n, T, S, A)
  BY DEF Covered, Won
<1>7. InHand("finish", n, T, live, top)
  BY <1>1 DEF InHand
<1> QED
  BY <1>2, <1>3, <1>4, <1>5, <1>6, <1>7 DEF Books

(* The statements of a discovery between the answer and the last touch:    *)
(* they count nothing, and no snapshot depends on the device in hand.      *)
LEMMA BooksMatch ==
    ASSUME NEW m \in Memory, NEW T \in Seq(Task), NEW run, NEW S, NEW A, NEW live, NEW top,
           NEW at \in {"snmp", "match_name", "set_ip", "create"},
           NEW next \in {"match_name", "set_ip", "create", "touch"},
           NEW n, n.work = m.work, n.done = m.done, n.analyzed = m.analyzed,
           n.broken = m.broken, n.outcome = m.outcome, n.failed = m.failed,
           NEW alive, NEW peak,
           Books(at, m, run, T, S, A, live, top)
    PROVE  Books(next, n, run, T, S, A, alive, peak)
<1>1. m.work = "discovery" /\ n.work = "discovery"
  BY DEF Books, Sound
<1>2. at \in InTask /\ next \in InTask
  BY DEF InTask
<1>3. run.status = "running" /\ run.work = n.work
  BY <1>1 DEF Books
<1>4. Sound(next, n)
  BY <1>1, <1>2 DEF Books, Sound
<1>5. Unsettled(next, T)
  BY <1>2 DEF Books, Unsettled
<1>6. Archived(n, T, S, A) /\ Covered(next, n, T, S, A) /\ InHand(next, n, T, alive, peak)
  BY <1>1 DEF Archived, Covered, InHand
<1>7. Tally(next, n, T)
  BY <1>1 DEF Books, Tally, Won, Lost, Due
<1> QED
  BY <1>3, <1>4, <1>5, <1>6, <1>7 DEF Books

(* The discovered device is saved and counted.                             *)
LEMMA BooksTouch ==
    ASSUME NEW m \in Memory, NEW T \in Seq(Task), NEW run, NEW S, NEW A, NEW live, NEW top,
           Books("touch", m, run, T, S, A, live, top)
    PROVE  Books("save", [m EXCEPT !.done = @ + 1], run, T, S, A, live, top)
<1> DEFINE n == [m EXCEPT !.done = @ + 1]
<1>1. /\ n.work = m.work /\ n.done = m.done + 1 /\ n.analyzed = m.analyzed
      /\ n.broken = m.broken /\ n.outcome = m.outcome /\ n.failed = m.failed
      /\ m.work = "discovery" /\ m.outcome = "success"
      /\ m.failed \in Nat /\ m.done \in Nat /\ m.analyzed \in Nat
  BY DEF Memory, Books, Sound, InTask
<1>2. "touch" \in InTask /\ "save" \in InTask
  BY DEF InTask
<1> HIDE DEF n
<1>3. run.status = "running" /\ run.work = n.work
  BY <1>1 DEF Books
<1>4. Sound("save", n)
  BY <1>1, <1>2 DEF Books, Sound
<1>5. Unsettled("save", T)
  BY <1>2 DEF Books, Unsettled
<1>6. Archived(n, T, S, A) /\ Covered("save", n, T, S, A) /\ InHand("save", n, T, live, top)
  BY <1>1 DEF Archived, Covered, InHand
<1>7. Tally("save", n, T)
  <2>1. Tally("touch", m, T)
    BY DEF Books
  <2>2. Num(T, "success") \in Nat /\ Num(T, "failed") \in Nat
    BY WithFinite
  <2>3. /\ Won("touch", m) = 0 /\ Lost("touch", m) = 0 /\ Due("touch") = 0
        /\ Won("save", n) = 1 /\ Lost("save", n) = 0 /\ Due("save") = 0
    BY <1>1 DEF Won, Lost, Due
  <2>4. m.done = Num(T, "success") + 0 /\ m.failed = Num(T, "failed") + 0 /\ m.analyzed = 0
    BY <1>1, <2>1, <2>3 DEF Tally
  <2>5. /\ n.done = Num(T, "success") + 1 /\ n.failed = Num(T, "failed") + 0
        /\ n.analyzed = 0 /\ n.analyzed + 0 <= Num(T, "success") + 1
    BY <1>1, <2>2, <2>4
  <2> QED
    BY <1>1, <2>3, <2>5 DEF Tally
<1> QED
  BY <1>3, <1>4, <1>5, <1>6, <1>7 DEF Books, n

(* _resolve_devices counts nothing.                                        *)
LEMMA BooksQuery ==
    ASSUME NEW m \in Memory, NEW T \in Seq(Task), NEW run, NEW S, NEW A, NEW live, NEW top,
           NEW found, Books("query", m, run, T, S, A, live, top)
    PROVE  Books("next", [m EXCEPT !.only = 0, !.rows = found], run, T, S, A, live, top)
<1> DEFINE n == [m EXCEPT !.only = 0, !.rows = found]
<1>1. /\ n.work = m.work /\ n.done = m.done /\ n.analyzed = m.analyzed
      /\ n.broken = m.broken /\ n.outcome = m.outcome /\ n.failed = m.failed
  BY DEF Memory
<1>2. "next" \notin InTask /\ "query" \notin InTask
  BY DEF InTask
<1> HIDE DEF n
<1>3. run.status = "running" /\ run.work = n.work
  BY <1>1 DEF Books
<1>4. Sound("next", n)
  BY <1>1, <1>2 DEF Books, Sound
<1>5. Unsettled("next", T)
  BY <1>2 DEF Books, Unsettled
<1>6. /\ Archived(n, T, S, A) /\ Covered("next", n, T, S, A)
      /\ InHand("next", n, T, live, top)
  BY <1>1, <1>2 DEF Books, Archived, Covered, InHand, Won
<1>7. Tally("next", n, T)
  BY <1>1 DEF Books, Tally, Won, Lost, Due
<1> QED
  BY <1>3, <1>4, <1>5, <1>6, <1>7 DEF Books, n

(* An answer to SSH: the snapshot is stored and the device counted.        *)
LEMMA BooksStore ==
    ASSUME NEW m \in Memory, NEW T \in Seq(Task), NEW run, NEW S, NEW A \in SUBSET S,
           NEW live, NEW top, Books("ssh", m, run, T, S, A, live, top)
    PROVE  Books("touch_collected", [m EXCEPT !.done = @ + 1],
                 run, T, S \cup {Len(T)}, A, live, top)
<1> DEFINE n == [m EXCEPT !.done = @ + 1]
<1>1. /\ n.work = m.work /\ n.hand = m.hand /\ n.done = m.done + 1
      /\ n.analyzed = m.analyzed /\ n.broken = m.broken /\ n.outcome = m.outcome
      /\ n.failed = m.failed
      /\ m.failed \in Nat /\ m.done \in Nat /\ m.analyzed \in Nat
  BY DEF Memory
<1>2. "ssh" \in InTask /\ "touch_collected" \in InTask
  BY DEF InTask
<1> HIDE DEF n
<1>3. run.status = "running" /\ run.work = n.work /\ n.work # "discovery"
  BY <1>1 DEF Books, Sound
<1>4. Sound("touch_collected", n)
  BY <1>1, <1>2, <1>3 DEF Books, Sound
<1>5. Unsettled("touch_collected", T)
  BY <1>2 DEF Books, Unsettled
<1>6. InHand("touch_collected", n, T, live, top)
  BY <1>1, <1>2 DEF Books, InHand
<1>7. Tally("ssh", m, T) /\ Archived(m, T, S, A) /\ Len(T) \notin S
  BY <1>1, <1>3 DEF Books, Covered
<1>8. /\ Won("ssh", m) = 0 /\ Lost("ssh", m) = 0 /\ Due("ssh") = 0
      /\ Won("touch_collected", n) = 1 /\ Lost("touch_collected", n) = 0
      /\ Due("touch_collected") = 1
  BY DEF Won, Lost, Due
<1>9. Num(T, "success") \in Nat /\ Num(T, "failed") \in Nat
  BY WithFinite
<1>10. Tally("touch_collected", n, T)
  BY <1>1, <1>3, <1>7, <1>8, <1>9 DEF Tally
<1>11. Archived(n, T, S \cup {Len(T)}, A)
  <2>1. IsFiniteSet(S) /\ Cardinality(S) = m.done
    BY <1>1, <1>3, <1>7 DEF Archived
  <2>2. IsFiniteSet(S \cup {Len(T)}) /\ Cardinality(S \cup {Len(T)}) = n.done
    BY <1>1, <1>7, <2>1, FS_AddElement
  <2>3. Len(T) \in With(T, "pending")
    BY <1>2 DEF Books, Unsettled
  <2> QED
    BY <1>1, <1>7, <2>2, <2>3 DEF Archived
<1>12. Covered("touch_collected", n, T, S \cup {Len(T)}, A)
  BY <1>7 DEF Covered
<1> QED
  BY <1>3, <1>4, <1>5, <1>6, <1>10, <1>11, <1>12 DEF Books, n

(* The device still exists when the configuration is stored: the task goes *)
(* on to the analysis, if the run was asked to, or is done.                *)
LEMMA BooksCollected ==
    ASSUME NEW m \in Memory, NEW T \in Seq(Task), NEW run, NEW S, NEW A, NEW live, NEW top,
           Books("touch_collected", m, run, T, S, A, live, top),
           NEW next, next = IF m.work = "collect_analyze" THEN "analyze" ELSE "save"
    PROVE  Books(next, m, run, T, S, A, live, top)
<1>1. /\ next \in {"analyze", "save"} /\ next = "analyze" <=> m.work = "collect_analyze"
      /\ "touch_collected" \in InTask /\ next \in InTask
  BY DEF InTask
<1>2. /\ run.status = "running" /\ run.work = m.work /\ m.work # "discovery"
      /\ m.outcome = "success"
  BY <1>1 DEF Books, Sound
<1>3. Sound(next, m)
  BY <1>1, <1>2 DEF Books, Sound
<1>4. Unsettled(next, T)
  BY <1>1 DEF Books, Unsettled, InTask
<1>5. InHand(next, m, T, live, top)
  BY <1>1 DEF Books, InHand
<1>6. Archived(m, T, S, A) /\ Covered(next, m, T, S, A)
  BY <1>1, <1>2 DEF Books, Archived, Covered, Won
<1>7. Tally("touch_collected", m, T)
  BY DEF Books
<1>8. /\ Won("touch_collected", m) = 1 /\ Lost("touch_collected", m) = 0
      /\ Due("touch_collected") = 1
      /\ Won(next, m) = 1 /\ Lost(next, m) = 0
      /\ Due(next) = IF m.work = "collect_analyze" THEN 1 ELSE 0
  BY <1>1, <1>2 DEF Won, Lost, Due
<1>9. m.done \in Nat /\ m.analyzed \in Nat /\ m.failed \in Nat
  BY DEF Memory
<1>10. Num(T, "success") \in Nat /\ Num(T, "failed") \in Nat
  BY WithFinite
<1>11. Tally(next, m, T)
  BY <1>2, <1>7, <1>8, <1>9, <1>10 DEF Tally
<1> QED
  BY <1>2, <1>3, <1>4, <1>5, <1>6, <1>11 DEF Books

(* The analysis fails and is counted as a failure,                         *)
LEMMA BooksUnanalysed ==
    ASSUME NEW m \in Memory, NEW T \in Seq(Task), NEW run, NEW S, NEW A, NEW live, NEW top,
           Books("analyze", m, run, T, S, A, live, top)
    PROVE  Books("save", [m EXCEPT !.failed = @ + 1], run, T, S, A, live, top)
<1> DEFINE n == [m EXCEPT !.failed = @ + 1]
<1>1. /\ n.work = m.work /\ n.hand = m.hand /\ n.done = m.done
      /\ n.analyzed = m.analyzed /\ n.broken = m.broken /\ n.outcome = m.outcome
      /\ n.failed = m.failed + 1
      /\ m.failed \in Nat /\ m.done \in Nat /\ m.analyzed \in Nat
  BY DEF Memory
<1>2. "analyze" \in InTask /\ "save" \in InTask
  BY DEF InTask
<1> HIDE DEF n
<1>3. /\ run.status = "running" /\ run.work = n.work /\ m.work = "collect_analyze"
      /\ m.outcome = "success"
  BY <1>1, <1>2 DEF Books, Sound
<1>4. Sound("save", n)
  BY <1>1, <1>2, <1>3 DEF Books, Sound
<1>5. Unsettled("save", T)
  BY <1>2 DEF Books, Unsettled
<1>6. InHand("save", n, T, live, top)
  BY <1>1, <1>2 DEF Books, InHand
<1>7. Archived(n, T, S, A) /\ Covered("save", n, T, S, A)
  BY <1>1, <1>2, <1>3 DEF Books, Archived, Covered, Won
<1>8. Tally("analyze", m, T)
  BY DEF Books
<1>9. /\ Won("analyze", m) = 1 /\ Lost("analyze", m) = 0 /\ Due("analyze") = 1
      /\ Won("save", n) = 1 /\ Lost("save", n) = 0 /\ Due("save") = 0
  BY <1>1, <1>3 DEF Won, Lost, Due
<1>10. Num(T, "success") \in Nat /\ Num(T, "failed") \in Nat
  BY WithFinite
<1>11. Tally("save", n, T)
  <2>1. /\ m.failed + m.analyzed + 1 = Num(T, "failed") + 0 + Num(T, "success") + 1
        /\ m.analyzed + 1 <= Num(T, "success") + 1
    BY <1>3, <1>9, <1>8 DEF Tally
  <2>2. /\ n.failed + n.analyzed + 0 = Num(T, "failed") + 0 + Num(T, "success") + 1
        /\ n.analyzed + 0 <= Num(T, "success") + 1
    BY <1>1, <1>10, <2>1
  <2> QED
    BY <1>1, <1>3, <1>9, <2>2 DEF Tally
<1> QED
  BY <1>3, <1>4, <1>5, <1>6, <1>7, <1>11 DEF Books, n

(* or succeeds and is counted as an analysis.                              *)
LEMMA BooksAnalysed ==
    ASSUME NEW m \in Memory, NEW T \in Seq(Task), Len(T) > 0, NEW run, NEW S,
           NEW A \in SUBSET S, NEW live, NEW top,
           Books("analyze", m, run, T, S, A, live, top)
    PROVE  Books("save", [m EXCEPT !.analyzed = @ + 1], run, T, S, A \cup {Len(T)}, live, top)
<1> DEFINE n == [m EXCEPT !.analyzed = @ + 1]
<1>1. /\ n.work = m.work /\ n.hand = m.hand /\ n.done = m.done
      /\ n.analyzed = m.analyzed + 1 /\ n.broken = m.broken /\ n.outcome = m.outcome
      /\ n.failed = m.failed
      /\ m.failed \in Nat /\ m.done \in Nat /\ m.analyzed \in Nat
  BY DEF Memory
<1>2. "analyze" \in InTask /\ "save" \in InTask
  BY DEF InTask
<1> HIDE DEF n
<1>3. /\ run.status = "running" /\ run.work = n.work /\ m.work = "collect_analyze"
      /\ m.outcome = "success"
  BY <1>1, <1>2 DEF Books, Sound
<1>4. Sound("save", n)
  BY <1>1, <1>2, <1>3 DEF Books, Sound
<1>5. Unsettled("save", T)
  BY <1>2 DEF Books, Unsettled
<1>6. InHand("save", n, T, live, top)
  BY <1>1, <1>2 DEF Books, InHand
<1>7. Archived(n, T, S, A \cup {Len(T)})
  <2>1. Archived(m, T, S, A) /\ Len(T) \notin A
    BY <1>3 DEF Books, Covered
  <2>2. IsFiniteSet(S) /\ Cardinality(A) = m.analyzed
    BY <1>3, <2>1 DEF Archived
  <2>3. Cardinality(A \cup {Len(T)}) = n.analyzed
    <3>1. IsFiniteSet(A)
      BY <2>2, FS_Subset
    <3>2. Cardinality(A \cup {Len(T)}) = Cardinality(A) + 1
      BY <2>1, <3>1, FS_AddElement
    <3> QED
      BY <1>1, <2>2, <3>2
  <2>4. Len(T) \notin With(T, "failed")
    BY <1>2 DEF Books, Unsettled, With
  <2> QED
    BY <1>1, <2>1, <2>3, <2>4 DEF Archived
<1>8. Covered("save", n, T, S, A \cup {Len(T)})
  BY <1>1, <1>3 DEF Books, Covered, Won
<1>9. /\ Won("analyze", m) = 1 /\ Lost("analyze", m) = 0 /\ Due("analyze") = 1
      /\ Won("save", n) = 1 /\ Lost("save", n) = 0 /\ Due("save") = 0
  BY <1>1, <1>3 DEF Won, Lost, Due
<1>10. Num(T, "success") \in Nat /\ Num(T, "failed") \in Nat
  BY WithFinite
<1>11. Tally("analyze", m, T)
  BY DEF Books
<1>12. Tally("save", n, T)
  <2>1. /\ m.failed + m.analyzed + 1 = Num(T, "failed") + 0 + Num(T, "success") + 1
        /\ m.analyzed + 1 <= Num(T, "success") + 1
    BY <1>3, <1>9, <1>11 DEF Tally
  <2>2. /\ n.failed + n.analyzed + 0 = Num(T, "failed") + 0 + Num(T, "success") + 1
        /\ n.analyzed + 0 <= Num(T, "success") + 1
    BY <1>1, <1>10, <2>1
  <2> QED
    BY <1>1, <1>3, <1>9, <2>2 DEF Tally
<1> QED
  BY <1>3, <1>4, <1>5, <1>6, <1>7, <1>8, <1>12 DEF Books, n

(* The next address or device: one more pending task.  The memory n keeps  *)
(* its counters.                                                           *)
LEMMA BooksTask ==
    ASSUME NEW m \in Memory, NEW T \in Seq(Task), NEW run, NEW S, NEW A, NEW live, NEW top,
           Books("next", m, run, T, S, A, live, top),
           NEW k \in Nat, NEW n \in Memory, NEW at \in {"snmp", "ssh", "save"},
           n.work = m.work, n.done = m.done, n.analyzed = m.analyzed, n.failed = m.failed,
           n.broken = m.broken,
           at = "snmp" => n.work = "discovery",
           at = "ssh" => n.work # "discovery",
           n.outcome = IF at = "save" THEN "skipped" ELSE "success",
           n.work # "discovery" => n.hand = k /\ k # 0 /\ k \in live /\ k < top
    PROVE  Books(at, n, run, Append(T, NewTask(k)), S, A, live, top)
<1> DEFINE U == Append(T, NewTask(k))
<1>1. NewTask(k) \in Task /\ NewTask(k).status = "pending" /\ NewTask(k).device = k
  BY DEF NewTask, Task
<1>2. /\ U \in Seq(Task) /\ Len(U) = Len(T) + 1 /\ Len(T) \in Nat /\ U[Len(U)] = NewTask(k)
  BY <1>1
<1>3. With(U, "pending") = With(T, "pending") \cup {Len(U)}
  BY <1>1, <1>2, WithAppended
<1>4. /\ With(U, "success") = With(T, "success") /\ Num(U, "success") = Num(T, "success")
      /\ With(U, "failed") = With(T, "failed") /\ Num(U, "failed") = Num(T, "failed")
  BY <1>1, NumAppended
<1> HIDE DEF U
<1>5. /\ "next" \notin InTask /\ at \in InTask /\ at # "finish"
  BY DEF InTask
<1>6. run.status = "running" /\ run.work = n.work
  BY DEF Books
<1>7. Sound(at, n)
  BY <1>5 DEF Books, Sound
<1>8. Unsettled(at, U)
  <2>1. With(T, "pending") = {}
    BY DEF Books, Unsettled
  <2> QED
    BY <1>3, <1>5, <2>1 DEF Unsettled, InTask
<1>9. InHand(at, n, U, live, top)
  BY <1>1, <1>2 DEF InHand
<1>10. Archived(n, U, S, A)
  BY <1>3, <1>4 DEF Books, Archived
<1>11. /\ Won("next", m) = 0 /\ Lost("next", m) = 0 /\ Due("next") = 0
       /\ Won(at, n) = 0 /\ Lost(at, n) = 0 /\ Due(at) = 0
  BY DEF Won, Lost, Due
<1>12. Covered(at, n, U, S, A)
  <2>1. n.work # "discovery" => S \subseteq 1..Len(T)
    <3>1. With(T, "pending") = {}
      BY DEF Books, Unsettled
    <3>2. With(T, "success") \subseteq 1..Len(T) /\ With(T, "failed") \subseteq 1..Len(T)
      BY WithFinite
    <3> QED
      BY <3>1, <3>2 DEF Books, Archived
  <2>2. n.work # "discovery" => Len(U) \notin S
    BY <1>2, <2>1
  <2> QED
    BY <1>11, <2>2 DEF Covered
<1>13. Tally("next", m, T)
  BY DEF Books
<1>14. Tally(at, n, U)
  BY <1>4, <1>11, <1>13 DEF Tally
<1> QED
  BY <1>6, <1>7, <1>8, <1>9, <1>10, <1>12, <1>14 DEF Books, U

(* task.save, of a task whose device still exists: what was counted before *)
(* is now in the table.                                                    *)
LEMMA BooksSave ==
    ASSUME NEW m \in Memory, NEW T \in Seq(Task), Len(T) > 0, NEW run, NEW S, NEW A,
           NEW live, NEW top, Books("save", m, run, T, S, A, live, top),
           NEW t \in Task, t.status = m.outcome,
           m.work # "discovery" => m.hand \in live
    PROVE  Books("next", [m EXCEPT !.hand = 0, !.at = NoIp, !.outcome = "success"],
                 run, [T EXCEPT ![Len(T)] = t], S, A, live, top)
<1> DEFINE n == [m EXCEPT !.hand = 0, !.at = NoIp, !.outcome = "success"]
           U == [T EXCEPT ![Len(T)] = t]
<1>1. /\ n.work = m.work /\ n.done = m.done /\ n.analyzed = m.analyzed
      /\ n.broken = m.broken /\ n.failed = m.failed
      /\ m.failed \in Nat /\ m.done \in Nat /\ m.analyzed \in Nat
      /\ m.outcome \in {"success", "failed", "skipped"}
  BY DEF Memory
<1>2. /\ "save" \in InTask /\ "next" \notin InTask
  BY DEF InTask
<1>3. U \in Seq(Task) /\ Len(U) = Len(T)
  OBVIOUS
<1>4. With(T, "pending") = {Len(T)}
  BY <1>2 DEF Books, Unsettled
<1>5. /\ m.outcome = "success" => /\ With(U, "success") = With(T, "success") \cup {Len(T)}
                                  /\ Num(U, "success") = Num(T, "success") + 1
      /\ m.outcome # "success" => /\ With(U, "success") = With(T, "success")
                                  /\ Num(U, "success") = Num(T, "success")
      /\ m.outcome = "failed" => /\ With(U, "failed") = With(T, "failed") \cup {Len(T)}
                                 /\ Num(U, "failed") = Num(T, "failed") + 1
      /\ m.outcome # "failed" => /\ With(U, "failed") = With(T, "failed")
                                 /\ Num(U, "failed") = Num(T, "failed")
  BY <1>4, NumSaved
<1>6. With(U, "pending") = {}
  BY <1>1, <1>4, WithSaved
<1> HIDE DEF n, U
<1>7. run.status = "running" /\ run.work = n.work
  BY <1>1 DEF Books
<1>8. Sound("next", n)
  BY <1>1, <1>2 DEF Books, Sound
<1>9. Unsettled("next", U)
  BY <1>2, <1>6 DEF Unsettled
<1>10. InHand("next", n, U, live, top)
  BY <1>2 DEF InHand
<1>11. Tally("save", m, T) /\ Archived(m, T, S, A) /\ Covered("save", m, T, S, A)
  BY DEF Books
<1>12. /\ Won("next", n) = 0 /\ Lost("next", n) = 0 /\ Due("next") = 0 /\ Due("save") = 0
       /\ Won("save", m) = IF m.outcome = "success" THEN 1 ELSE 0
       /\ Lost("save", m) = IF m.outcome = "failed" THEN 1 ELSE 0
  BY DEF Won, Lost, Due
<1>13. Num(T, "success") \in Nat /\ Num(T, "failed") \in Nat
  BY WithFinite
<1>14. Num(U, "success") = Num(T, "success") + Won("save", m)
       /\ Num(U, "failed") = Num(T, "failed") + Lost("save", m)
  BY <1>1, <1>5, <1>12, <1>13
<1>15. Tally("next", n, U)
  BY <1>1, <1>11, <1>12, <1>13, <1>14 DEF Tally
<1>16. Archived(n, U, S, A)
  <2>1. CASE m.outcome = "success"
    BY <1>1, <1>4, <1>5, <1>6, <1>11, <1>12, <2>1 DEF Archived, Covered
  <2>2. CASE m.outcome = "failed"
    BY <1>1, <1>4, <1>5, <1>6, <1>11, <2>2 DEF Archived, Covered
  <2>3. CASE m.outcome = "skipped"
    BY <1>1, <1>4, <1>5, <1>6, <1>11, <2>3 DEF Archived, Covered
  <2> QED
    BY <1>1, <2>1, <2>2, <2>3
<1>17. Covered("next", n, U, S, A)
  BY <1>12 DEF Covered
<1> QED
  BY <1>7, <1>8, <1>9, <1>10, <1>15, <1>16, <1>17 DEF Books, n, U

(* run.save, at the end of the loop or after the exception that left it.   *)
LEMMA BooksFinish ==
    ASSUME NEW m \in Memory, NEW T \in Seq(Task), NEW run, NEW S, NEW A, NEW live, NEW top,
           NEW at \in {"next", "finish"}, Books(at, m, run, T, S, A, live, top),
           NEW end, end.work = m.work, end.status = Verdict(m), end.done = m.done,
           end.analyzed = m.analyzed, end.failed = m.failed, end.broken = m.broken
    PROVE  Told(end, T, S, A) /\ (end.broken <=> at = "finish") /\ end.work = run.work
<1>1. /\ m.failed \in Nat /\ m.done \in Nat /\ m.analyzed \in Nat
      /\ Num(T, "success") \in Nat /\ Num(T, "failed") \in Nat
  BY WithFinite DEF Memory
<1>2. "next" \notin InTask /\ "finish" \notin InTask
  BY DEF InTask
<1>3. (end.broken <=> at = "finish") /\ end.work = run.work
  BY DEF Books, Sound
<1>4. CASE at = "finish"
  <2>1. end.broken /\ end.status = "failed" /\ With(T, "pending") \subseteq {Len(T)}
    BY <1>3, <1>4 DEF Books, Sound, Verdict, Unsettled, InTask
  <2>2. Archived(end, T, S, A)
    BY DEF Books, Archived
  <2> QED
    BY <1>3, <2>1, <2>2 DEF Told
<1>5. CASE at = "next"
  <2>1. Tally("next", m, T)
    BY <1>5 DEF Books
  <2>2. Won("next", m) = 0 /\ Lost("next", m) = 0 /\ Due("next") = 0
    BY DEF Won, Lost, Due
  <2>3. ~end.broken /\ With(T, "pending") = {}
    BY <1>3, <1>5 DEF Books, Unsettled
  <2>4. /\ end.work = "discovery" => end.done = Num(T, "success")
        /\ end.work = "collect_analyze" =>
              end.failed + end.analyzed = Num(T, "failed") + Num(T, "success")
        /\ end.work # "collect_analyze" => end.failed = Num(T, "failed") /\ end.analyzed = 0
        /\ end.analyzed <= Num(T, "success")
    BY <1>1, <2>1, <2>2 DEF Tally
  <2>5. end.status = IF end.failed > 0 /\ end.done > 0 THEN "partial"
                     ELSE IF end.failed > 0 THEN "failed" ELSE "success"
    BY <2>3 DEF Verdict
  <2>6. Archived(end, T, S, A)
    BY DEF Books, Archived
  <2> QED
    BY <1>3, <1>5, <2>3, <2>4, <2>5, <2>6, Zenon DEF Told
<1> QED
  BY <1>3, <1>4, <1>5

-----------------------------------------------------------------------------
(* The books depend on the devices only through the key in hand, and a key *)
(* is never used twice.                                                    *)
LEMMA BooksLive ==
    ASSUME NEW m \in Memory, NEW T, NEW run, NEW S, NEW A,
           NEW live, NEW top \in Nat, NEW alive, NEW peak \in Nat, top <= peak,
           \A k \in Nat : k < top => (k \in alive <=> k \in live),
           NEW at, Books(at, m, run, T, S, A, live, top)
    PROVE  Books(at, m, run, T, S, A, alive, peak)
<1>1. m.hand \in Nat
  BY DEF Memory
<1>2. InHand(at, m, T, alive, peak)
  BY <1>1 DEF Books, InHand
<1> QED
  BY <1>2 DEF Books

(* on_delete=SET_NULL, on the books of a process.                          *)
LEMMA BooksOrphaned ==
    ASSUME NEW m \in Memory, NEW T \in Seq(Task), NEW run, NEW S, NEW A, NEW live, NEW top,
           NEW at, at \in InTask => Len(T) > 0, NEW d \in Device,
           Books(at, m, run, T, S, A, live, top)
    PROVE  Books(at, m, run, [i \in DOMAIN T |-> Orphaned(T[i], d)], S, A,
                 live \ {d.pk}, top)
<1> DEFINE U == [i \in DOMAIN T |-> Orphaned(T[i], d)]
<1>1. DOMAIN U = DOMAIN T /\ Len(U) = Len(T) /\ Len(T) \in Nat
  OBVIOUS
<1>2. \A st : With(U, st) = With(T, st) /\ Num(U, st) = Num(T, st)
  BY WithOrphaned DEF Num
<1>3. InHand(at, m, U, live \ {d.pk}, top)
  <2> SUFFICES ASSUME at \in InTask, m.work # "discovery"
               PROVE  m.hand < top /\ U[Len(U)].device =
                         IF m.hand \in live \ {d.pk} THEN m.hand ELSE 0
    BY DEF InHand
  <2>1. m.hand < top /\ T[Len(T)].device = IF m.hand \in live THEN m.hand ELSE 0
    BY DEF Books, InHand
  <2>2. T[Len(T)] \in Task /\ U[Len(U)] = Orphaned(T[Len(T)], d) /\ d.pk # 0
    BY <1>1 DEF Device
  <2>3. U[Len(U)].device = IF T[Len(T)].device = d.pk THEN 0 ELSE T[Len(T)].device
    BY <2>2 DEF Orphaned, Task
  <2> QED
    BY <2>1, <2>2, <2>3
<1> HIDE DEF U
<1>4. Sound(at, m) /\ run.status = "running" /\ run.work = m.work
  BY DEF Books
<1>5. Unsettled(at, U)
  BY <1>1, <1>2 DEF Books, Unsettled
<1>6. Archived(m, U, S, A) /\ Covered(at, m, U, S, A)
  BY <1>1, <1>2 DEF Books, Archived, Covered
<1>7. at # "finish" => Tally(at, m, U)
  BY <1>2 DEF Books, Tally
<1> QED
  BY <1>3, <1>4, <1>5, <1>6, <1>7 DEF Books, U

LEMMA ToldOrphaned ==
    ASSUME NEW T \in Seq(Task), NEW run, NEW S, NEW A, NEW d \in Device, Told(run, T, S, A)
    PROVE  Told(run, [i \in DOMAIN T |-> Orphaned(T[i], d)], S, A)
<1> DEFINE U == [i \in DOMAIN T |-> Orphaned(T[i], d)]
<1>1. DOMAIN U = DOMAIN T /\ Len(U) = Len(T) /\ Len(T) \in Nat
  OBVIOUS
<1>2. \A st : With(U, st) = With(T, st) /\ Num(U, st) = Num(T, st)
  BY WithOrphaned DEF Num
<1> HIDE DEF U
<1>3. Told(run, U, S, A)
  BY <1>1, <1>2 DEF Told, Archived
<1> QED
  BY <1>3 DEF U

(* The snapshots of one run, seen in the two sets.                         *)
LEMMA SameSnapshots ==
    ASSUME NEW sn, NEW new, NEW r, {x \in new : x.run = r} = {x \in sn : x.run = r}
    PROVE  StoredIn(new, r) = StoredIn(sn, r) /\ AnalysedIn(new, r) = AnalysedIn(sn, r)
  BY DEF StoredIn, AnalysedIn

LEMMA AnalysedStored ==
    ASSUME NEW sn, NEW r
    PROVE  AnalysedIn(sn, r) \in SUBSET StoredIn(sn, r)
  BY DEF StoredIn, AnalysedIn

LEMMA OrphanedSnapshots ==
    ASSUME NEW sn \in SUBSET Snapshot, NEW d \in Device, NEW r
    PROVE  /\ StoredIn({Orphaned(s, d) : s \in sn}, r) = StoredIn(sn, r)
           /\ AnalysedIn({Orphaned(s, d) : s \in sn}, r) = AnalysedIn(sn, r)
<1>1. \A s \in sn : /\ Orphaned(s, d).run = s.run /\ Orphaned(s, d).task = s.task
                    /\ Orphaned(s, d).analysed = s.analysed
  BY DEF Orphaned, Snapshot
<1> QED
  BY <1>1 DEF StoredIn, AnalysedIn

-----------------------------------------------------------------------------
(* The keys that existed stay the same, and new ones are new.              *)
KeysGrow == /\ nextPk' >= nextPk
            /\ \A k \in Nat : k < nextPk => (k \in Pks' <=> k \in Pks)


LEMMA OthersKept ==
    ASSUME BooksInv, TypeOK', NEW q \in Procs, pc'[q] = pc[q], mem'[q] = mem[q],
           Active(pc[q]) => /\ runs'[mem[q].run] = runs[mem[q].run]
                            /\ tasks'[mem[q].run] = tasks[mem[q].run]
                            /\ {x \in snapshots' : x.run = mem[q].run} =
                                  {x \in snapshots : x.run = mem[q].run},
           KeysGrow
    PROVE  Kept(q)'
<1> SUFFICES ASSUME Active(pc[q])
             PROVE  Books(pc[q], mem[q], runs'[mem[q].run], tasks'[mem[q].run],
                          StoredIn(snapshots', mem[q].run), AnalysedIn(snapshots', mem[q].run),
                          Pks', nextPk')
  BY DEF Kept
<1>1. /\ mem[q] \in Memory /\ nextPk \in Nat /\ nextPk' \in Nat
  BY DEF BooksInv, AddressInv, TypeOK
<1>2. Books(pc[q], mem[q], runs[mem[q].run], tasks[mem[q].run],
            StoredIn(snapshots, mem[q].run), AnalysedIn(snapshots, mem[q].run), Pks, nextPk)
  BY DEF BooksInv, Kept
<1>3. Books(pc[q], mem[q], runs[mem[q].run], tasks[mem[q].run],
            StoredIn(snapshots, mem[q].run), AnalysedIn(snapshots, mem[q].run), Pks', nextPk')
  BY <1>1, <1>2, BooksLive DEF KeysGrow
<1>4. /\ StoredIn(snapshots', mem[q].run) = StoredIn(snapshots, mem[q].run)
      /\ AnalysedIn(snapshots', mem[q].run) = AnalysedIn(snapshots, mem[q].run)
  BY SameSnapshots
<1> QED
  BY <1>3, <1>4

(* A step of p that touches the rows of one run R only, its own, and leaves *)
(* the books of that run in order, leaves all books in order.              *)
LEMMA StepBooks ==
    ASSUME BooksInv, TypeOK', AddressInv', NEW p \in Procs, NEW next, NEW m, Go(p, next, m),
           NEW R, \A q \in Procs \ {p} : Active(pc[q]) => mem[q].run # R,
           DOMAIN runs' \subseteq DOMAIN runs \cup {R},
           \A r \in DOMAIN runs \ {R} :
               /\ runs'[r] = runs[r] /\ tasks'[r] = tasks[r]
               /\ {x \in snapshots' : x.run = r} = {x \in snapshots : x.run = r},
           KeysGrow, Filed',
           Active(next) =>
               /\ m.run = R
               /\ Books(next, m, runs'[R], tasks'[R], StoredIn(snapshots', R),
                        AnalysedIn(snapshots', R), Pks', nextPk'),
           R \in DOMAIN runs' /\ runs'[R].status # "running" =>
               Told(runs'[R], tasks'[R], StoredIn(snapshots', R), AnalysedIn(snapshots', R))
    PROVE  BooksInv'
<1>1. /\ pc'[p] = next /\ mem'[p] = m
      /\ \A q \in Procs \ {p} : pc'[q] = pc[q] /\ mem'[q] = mem[q]
  BY DEF Go, BooksInv, AddressInv, TypeOK
<1>2. \A q \in Procs : Active(pc[q]) => mem[q].run \in DOMAIN runs
  BY InRun DEF BooksInv, AddressInv, Active
<1>3. \A q \in Procs \ {p} : Active(pc[q]) =>
         /\ runs'[mem[q].run] = runs[mem[q].run]
         /\ tasks'[mem[q].run] = tasks[mem[q].run]
         /\ {x \in snapshots' : x.run = mem[q].run} = {x \in snapshots : x.run = mem[q].run}
  BY <1>2
<1>4. \A q \in Procs \ {p} : Kept(q)'
  BY <1>1, <1>3, OthersKept
<1>5. Kept(p)'
  BY <1>1 DEF Kept
<1>6. Owned'
  BY <1>1 DEF BooksInv, Owned
<1>7. ASSUME NEW r \in DOMAIN runs', runs'[r].status # "running"
      PROVE  Told(runs'[r], tasks'[r], StoredIn(snapshots', r), AnalysedIn(snapshots', r))
  <2>1. CASE r = R
    BY <1>7, <2>1
  <2>2. CASE r # R
    <3>1. /\ r \in DOMAIN runs /\ runs'[r] = runs[r] /\ tasks'[r] = tasks[r]
          /\ StoredIn(snapshots', r) = StoredIn(snapshots, r)
          /\ AnalysedIn(snapshots', r) = AnalysedIn(snapshots, r)
      BY <2>2, SameSnapshots
    <3> QED
      BY <1>7, <3>1 DEF BooksInv, Finished
  <2> QED
    BY <2>1, <2>2
<1> QED
  BY <1>4, <1>5, <1>6, <1>7 DEF BooksInv, Finished

(* What the books of a process in a loop say, and who else has its run.    *)
LEMMA InBooks ==
    ASSUME BooksInv, NEW p \in Procs, Active(pc[p])
    PROVE  /\ mem[p] \in Memory /\ mem[p].run \in DOMAIN runs
           /\ tasks[mem[p].run] \in Seq(Task)
           /\ pc[p] \in InTask => Len(tasks[mem[p].run]) > 0
           /\ Books(pc[p], mem[p], runs[mem[p].run], tasks[mem[p].run],
                    StoredIn(snapshots, mem[p].run), AnalysedIn(snapshots, mem[p].run),
                    Pks, nextPk)
           /\ runs[mem[p].run].status = "running" /\ runs[mem[p].run].work = mem[p].work
           /\ \A q \in Procs \ {p} : Active(pc[q]) => mem[q].run # mem[p].run
           /\ TypeOK /\ nextPk \in Nat
<1>1. /\ mem[p] \in Memory /\ mem[p].run \in DOMAIN runs /\ tasks[mem[p].run] \in Seq(Task)
  BY InRun DEF BooksInv, AddressInv, Active
<1>2. pc[p] \in InTask => Len(tasks[mem[p].run]) > 0
  BY DEF BooksInv, AddressInv, TypeOK, Placed
<1>3. Books(pc[p], mem[p], runs[mem[p].run], tasks[mem[p].run],
            StoredIn(snapshots, mem[p].run), AnalysedIn(snapshots, mem[p].run), Pks, nextPk)
  BY DEF BooksInv, Kept
<1>4. runs[mem[p].run].status = "running" /\ runs[mem[p].run].work = mem[p].work
  BY <1>3 DEF Books
<1>5. \A q \in Procs \ {p} : Active(pc[q]) => mem[q].run # mem[p].run
  BY DEF BooksInv, Owned
<1> QED
  BY <1>1, <1>2, <1>3, <1>4, <1>5 DEF BooksInv, AddressInv, TypeOK

(* A statement that changes nothing of the runs, tasks and snapshots.      *)
LEMMA QuietBooks ==
    ASSUME BooksInv, TypeOK', AddressInv', NEW p \in Procs, Active(pc[p]),
           NEW next, NEW m, Go(p, next, m), UNCHANGED <<runs, tasks, snapshots>>, KeysGrow,
           m.run = mem[p].run,
           Books(next, m, runs[mem[p].run], tasks[mem[p].run],
                 StoredIn(snapshots, mem[p].run), AnalysedIn(snapshots, mem[p].run),
                 Pks', nextPk')
    PROVE  BooksInv'
<1> DEFINE R == mem[p].run
<1>1. /\ R \in DOMAIN runs /\ runs[R].status = "running"
      /\ \A q \in Procs \ {p} : Active(pc[q]) => mem[q].run # R
  BY InBooks
<1>2. Filed'
  BY DEF BooksInv, Filed
<1>3. m.run = R /\ Books(next, m, runs'[R], tasks'[R], StoredIn(snapshots', R),
                         AnalysedIn(snapshots', R), Pks', nextPk')
  OBVIOUS
<1>4. \A r \in DOMAIN runs \ {R} :
         /\ runs'[r] = runs[r] /\ tasks'[r] = tasks[r]
         /\ {x \in snapshots' : x.run = r} = {x \in snapshots : x.run = r}
  OBVIOUS
<1>5. DOMAIN runs' \subseteq DOMAIN runs \cup {R} /\ runs'[R].status = "running"
  BY <1>1
<1> HIDE DEF R
<1> QED
  BY <1>1, <1>2, <1>3, <1>4, <1>5, StepBooks

LEMMA KeysStay ==
    ASSUME TypeOK, UNCHANGED <<devices, nextPk>>
    PROVE  KeysGrow /\ Pks' = Pks
  BY DEF KeysGrow, Pks, TypeOK

-----------------------------------------------------------------------------
(* The statements, one lemma each, on the invariant.                       *)
LEMMA FailBooks ==
    ASSUME BooksInv, TypeOK', AddressInv', NEW p \in Procs, BodyFails(p)
    PROVE  BooksInv'
<1> DEFINE m == [mem[p] EXCEPT !.outcome = "failed", !.failed = @ + 1]
           R == mem[p].run
           S == StoredIn(snapshots, R)
           A == AnalysedIn(snapshots, R)
<1>1. /\ Active(pc[p]) /\ TypeOK /\ UNCHANGED db /\ Go(p, "save", m)
      /\ pc[p] \in {"snmp", "match_name", "set_ip", "create", "touch", "ssh",
                    "touch_collected"}
  BY DEF Active, BooksInv, AddressInv, BodyFails, Fail
<1>2. mem[p] \in Memory /\ tasks[R] \in Seq(Task) /\ A \in SUBSET S
      /\ Books(pc[p], mem[p], runs[R], tasks[R], S, A, Pks, nextPk)
  BY <1>1, InBooks, AnalysedStored
<1> HIDE DEF S, A
<1>3. Books("save", m, runs[R], tasks[R], S, A, Pks, nextPk)
  BY <1>1, <1>2, BooksFail
<1>4. m.run = R
  BY <1>2 DEF Memory
<1>5. UNCHANGED <<runs, tasks, snapshots>> /\ KeysGrow /\ Pks' = Pks /\ nextPk' = nextPk
  BY <1>1, KeysStay DEF db
<1> HIDE DEF m
<1> QED
  BY <1>1, <1>3, <1>4, <1>5, QuietBooks DEF S, A

LEMMA BreakBooks ==
    ASSUME BooksInv, TypeOK', AddressInv', NEW p \in Procs, LoopRaises(p)
    PROVE  BooksInv'
<1> DEFINE m == [mem[p] EXCEPT !.broken = TRUE, !.scan = {}, !.rows = {},
                               !.hand = 0, !.at = NoIp, !.outcome = "success"]
           R == mem[p].run
<1>1. /\ Active(pc[p]) /\ TypeOK /\ UNCHANGED db /\ Go(p, "finish", m)
      /\ pc[p] \in {"query", "next", "save"}
  BY DEF Active, BooksInv, AddressInv, LoopRaises, Break
<1>2. mem[p] \in Memory /\ tasks[R] \in Seq(Task)
      /\ Books(pc[p], mem[p], runs[R], tasks[R], StoredIn(snapshots, R),
               AnalysedIn(snapshots, R), Pks, nextPk)
  BY <1>1, InBooks
<1>3. /\ m.run = R /\ m.work = mem[p].work /\ m.done = mem[p].done
      /\ m.analyzed = mem[p].analyzed /\ m.broken = TRUE
  BY <1>2 DEF Memory
<1> HIDE DEF m
<1>4. Books("finish", m, runs[R], tasks[R], StoredIn(snapshots, R),
            AnalysedIn(snapshots, R), Pks, nextPk)
  BY <1>1, <1>2, <1>3, BooksBreak
<1>5. UNCHANGED <<runs, tasks, snapshots>> /\ KeysGrow /\ Pks' = Pks /\ nextPk' = nextPk
  BY <1>1, KeysStay DEF db
<1> QED
  BY <1>1, <1>3, <1>4, <1>5, QuietBooks

LEMMA QueryBooks ==
    ASSUME BooksInv, TypeOK', AddressInv', NEW p \in Procs, QueryDevices(p)
    PROVE  BooksInv'
<1> DEFINE found == IF mem[p].only = 0 THEN Enabled ELSE {d \in devices : d.pk = mem[p].only}
           rows == {[pk |-> d.pk, enabled |-> d.enabled] : d \in found}
           m == [mem[p] EXCEPT !.only = 0, !.rows = rows]
           R == mem[p].run
<1>1. Active(pc[p]) /\ TypeOK /\ pc[p] = "query"
  BY DEF Active, BooksInv, AddressInv, QueryDevices
<1>2. mem[p] \in Memory /\ tasks[R] \in Seq(Task)
      /\ Books("query", mem[p], runs[R], tasks[R], StoredIn(snapshots, R),
               AnalysedIn(snapshots, R), Pks, nextPk)
  BY <1>1, InBooks
<1>3. Go(p, "next", m) /\ m.run = R
  BY <1>2 DEF QueryDevices, Memory
<1>4. Books("next", m, runs[R], tasks[R], StoredIn(snapshots, R),
            AnalysedIn(snapshots, R), Pks, nextPk)
  BY <1>2, BooksQuery
<1>5. UNCHANGED <<runs, tasks, snapshots>> /\ KeysGrow /\ Pks' = Pks /\ nextPk' = nextPk
  BY <1>1, KeysStay DEF QueryDevices, db
<1> HIDE DEF m, found, rows
<1> QED
  BY <1>1, <1>3, <1>4, <1>5, QuietBooks

(* The match of a discovery, up to the touch, whatever it does to the      *)
(* devices.                                                                *)
LEMMA MatchBooks ==
    ASSUME BooksInv, TypeOK', AddressInv', NEW p \in Procs,
           pc[p] \in {"snmp", "match_name", "set_ip", "create"},
           NEW next \in {"match_name", "set_ip", "create", "touch"},
           NEW k \in Nat, NEW m \in {mem[p], [mem[p] EXCEPT !.hand = k]},
           Go(p, next, m), UNCHANGED <<runs, tasks, snapshots>>, KeysGrow
    PROVE  BooksInv'
<1> DEFINE R == mem[p].run
<1>1. Active(pc[p])
  BY DEF Active
<1>2. mem[p] \in Memory /\ tasks[R] \in Seq(Task)
      /\ Books(pc[p], mem[p], runs[R], tasks[R], StoredIn(snapshots, R),
               AnalysedIn(snapshots, R), Pks, nextPk)
  BY <1>1, InBooks
<1>3. /\ m.run = R /\ m.work = mem[p].work /\ m.done = mem[p].done
      /\ m.analyzed = mem[p].analyzed /\ m.broken = mem[p].broken
      /\ m.outcome = mem[p].outcome /\ m.failed = mem[p].failed
  BY <1>2 DEF Memory
<1> HIDE DEF R
<1>4. \A alive, peak : Books(next, m, runs[R], tasks[R], StoredIn(snapshots, R),
                            AnalysedIn(snapshots, R), alive, peak)
  BY <1>2, <1>3, BooksMatch
<1>5. Books(next, m, runs[R], tasks[R], StoredIn(snapshots, R),
            AnalysedIn(snapshots, R), Pks', nextPk')
  BY <1>4
<1> QED
  BY <1>1, <1>3, <1>5, QuietBooks DEF R

LEMMA MatchIpBooks ==
    ASSUME BooksInv, TypeOK', AddressInv', NEW p \in Procs, MatchIp(p) \/ MatchName(p)
    PROVE  BooksInv'
<1>1. /\ pc[p] \in {"snmp", "match_name", "set_ip", "create"} /\ TypeOK /\ UNCHANGED db
  BY DEF MatchIp, MatchName, BooksInv, AddressInv
<1>2. UNCHANGED <<runs, tasks, snapshots>> /\ KeysGrow
  BY <1>1, KeysStay DEF db
<1>3. ASSUME NEW next \in {"match_name", "create"}, Go(p, next, mem[p]) PROVE BooksInv'
  <2>1. mem[p] \in {mem[p], [mem[p] EXCEPT !.hand = 0]}
    OBVIOUS
  <2> QED
    BY <1>1, <1>2, <1>3, <2>1, MatchBooks
<1>4. ASSUME NEW next \in {"set_ip", "touch"}, NEW d \in devices,
             Go(p, next, [mem[p] EXCEPT !.hand = d.pk])
      PROVE  BooksInv'
  <2>1. d.pk \in Nat
    BY <1>1 DEF TypeOK, Device
  <2> QED
    BY <1>1, <1>2, <1>4, <2>1, MatchBooks
<1>5. CASE MatchIp(p)
  BY <1>3, <1>4, <1>5 DEF MatchIp
<1>6. CASE MatchName(p)
  BY <1>3, <1>4, <1>6 DEF MatchName
<1> QED
  BY <1>5, <1>6

LEMMA SetIpBooks ==
    ASSUME BooksInv, TypeOK', AddressInv', NEW p \in Procs, SetIp(p)
    PROVE  BooksInv'
<1> DEFINE moved(d) == IF d.pk = mem[p].hand THEN [d EXCEPT !.ip = mem[p].at] ELSE d
<1>1. /\ pc[p] = "set_ip" /\ TypeOK /\ UNCHANGED <<nextPk, runs, tasks, snapshots>>
      /\ devices \subseteq Device /\ nextPk \in Nat
      /\ devices' = {moved(d) : d \in devices} /\ Go(p, "touch", mem[p])
  BY DEF SetIp, BooksInv, AddressInv, TypeOK
<1>2. \A d \in devices : moved(d).pk = d.pk
  BY <1>1 DEF Device
<1> HIDE DEF moved
<1>3. Pks' = Pks
  BY <1>1, <1>2 DEF Pks
<1>4. KeysGrow
  BY <1>1, <1>3 DEF KeysGrow
<1>5. mem[p] \in {mem[p], [mem[p] EXCEPT !.hand = 0]}
  OBVIOUS
<1> QED
  BY <1>1, <1>4, <1>5, MatchBooks

LEMMA CreateDeviceBooks ==
    ASSUME BooksInv, TypeOK', AddressInv', NEW p \in Procs, CreateDevice(p)
    PROVE  BooksInv'
<1> DEFINE e == [pk |-> nextPk, name |-> NameOf(mem[p].at), ip |-> mem[p].at,
                 enabled |-> TRUE, edited |-> FALSE]
<1>1. /\ pc[p] = "create" /\ TypeOK /\ UNCHANGED <<runs, tasks, snapshots>> /\ nextPk \in Nat
      /\ e.pk = nextPk /\ devices' = devices \cup {e} /\ nextPk' = nextPk + 1
      /\ Go(p, "touch", [mem[p] EXCEPT !.hand = nextPk])
  BY DEF CreateDevice, BooksInv, AddressInv, TypeOK
<1> HIDE DEF e
<1>2. KeysGrow
  BY <1>1 DEF KeysGrow, Pks
<1> QED
  BY <1>1, <1>2, MatchBooks

LEMMA TouchBooks ==
    ASSUME BooksInv, TypeOK', AddressInv', NEW p \in Procs,
           TouchDiscovered(p) \/ TouchCollected(p)
    PROVE  BooksInv'
<1> DEFINE R == mem[p].run
<1>1. /\ pc[p] \in {"touch", "touch_collected"} /\ TypeOK /\ UNCHANGED db
      /\ Active(pc[p])
  BY DEF TouchDiscovered, TouchCollected, BooksInv, AddressInv, Active
<1>2. UNCHANGED <<runs, tasks, snapshots>> /\ KeysGrow /\ Pks' = Pks /\ nextPk' = nextPk
  BY <1>1, KeysStay DEF db
<1>3. mem[p] \in Memory /\ tasks[R] \in Seq(Task)
      /\ Books(pc[p], mem[p], runs[R], tasks[R], StoredIn(snapshots, R),
               AnalysedIn(snapshots, R), Pks, nextPk)
  BY <1>1, InBooks
<1>5. CASE pc[p] = "touch" /\ Go(p, "save", [mem[p] EXCEPT !.done = @ + 1])
  <2> DEFINE m == [mem[p] EXCEPT !.done = @ + 1]
  <2>1. Books("save", m, runs[R], tasks[R], StoredIn(snapshots, R),
              AnalysedIn(snapshots, R), Pks, nextPk)
    BY <1>3, <1>5, BooksTouch
  <2>2. Go(p, "save", m) /\ m.run = R
    BY <1>3, <1>5 DEF Memory
  <2> HIDE DEF m
  <2> QED
    BY <1>1, <1>2, <2>1, <2>2, QuietBooks
<1>6. CASE pc[p] = "touch_collected" /\
           Go(p, IF mem[p].work = "collect_analyze" THEN "analyze" ELSE "save", mem[p])
  <2> DEFINE next == IF mem[p].work = "collect_analyze" THEN "analyze" ELSE "save"
  <2>1. Books(next, mem[p], runs[R], tasks[R], StoredIn(snapshots, R),
              AnalysedIn(snapshots, R), Pks, nextPk)
    BY <1>3, <1>6, BooksCollected
  <2>2. Go(p, next, mem[p])
    BY <1>6
  <2> HIDE DEF next
  <2> QED
    BY <1>1, <1>2, <2>1, <2>2, QuietBooks
<1> QED
  BY <1>5, <1>6 DEF TouchDiscovered, TouchCollected

(* A new run starts with empty books.                                      *)
LEMMA CreateRunBooks ==
    ASSUME BooksInv, TypeOK', AddressInv', NEW p \in Procs, ~Active(pc[p]),
           NEW m \in Memory, CreateRun(p, m),
           m.done = 0, m.analyzed = 0, m.failed = 0, m.broken = FALSE
    PROVE  BooksInv'
<1> DEFINE run == [work |-> m.work, status |-> "running", done |-> 0, analyzed |-> 0,
                   failed |-> 0, broken |-> FALSE]
           next == IF m.work = "discovery" THEN "next" ELSE "query"
           R == Len(runs) + 1
           n == [m EXCEPT !.run = R]
<1>1. /\ runs \in Seq(Run) /\ tasks \in Seq(Seq(Task)) /\ Len(tasks) = Len(runs)
      /\ Len(runs) \in Nat /\ TypeOK
  BY DEF BooksInv, AddressInv, TypeOK
<1>2. /\ runs' = Append(runs, run) /\ tasks' = Append(tasks, <<>>)
      /\ Go(p, next, n) /\ UNCHANGED <<devices, nextPk, snapshots>>
  BY DEF CreateRun
<1>3. run \in Run /\ run.status = "running" /\ run.work = m.work /\ <<>> \in Seq(Task)
  BY DEF Run, Memory
<1>4. /\ n.run = R /\ n.work = m.work /\ n.done = 0 /\ n.analyzed = 0 /\ n.failed = 0
      /\ n.broken = FALSE
  BY DEF Memory
<1>5. /\ next \in {"next", "query"} /\ (next = "query" => n.work # "discovery")
      /\ next \notin InTask /\ "finish" # next
  BY <1>4 DEF InTask
<1> HIDE DEF run, n, next
<1>6. /\ DOMAIN runs = 1..Len(runs) /\ DOMAIN runs' = 1..(Len(runs) + 1)
      /\ runs'[R] = run /\ tasks'[R] = <<>>
      /\ \A r \in DOMAIN runs : runs'[r] = runs[r] /\ tasks'[r] = tasks[r]
  BY <1>1, <1>2, <1>3
<1> HIDE DEF R
<1>7. R \notin DOMAIN runs /\ DOMAIN runs' = DOMAIN runs \cup {R}
  BY <1>1, <1>6 DEF R
<1>8. Filed'
  BY <1>2, <1>6, <1>7 DEF BooksInv, Filed
<1>9. \A q \in Procs \ {p} : Active(pc[q]) => mem[q].run # R
  BY <1>7, InBooks
<1>10. StoredIn(snapshots', R) = {} /\ AnalysedIn(snapshots', R) = {}
  <2>1. \A s \in snapshots' : s.run # R
    BY <1>2, <1>7 DEF BooksInv, Filed
  <2> QED
    BY <2>1 DEF StoredIn, AnalysedIn
<1>11. KeysGrow /\ Pks' = Pks
  BY <1>1, <1>2, KeysStay
<1>12. Books(next, n, runs'[R], tasks'[R], StoredIn(snapshots', R),
             AnalysedIn(snapshots', R), Pks', nextPk')
  <2>1. Sound(next, n)
    BY <1>4, <1>5 DEF Sound
  <2>2. Unsettled(next, <<>>)
    BY <1>5, WithNone DEF Unsettled
  <2>3. Won(next, n) = 0 /\ Lost(next, n) = 0 /\ Due(next) = 0
    BY <1>5 DEF Won, Lost, Due
  <2>4. Tally(next, n, <<>>)
    BY <1>4, <2>3, WithNone DEF Tally
  <2>5. Archived(n, <<>>, {}, {})
    BY <1>4, WithNone, FS_EmptySet DEF Archived
  <2>6. Covered(next, n, <<>>, {}, {})
    BY <1>5, <2>3 DEF Covered
  <2>7. InHand(next, n, <<>>, Pks', nextPk')
    BY <1>5 DEF InHand
  <2> QED
    BY <1>3, <1>4, <1>6, <1>10, <2>1, <2>2, <2>4, <2>5, <2>6, <2>7 DEF Books
<1>13. \A r \in DOMAIN runs \ {R} :
          /\ runs'[r] = runs[r] /\ tasks'[r] = tasks[r]
          /\ {x \in snapshots' : x.run = r} = {x \in snapshots : x.run = r}
  BY <1>2, <1>6
<1>14. n.run = R /\ DOMAIN runs' \subseteq DOMAIN runs \cup {R} /\ runs'[R].status = "running"
  BY <1>3, <1>4, <1>6, <1>7
<1>15. Go(p, next, n)
  BY <1>2
<1> QED
  BY <1>8, <1>9, <1>11, <1>12, <1>13, <1>14, <1>15, StepBooks

LEMMA StartBooks ==
    ASSUME BooksInv, TypeOK', AddressInv', NEW p \in Procs, Start(p) \/ ContinueCollection(p)
    PROVE  BooksInv'
<1> DEFINE discovery(then) == [Idle EXCEPT !.then = then, !.scan = Scan]
           collection(w, only) == [Idle EXCEPT !.work = w, !.only = only]
<1>1. ASSUME NEW then \in SUBSET Works, pc[p] = "idle", CreateRun(p, discovery(then))
      PROVE  BooksInv'
  <2>1. Scan \in SUBSET (Subnets \X Ips)
    BY CollectorAssumption DEF Scan
  <2>2. discovery(then) \in Memory
    BY <2>1, IdleTyped DEF Memory
  <2>3. /\ discovery(then).done = 0 /\ discovery(then).analyzed = 0
        /\ discovery(then).failed = 0 /\ discovery(then).broken = FALSE
    BY DEF Idle
  <2> QED
    BY <1>1, <2>2, <2>3, CreateRunBooks DEF Active
<1>2. ASSUME NEW w \in Works, NEW only \in Nat, ~Active(pc[p]), CreateRun(p, collection(w, only))
      PROVE  BooksInv'
  <2>1. collection(w, only) \in Memory
    BY IdleTyped DEF Memory
  <2>2. /\ collection(w, only).done = 0 /\ collection(w, only).analyzed = 0
        /\ collection(w, only).failed = 0 /\ collection(w, only).broken = FALSE
    BY DEF Idle
  <2> QED
    BY <1>2, <2>1, <2>2, CreateRunBooks
<1>3. ASSUME NEW then \in SUBSET Works, NEW allow \in BOOLEAN, StartDiscovery(p, then, allow)
      PROVE  BooksInv'
  BY <1>1, <1>3 DEF StartDiscovery
<1>4. ASSUME NEW w \in Works, NEW only \in Pks \cup {0}, StartCollection(p, w, only)
      PROVE  BooksInv'
  <2>1. only \in Nat
    BY DEF Pks, BooksInv, AddressInv, TypeOK, Device
  <2> QED
    BY <1>2, <1>4, <2>1 DEF StartCollection, Active
<1>5. CASE ContinueCollection(p)
  <2>1. PICK w \in mem[p].then : CreateRun(p, [Idle EXCEPT !.work = w])
    BY <1>5 DEF ContinueCollection
  <2>2. w \in Works /\ ~Active(pc[p])
    BY <1>5 DEF BooksInv, AddressInv, TypeOK, Memory, ContinueCollection, Active
  <2>3. [Idle EXCEPT !.work = w] \in Memory
    BY <2>2, IdleTyped DEF Memory
  <2>4. /\ [Idle EXCEPT !.work = w].done = 0 /\ [Idle EXCEPT !.work = w].analyzed = 0
        /\ [Idle EXCEPT !.work = w].failed = 0 /\ [Idle EXCEPT !.work = w].broken = FALSE
    BY DEF Idle
  <2> QED
    BY <2>1, <2>2, <2>3, <2>4, CreateRunBooks
<1>6. CASE Start(p)
  <2>1. \A w \in Works : {w} \in SUBSET Works
    OBVIOUS
  <2> QED
    BY <1>3, <1>4, <1>6, <2>1 DEF Start
<1> QED
  BY <1>5, <1>6

(* A statement that writes the list of tasks of its run: a collection      *)
(* keeps the devices of the tasks it had.                                  *)
LEMMA WriteBooks ==
    ASSUME BooksInv, TypeOK', AddressInv', NEW p \in Procs, Active(pc[p]),
           NEW next, NEW m, Go(p, next, m), NEW list \in Seq(Task),
           tasks' = [tasks EXCEPT ![mem[p].run] = list],
           UNCHANGED <<devices, nextPk, runs, snapshots>>,
           Len(list) >= Len(tasks[mem[p].run]),
           mem[p].work # "discovery" =>
               \A i \in 1..Len(tasks[mem[p].run]) :
                  list[i].device = tasks[mem[p].run][i].device,
           m.run = mem[p].run,
           Books(next, m, runs[mem[p].run], list, StoredIn(snapshots, mem[p].run),
                 AnalysedIn(snapshots, mem[p].run), Pks, nextPk)
    PROVE  BooksInv'
<1> DEFINE R == mem[p].run
<1>1. /\ R \in DOMAIN runs /\ runs[R].status = "running" /\ tasks[R] \in Seq(Task)
      /\ runs[R].work = mem[p].work /\ TypeOK
      /\ \A q \in Procs \ {p} : Active(pc[q]) => mem[q].run # R
  BY InBooks
<1>2. /\ DOMAIN tasks = DOMAIN runs /\ DOMAIN tasks' = DOMAIN tasks /\ tasks'[R] = list
      /\ \A r \in DOMAIN runs \ {R} : tasks'[r] = tasks[r]
  BY <1>1 DEF TypeOK
<1>3. Filed'
  <2>1. \A s \in snapshots : s.run # R => tasks'[s.run] = tasks[s.run]
    BY <1>2 DEF BooksInv, Filed
  <2>2. /\ DOMAIN list = 1..Len(list) /\ Len(list) \in Nat
        /\ DOMAIN tasks[R] = 1..Len(tasks[R]) /\ Len(tasks[R]) \in Nat
    BY <1>1
  <2>3. \A i \in 1..Len(tasks[R]) : i \in 1..Len(list)
    BY <2>2
  <2>4. ASSUME NEW s \in snapshots, s.run = R
        PROVE  s.task \in DOMAIN tasks'[s.run] /\ s.device = tasks'[s.run][s.task].device
    <3>1. s.task \in DOMAIN tasks[R] /\ s.device = tasks[R][s.task].device
          /\ mem[p].work # "discovery"
      BY <1>1, <2>4 DEF BooksInv, Filed
    <3> QED
      BY <1>2, <2>2, <2>3, <2>4, <3>1
  <2> QED
    BY <2>1, <2>4 DEF BooksInv, Filed
<1>4. KeysGrow /\ Pks' = Pks
  BY <1>1, KeysStay
<1>5. Books(next, m, runs'[R], tasks'[R], StoredIn(snapshots', R),
            AnalysedIn(snapshots', R), Pks', nextPk')
  BY <1>2, <1>4
<1>6. \A r \in DOMAIN runs \ {R} :
         /\ runs'[r] = runs[r] /\ tasks'[r] = tasks[r]
         /\ {x \in snapshots' : x.run = r} = {x \in snapshots : x.run = r}
  BY <1>2
<1>7. DOMAIN runs' \subseteq DOMAIN runs \cup {R} /\ runs'[R].status = "running" /\ m.run = R
  BY <1>1
<1> HIDE DEF R
<1> QED
  BY <1>1, <1>3, <1>4, <1>5, <1>6, <1>7, StepBooks

LEMMA NextAddressBooks ==
    ASSUME BooksInv, TypeOK', AddressInv', NEW p \in Procs, NextAddress(p)
    PROVE  BooksInv'
<1> DEFINE R == mem[p].run
<1>1. PICK t \in mem[p].scan :
         /\ tasks' = [tasks EXCEPT ![R] = Append(@, NewTask(0))]
         /\ Go(p, "snmp", [mem[p] EXCEPT !.scan = @ \ {t}, !.at = t[2],
                                         !.outcome = "success"])
  BY DEF NextAddress
<1> DEFINE list == Append(tasks[R], NewTask(0))
           m == [mem[p] EXCEPT !.scan = @ \ {t}, !.at = t[2], !.outcome = "success"]
<1>2. /\ pc[p] = "next" /\ Active(pc[p]) /\ mem[p].work = "discovery"
      /\ UNCHANGED <<devices, nextPk, runs, snapshots>>
  BY DEF NextAddress, Active
<1>3. /\ mem[p] \in Memory /\ R \in DOMAIN runs /\ tasks[R] \in Seq(Task) /\ TypeOK
      /\ Books("next", mem[p], runs[R], tasks[R], StoredIn(snapshots, R),
               AnalysedIn(snapshots, R), Pks, nextPk)
  BY <1>2, InBooks
<1>4. NewTask(0) \in Task
  BY DEF NewTask, Task
<1>5. list \in Seq(Task) /\ Len(list) >= Len(tasks[R])
  BY <1>3, <1>4
<1>6. /\ m.run = R /\ m.work = mem[p].work /\ m.done = mem[p].done
      /\ m.analyzed = mem[p].analyzed /\ m.failed = mem[p].failed
      /\ m.broken = mem[p].broken /\ m.outcome = "success"
  BY <1>3 DEF Memory
<1>7. m \in Memory
  <2>1. t[2] \in Ips /\ mem[p].scan \ {t} \in SUBSET (Subnets \X Ips)
    BY <1>3 DEF Memory
  <2> QED
    BY <1>3, <2>1 DEF Memory
<1>8. Go(p, "snmp", m) /\ tasks' = [tasks EXCEPT ![R] = list]
  BY <1>1
<1> HIDE DEF m
<1>9. Books("snmp", m, runs[R], list, StoredIn(snapshots, R),
            AnalysedIn(snapshots, R), Pks, nextPk)
  BY <1>2, <1>3, <1>6, <1>7, BooksTask
<1> HIDE DEF list
<1> QED
  BY <1>2, <1>5, <1>6, <1>8, <1>9, WriteBooks

LEMMA NextDeviceBooks ==
    ASSUME BooksInv, TypeOK', AddressInv', NEW p \in Procs, NextDevice(p)
    PROVE  BooksInv'
<1> DEFINE R == mem[p].run
<1>1. /\ pc[p] = "next" /\ Active(pc[p]) /\ mem[p].work # "discovery"
      /\ UNCHANGED <<devices, nextPk, runs, snapshots>>
  BY DEF NextDevice, Active
<1>2. PICK d \in mem[p].rows :
        /\ Exists(d.pk)
        /\ tasks' = [tasks EXCEPT ![R] = Append(@, NewTask(d.pk))]
        /\ Go(p, IF d.enabled THEN "ssh" ELSE "save",
                 [mem[p] EXCEPT !.rows = @ \ {d}, !.hand = d.pk,
                                !.outcome = IF d.enabled THEN "success" ELSE "skipped"])
  BY DEF NextDevice
<1> DEFINE list == Append(tasks[R], NewTask(d.pk))
           o == IF d.enabled THEN "success" ELSE "skipped"
           next == IF d.enabled THEN "ssh" ELSE "save"
           left == mem[p].rows \ {d}
           m == [mem[p] EXCEPT !.rows = left, !.hand = d.pk, !.outcome = o]
<1>3. /\ mem[p] \in Memory /\ R \in DOMAIN runs /\ tasks[R] \in Seq(Task) /\ TypeOK
      /\ Books("next", mem[p], runs[R], tasks[R], StoredIn(snapshots, R),
               AnalysedIn(snapshots, R), Pks, nextPk)
  BY <1>1, InBooks
<1>4. /\ left \in SUBSET [pk : Nat, enabled : BOOLEAN]
      /\ o = (IF next = "save" THEN "skipped" ELSE "success") /\ next \in {"ssh", "save"}
      /\ o \in {"success", "skipped"}
  BY <1>3 DEF Memory
<1>5. d.pk \in Pks /\ d.pk < nextPk /\ d.pk \in Nat /\ d.pk # 0
  BY <1>2, <1>3 DEF Exists, Pks, TypeOK, Device
<1>6. NewTask(d.pk) \in Task
  BY <1>5 DEF NewTask, Task
<1>7. /\ list \in Seq(Task) /\ Len(list) >= Len(tasks[R])
      /\ \A i \in 1..Len(tasks[R]) : list[i] = tasks[R][i]
  BY <1>3, <1>6
<1>8. Go(p, next, m) /\ tasks' = [tasks EXCEPT ![R] = list]
  BY <1>2
<1> HIDE DEF next, o, left
<1>9. /\ m \in Memory /\ m.run = R /\ m.work = mem[p].work /\ m.done = mem[p].done
      /\ m.analyzed = mem[p].analyzed /\ m.failed = mem[p].failed
      /\ m.broken = mem[p].broken /\ m.outcome = o /\ m.hand = d.pk
  BY <1>3, <1>4, <1>5 DEF Memory
<1> HIDE DEF m
<1>10. Books(next, m, runs[R], list, StoredIn(snapshots, R),
             AnalysedIn(snapshots, R), Pks, nextPk)
  <2>1. m.outcome = IF next = "save" THEN "skipped" ELSE "success"
    BY <1>4, <1>9
  <2>2. next \in {"snmp", "ssh", "save"} /\ next # "snmp"
    BY <1>4
  <2> QED
    BY <1>1, <1>3, <1>5, <1>9, <2>1, <2>2, BooksTask
<1> HIDE DEF list
<1> QED
  BY <1>1, <1>7, <1>8, <1>9, <1>10, WriteBooks

LEMMA SaveTaskBooks ==
    ASSUME BooksInv, TypeOK', AddressInv', NEW p \in Procs, SaveTask(p)
    PROVE  BooksInv'
<1> DEFINE R == mem[p].run
           t == [status |-> mem[p].outcome, device |-> Linked(p)]
           list == [tasks[R] EXCEPT ![Len(tasks[R])] = t]
           m == [mem[p] EXCEPT !.hand = 0, !.at = NoIp, !.outcome = "success"]
<1>1. /\ pc[p] = "save" /\ Active(pc[p]) /\ "save" \in InTask
      /\ UNCHANGED <<devices, nextPk, runs, snapshots>>
      /\ Linked(p) = 0 \/ Exists(Linked(p))
      /\ Go(p, "next", m) /\ tasks' = [tasks EXCEPT ![R] = list]
  BY DEF SaveTask, Active, InTask
<1>2. /\ mem[p] \in Memory /\ R \in DOMAIN runs /\ tasks[R] \in Seq(Task) /\ TypeOK
      /\ Books("save", mem[p], runs[R], tasks[R], StoredIn(snapshots, R),
               AnalysedIn(snapshots, R), Pks, nextPk)
      /\ Len(tasks[R]) > 0
  BY <1>1, InBooks
<1>3. t \in Task /\ t.status = mem[p].outcome /\ t.device = Linked(p)
  BY <1>2 DEF Linked, Task, Memory
<1>4. m.run = R
  BY <1>2 DEF Memory
<1>5. mem[p].work # "discovery" =>
         /\ mem[p].hand \in Pks /\ Linked(p) = mem[p].hand
         /\ tasks[R][Len(tasks[R])].device = mem[p].hand
  BY <1>1, <1>2 DEF Linked, Exists, Books, Sound, InHand
<1> HIDE DEF t
<1>6. Books("next", m, runs[R], list, StoredIn(snapshots, R),
            AnalysedIn(snapshots, R), Pks, nextPk)
  BY <1>2, <1>3, <1>5, BooksSave
<1>7. list \in Seq(Task) /\ Len(list) = Len(tasks[R]) /\ Len(tasks[R]) \in Nat
  BY <1>2, <1>3, ExceptSeq
<1>8. /\ Len(list) >= Len(tasks[R])
      /\ mem[p].work # "discovery" =>
            \A i \in 1..Len(tasks[R]) : list[i].device = tasks[R][i].device
  BY <1>2, <1>3, <1>5, <1>7
<1> HIDE DEF list, m
<1> QED
  BY <1>1, <1>4, <1>6, <1>7, <1>8, WriteBooks

(* An answer to SSH: a snapshot for the task in hand, which had none.      *)
LEMMA StoreBooks ==
    ASSUME BooksInv, TypeOK', AddressInv', NEW p \in Procs, StoreSnapshot(p)
    PROVE  BooksInv'
<1> DEFINE R == mem[p].run
           T == tasks[R]
           x == [run |-> R, task |-> Len(T), device |-> mem[p].hand, analysed |-> FALSE]
           m == [mem[p] EXCEPT !.done = @ + 1]
           S == StoredIn(snapshots, R)
           A == AnalysedIn(snapshots, R)
<1>1. /\ pc[p] = "ssh" /\ Active(pc[p]) /\ "ssh" \in InTask /\ Exists(mem[p].hand)
      /\ UNCHANGED <<devices, nextPk, runs, tasks>>
  BY DEF StoreSnapshot, Active, InTask
<1>2. /\ mem[p] \in Memory /\ R \in DOMAIN runs /\ T \in Seq(Task) /\ TypeOK
      /\ runs[R].status = "running" /\ runs[R].work = mem[p].work
      /\ Books("ssh", mem[p], runs[R], T, S, A, Pks, nextPk)
      /\ Len(T) > 0
      /\ \A q \in Procs \ {p} : Active(pc[q]) => mem[q].run # R
  BY <1>1, InBooks
<1>3. A \in SUBSET S
  BY AnalysedStored
<1>4. /\ x.run = R /\ x.task = Len(T) /\ x.device = mem[p].hand /\ x.analysed = FALSE
      /\ snapshots' = snapshots \cup {x} /\ Go(p, "touch_collected", m)
  BY DEF StoreSnapshot
<1>5. m.run = R
  BY <1>2 DEF Memory
<1> HIDE DEF S, A
<1>6. Books("touch_collected", m, runs[R], T, S \cup {Len(T)}, A, Pks, nextPk)
  BY <1>2, <1>3, BooksStore
<1> HIDE DEF x, m
<1>7. StoredIn(snapshots', R) = S \cup {Len(T)} /\ AnalysedIn(snapshots', R) = A
  BY <1>4 DEF StoredIn, AnalysedIn, S, A
<1>8. mem[p].work # "discovery" /\ Len(T) \notin S
  BY <1>2 DEF Books, Sound, Covered
<1>9. Filed'
  <2>1. \A s \in snapshots : s.run = R => s.task # Len(T)
    BY <1>8 DEF S, StoredIn
  <2>2. T[Len(T)].device = mem[p].hand
    BY <1>1, <1>2, <1>8 DEF Books, InHand, Exists
  <2>3. Len(T) \in DOMAIN T
    BY <1>2
  <2>4. \A s \in snapshots' :
           /\ s.run \in DOMAIN runs /\ runs[s.run].work # "discovery"
           /\ s.task \in DOMAIN tasks[s.run]
           /\ s.device = tasks[s.run][s.task].device
    BY <1>2, <1>4, <1>8, <2>2, <2>3 DEF BooksInv, Filed
  <2>5. \A s, t \in snapshots' : s.run = t.run /\ s.task = t.task => s = t
    BY <1>4, <2>1 DEF BooksInv, Filed
  <2> QED
    BY <1>1, <2>4, <2>5 DEF Filed
<1>10. \A r \in DOMAIN runs \ {R} :
          /\ runs'[r] = runs[r] /\ tasks'[r] = tasks[r]
          /\ {y \in snapshots' : y.run = r} = {y \in snapshots : y.run = r}
  BY <1>1, <1>4
<1>11. KeysGrow /\ Pks' = Pks /\ nextPk' = nextPk
  BY <1>1, <1>2, KeysStay
<1>12. Books("touch_collected", m, runs'[R], tasks'[R], StoredIn(snapshots', R),
             AnalysedIn(snapshots', R), Pks', nextPk')
  BY <1>1, <1>6, <1>7, <1>11
<1>13. DOMAIN runs' \subseteq DOMAIN runs \cup {R} /\ runs'[R].status = "running"
  BY <1>1, <1>2
<1> HIDE DEF R, T
<1> QED
  BY <1>2, <1>4, <1>5, <1>9, <1>10, <1>11, <1>12, <1>13, StepBooks

(* The analysis marks the snapshot of the task in hand.                    *)
LEMMA AnalyzeBooks ==
    ASSUME BooksInv, TypeOK', AddressInv', NEW p \in Procs, Analyze(p)
    PROVE  BooksInv'
<1> DEFINE R == mem[p].run
           T == tasks[R]
           S == StoredIn(snapshots, R)
           A == AnalysedIn(snapshots, R)
           own == {s \in snapshots : s.run = mem[p].run /\ s.task = Len(tasks[s.run])}
           f == [mem[p] EXCEPT !.failed = @ + 1]
           a == [mem[p] EXCEPT !.analyzed = @ + 1]
<1>1. /\ pc[p] = "analyze" /\ Active(pc[p]) /\ "analyze" \in InTask
      /\ UNCHANGED <<devices, nextPk, runs, tasks>>
  BY DEF Analyze, Active, InTask
<1>2. /\ mem[p] \in Memory /\ R \in DOMAIN runs /\ T \in Seq(Task) /\ TypeOK
      /\ runs[R].status = "running" /\ runs[R].work = mem[p].work
      /\ Books("analyze", mem[p], runs[R], T, S, A, Pks, nextPk)
      /\ Len(T) > 0
      /\ \A q \in Procs \ {p} : Active(pc[q]) => mem[q].run # R
  BY <1>1, InBooks
<1>3. KeysGrow /\ Pks' = Pks /\ nextPk' = nextPk
  BY <1>1, <1>2, KeysStay
<1>4. f.run = R /\ a.run = R
  BY <1>2 DEF Memory
<1>5. CASE UNCHANGED snapshots /\ Go(p, "save", f)
  <2>1. Books("save", f, runs[R], T, S, A, Pks, nextPk)
    BY <1>2, BooksUnanalysed
  <2> HIDE DEF f
  <2> QED
    BY <1>1, <1>3, <1>4, <1>5, <2>1, QuietBooks
<1>6. CASE /\ snapshots' = (snapshots \ own) \cup {[s EXCEPT !.analysed = TRUE] : s \in own}
           /\ Go(p, "save", a)
  <2> DEFINE mark(s) == IF s.run = R /\ s.task = Len(T) THEN [s EXCEPT !.analysed = TRUE] ELSE s
  <2>1. snapshots \subseteq Snapshot
    BY <1>2 DEF TypeOK
  <2>2. \A s \in snapshots :
           /\ mark(s).run = s.run /\ mark(s).task = s.task /\ mark(s).device = s.device
           /\ (s.run = R /\ s.task = Len(T)) => mark(s).analysed
           /\ ~(s.run = R /\ s.task = Len(T)) => mark(s) = s
    BY <2>1 DEF Snapshot
  <2>3. snapshots' = {mark(s) : s \in snapshots}
    BY <1>6
  <2> HIDE DEF mark
  <2>4. A \in SUBSET S
    BY AnalysedStored
  <2> HIDE DEF S, A
  <2>5. Len(T) \in S
    BY <1>2 DEF Books, Sound, Covered, Won
  <2>6. Books("save", a, runs[R], T, S, A \cup {Len(T)}, Pks, nextPk)
    BY <1>2, <2>4, BooksAnalysed
  <2> HIDE DEF a, T
  <2>7. StoredIn(snapshots', R) = S
    BY <2>2, <2>3 DEF StoredIn, S
  <2>8. AnalysedIn(snapshots', R) = A \cup {Len(T)}
    <3>1. PICK s \in snapshots : s.run = R /\ s.task = Len(T)
      BY <2>5 DEF S, StoredIn
    <3>2. \A y \in snapshots : y.run = R /\ y.task = Len(T) => mark(y).analysed
      BY <2>2
    <3>3. ASSUME NEW y \in snapshots, mark(y).run = R, mark(y).analysed
          PROVE  mark(y).task \in A \cup {Len(T)}
      BY <2>2, <3>3 DEF AnalysedIn, A
    <3>4. ASSUME NEW y \in snapshots, y.run = R, y.analysed
          PROVE  mark(y).run = R /\ mark(y).analysed /\ mark(y).task = y.task
      BY <2>2, <3>4
    <3>5. AnalysedIn(snapshots', R) \subseteq A \cup {Len(T)}
      BY <2>3, <3>3 DEF AnalysedIn
    <3>6. A \subseteq AnalysedIn(snapshots', R)
      BY <2>3, <3>4 DEF AnalysedIn, A
    <3>7. Len(T) \in AnalysedIn(snapshots', R)
      <4>1. mark(s) \in snapshots' /\ mark(s).run = R /\ mark(s).analysed /\ mark(s).task = Len(T)
        BY <2>2, <2>3, <3>1
      <4> QED
        BY <4>1 DEF AnalysedIn
    <3> QED
      BY <3>5, <3>6, <3>7
  <2>9. Filed'
    BY <1>1, <2>2, <2>3 DEF BooksInv, Filed
  <2>10. \A r \in DOMAIN runs \ {R} :
            /\ runs'[r] = runs[r] /\ tasks'[r] = tasks[r]
            /\ {y \in snapshots' : y.run = r} = {y \in snapshots : y.run = r}
    <3>1. \A s \in snapshots : s.run # R => mark(s) = s
      BY DEF mark
    <3> QED
      BY <1>1, <2>2, <2>3, <3>1
  <2>11. Books("save", a, runs'[R], tasks'[R], StoredIn(snapshots', R),
               AnalysedIn(snapshots', R), Pks', nextPk')
    BY <1>1, <1>3, <2>6, <2>7, <2>8 DEF T
  <2>12. DOMAIN runs' \subseteq DOMAIN runs \cup {R} /\ runs'[R].status = "running"
    BY <1>1, <1>2
  <2>13. a.run = R /\ Go(p, "save", a)
    BY <1>4, <1>6
  <2> HIDE DEF R
  <2> QED
    BY <1>2, <1>3, <2>9, <2>10, <2>11, <2>12, <2>13, StepBooks
<1> QED
  BY <1>5, <1>6 DEF Analyze

(* run.save: what the process counted becomes what the run says.           *)
LEMMA FinishBooks ==
    ASSUME BooksInv, TypeOK', AddressInv', NEW p \in Procs, FinishRun(p)
    PROVE  BooksInv'
<1> DEFINE R == mem[p].run
           run == [work |-> runs[R].work, status |-> Verdict(mem[p]), done |-> mem[p].done,
                   analyzed |-> mem[p].analyzed, failed |-> mem[p].failed,
                   broken |-> mem[p].broken]
           m == IF mem[p].then = {} THEN Idle ELSE [Idle EXCEPT !.then = mem[p].then]
           next == IF mem[p].then = {} THEN "idle" ELSE "continue"
<1>1. /\ pc[p] \in {"next", "finish"} /\ Active(pc[p])
      /\ UNCHANGED <<devices, nextPk, tasks, snapshots>>
      /\ runs' = [runs EXCEPT ![R] = run] /\ Go(p, next, m)
  BY DEF FinishRun, Active
<1>2. /\ mem[p] \in Memory /\ R \in DOMAIN runs /\ tasks[R] \in Seq(Task) /\ TypeOK
      /\ runs[R].status = "running" /\ runs[R].work = mem[p].work
      /\ Books(pc[p], mem[p], runs[R], tasks[R], StoredIn(snapshots, R),
               AnalysedIn(snapshots, R), Pks, nextPk)
      /\ \A q \in Procs \ {p} : Active(pc[q]) => mem[q].run # R
  BY <1>1, InBooks
<1>3. /\ run.work = mem[p].work /\ run.status = Verdict(mem[p]) /\ run.done = mem[p].done
      /\ run.analyzed = mem[p].analyzed /\ run.failed = mem[p].failed
      /\ run.broken = mem[p].broken /\ run.work = runs[R].work
  BY <1>2
<1>4. ~Active(next)
  BY DEF Active
<1> HIDE DEF run, m, next
<1>5. Told(run, tasks[R], StoredIn(snapshots, R), AnalysedIn(snapshots, R))
  BY <1>1, <1>2, <1>3, BooksFinish
<1>6. /\ DOMAIN runs' = DOMAIN runs /\ runs'[R] = run
      /\ \A r \in DOMAIN runs \ {R} : runs'[r] = runs[r]
  BY <1>1, <1>2 DEF TypeOK
<1>7. Filed'
  BY <1>1, <1>3, <1>6 DEF BooksInv, Filed
<1>8. KeysGrow
  BY <1>1, <1>2, KeysStay
<1>9. \A r \in DOMAIN runs \ {R} :
         /\ runs'[r] = runs[r] /\ tasks'[r] = tasks[r]
         /\ {x \in snapshots' : x.run = r} = {x \in snapshots : x.run = r}
  BY <1>1, <1>6
<1>10. Told(runs'[R], tasks'[R], StoredIn(snapshots', R), AnalysedIn(snapshots', R))
  BY <1>1, <1>5, <1>6
<1>11. DOMAIN runs' \subseteq DOMAIN runs \cup {R} /\ Go(p, next, m)
  BY <1>1, <1>6
<1> HIDE DEF R
<1> QED
  BY <1>2, <1>4, <1>7, <1>8, <1>9, <1>10, <1>11, StepBooks

(* A process that dies leaves its run as it is, RUNNING for good.          *)
LEMMA CrashBooks ==
    ASSUME BooksInv, TypeOK', AddressInv', NEW p \in Procs, Crash(p)
    PROVE  BooksInv'
<1>1. UNCHANGED <<devices, nextPk, runs, tasks, snapshots>> /\ Go(p, "idle", Idle)
  BY DEF Crash, db
<1>2. TypeOK /\ 0 \notin DOMAIN runs
  BY DEF BooksInv, AddressInv, TypeOK
<1>3. \A q \in Procs \ {p} : Active(pc[q]) => mem[q].run # 0
  BY <1>2, InBooks
<1>4. Filed' /\ KeysGrow
  BY <1>1, <1>2, KeysStay DEF BooksInv, Filed
<1>5. \A r \in DOMAIN runs \ {0} :
         /\ runs'[r] = runs[r] /\ tasks'[r] = tasks[r]
         /\ {x \in snapshots' : x.run = r} = {x \in snapshots : x.run = r}
  BY <1>1
<1>6. DOMAIN runs' \subseteq DOMAIN runs \cup {0} /\ 0 \notin DOMAIN runs'
  BY <1>1, <1>2
<1>7. ~Active("idle")
  BY DEF Active
<1> HIDE DEF Idle
<1> QED
  BY <1>1, <1>3, <1>4, <1>5, <1>6, <1>7, StepBooks

(* New and edited devices change nothing of any run.                       *)
LEMMA DevicesBooks ==
    ASSUME BooksInv, TypeOK', AddressInv', UNCHANGED <<runs, tasks, snapshots, pc, mem>>,
           KeysGrow
    PROVE  BooksInv'
<1>1. \A p \in Procs : Kept(p)'
  BY OthersKept
<1>2. Owned' /\ Filed'
  BY DEF BooksInv, Owned, Filed
<1>3. \A r \in DOMAIN runs' : runs'[r].status # "running" =>
         Told(runs'[r], tasks'[r], StoredIn(snapshots', r), AnalysedIn(snapshots', r))
  BY DEF BooksInv, Finished
<1> QED
  BY <1>1, <1>2, <1>3 DEF BooksInv, Finished

(* A deletion orphans tasks and snapshots alike.                           *)
LEMMA DeleteBooks ==
    ASSUME BooksInv, TypeOK', AddressInv', NEW d \in devices, DeleteDevice(d)
    PROVE  BooksInv'
<1> DEFINE list(T) == [i \in DOMAIN T |-> Orphaned(T[i], d)]
<1>1. /\ devices' = devices \ {d} /\ UNCHANGED <<nextPk, runs, pc, mem>>
      /\ snapshots' = {Orphaned(s, d) : s \in snapshots}
      /\ tasks' = [r \in DOMAIN tasks |-> list(tasks[r])]
  BY DEF DeleteDevice
<1>2. /\ TypeOK /\ Unique /\ d \in Device /\ snapshots \in SUBSET Snapshot
      /\ runs \in Seq(Run) /\ tasks \in Seq(Seq(Task)) /\ Len(tasks) = Len(runs)
      /\ DOMAIN tasks = DOMAIN runs
  BY DEF BooksInv, AddressInv, TypeOK
<1>3. Pks' = Pks \ {d.pk}
  BY <1>1, <1>2 DEF Pks, Unique
<1>4. \A r : /\ StoredIn(snapshots', r) = StoredIn(snapshots, r)
             /\ AnalysedIn(snapshots', r) = AnalysedIn(snapshots, r)
  BY <1>1, <1>2, OrphanedSnapshots
<1>5. \A r \in DOMAIN runs : tasks[r] \in Seq(Task) /\ tasks'[r] = list(tasks[r])
  BY <1>1, <1>2, ElementOfSeq
<1>6. ASSUME NEW p \in Procs, Active(pc[p])
      PROVE  Books(pc[p], mem[p], runs[mem[p].run], tasks'[mem[p].run],
                   StoredIn(snapshots', mem[p].run), AnalysedIn(snapshots', mem[p].run),
                   Pks', nextPk)
  <2> DEFINE R == mem[p].run
  <2>1. /\ mem[p] \in Memory /\ R \in DOMAIN runs /\ tasks[R] \in Seq(Task)
        /\ pc[p] \in InTask => Len(tasks[R]) > 0
        /\ Books(pc[p], mem[p], runs[R], tasks[R], StoredIn(snapshots, R),
                 AnalysedIn(snapshots, R), Pks, nextPk)
    BY <1>6, InBooks
  <2>2. Books(pc[p], mem[p], runs[R], list(tasks[R]), StoredIn(snapshots, R),
              AnalysedIn(snapshots, R), Pks \ {d.pk}, nextPk)
    BY <1>2, <2>1, BooksOrphaned
  <2> QED
    BY <1>3, <1>4, <1>5, <2>1, <2>2
<1>7. \A p \in Procs : Kept(p)'
  BY <1>1, <1>6 DEF Kept
<1>8. Owned'
  BY <1>1 DEF BooksInv, Owned
<1>9. ASSUME NEW r \in DOMAIN runs, runs[r].status # "running"
      PROVE  Told(runs[r], tasks'[r], StoredIn(snapshots', r), AnalysedIn(snapshots', r))
  <2>1. Told(runs[r], tasks[r], StoredIn(snapshots, r), AnalysedIn(snapshots, r))
    BY <1>9 DEF BooksInv, Finished
  <2>2. Told(runs[r], list(tasks[r]), StoredIn(snapshots, r), AnalysedIn(snapshots, r))
    BY <1>2, <1>5, <2>1, ToldOrphaned
  <2> QED
    BY <1>4, <1>5, <2>2
<1>10. Filed'
  <2>1. \A s \in snapshots :
           /\ Orphaned(s, d).run = s.run /\ Orphaned(s, d).task = s.task
           /\ Orphaned(s, d).device = IF s.device = d.pk THEN 0 ELSE s.device
    BY <1>2 DEF Orphaned, Snapshot
  <2>2. \A t \in Task : Orphaned(t, d).device = IF t.device = d.pk THEN 0 ELSE t.device
    BY DEF Orphaned, Task
  <2>3. ASSUME NEW s \in snapshots
        PROVE  /\ s.run \in DOMAIN runs /\ runs[s.run].work # "discovery"
               /\ s.task \in DOMAIN tasks'[s.run]
               /\ Orphaned(s, d).device = tasks'[s.run][s.task].device
    <3>1. /\ s.run \in DOMAIN runs /\ runs[s.run].work # "discovery"
          /\ s.task \in DOMAIN tasks[s.run] /\ s.device = tasks[s.run][s.task].device
      BY DEF BooksInv, Filed
    <3>2. tasks[s.run] \in Seq(Task) /\ tasks'[s.run] = list(tasks[s.run])
      BY <1>5, <3>1
    <3>3. tasks[s.run][s.task] \in Task
      BY <3>1, <3>2
    <3>4. /\ DOMAIN tasks'[s.run] = DOMAIN tasks[s.run]
          /\ tasks'[s.run][s.task] = Orphaned(tasks[s.run][s.task], d)
      BY <3>1, <3>2
    <3> QED
      BY <2>1, <2>2, <3>1, <3>3, <3>4
  <2>4. \A s, t \in snapshots : s.run = t.run /\ s.task = t.task => s = t
    BY DEF BooksInv, Filed
  <2> QED
    BY <1>1, <2>1, <2>3, <2>4 DEF Filed
<1> QED
  BY <1>1, <1>7, <1>8, <1>9, <1>10 DEF BooksInv, Finished

LEMMA OperatorBooks ==
    ASSUME BooksInv, TypeOK', AddressInv', Operator
    PROVE  BooksInv'
<1>1. /\ TypeOK /\ nextPk \in Nat /\ devices \subseteq Device
  BY DEF BooksInv, AddressInv, TypeOK
<1>2. ASSUME NEW n \in Manual, EnterDevice(n) PROVE BooksInv'
  <2> DEFINE e == [pk |-> nextPk, name |-> n, ip |-> NoIp, enabled |-> TRUE,
                 edited |-> FALSE]
  <2>1. /\ e.pk = nextPk /\ devices' = devices \cup {e} /\ nextPk' = nextPk + 1
        /\ UNCHANGED <<runs, tasks, snapshots, pc, mem>>
    BY <1>2 DEF EnterDevice
  <2> HIDE DEF e
  <2>2. KeysGrow
    BY <1>1, <2>1 DEF KeysGrow, Pks
  <2> QED
    BY <2>1, <2>2, DevicesBooks
<1>3. ASSUME NEW d \in devices, NEW form \in Forms, EditDevice(d, form) PROVE BooksInv'
  <2> DEFINE e == [d EXCEPT !.name = form.name, !.ip = form.ip, !.enabled = form.enabled,
                            !.edited = @ \/ form.name # d.name \/ form.ip \notin {d.ip, NoIp}]
  <2>1. e.pk = d.pk
    BY <1>1 DEF Device
  <2>2. /\ devices' = (devices \ {d}) \cup {e}
        /\ UNCHANGED <<nextPk, runs, tasks, snapshots, pc, mem>>
    BY <1>3 DEF EditDevice
  <2> HIDE DEF e
  <2>3. KeysGrow
    BY <1>1, <2>1, <2>2 DEF KeysGrow, Pks
  <2> QED
    BY <2>2, <2>3, DevicesBooks
<1> QED
  BY <1>2, <1>3, DeleteBooks DEF Operator

-----------------------------------------------------------------------------
LEMMA BooksInit == Init => BooksInv
<1> SUFFICES ASSUME Init PROVE BooksInv
  OBVIOUS
<1>1. AddressInv
  BY AddressInit
<1>2. runs = <<>> /\ snapshots = {} /\ \A p \in Procs : pc[p] = "idle"
  BY DEF Init
<1>3. \A p \in Procs : ~Active(pc[p])
  BY <1>2 DEF Active
<1> QED
  BY <1>1, <1>2, <1>3 DEF BooksInv, Owned, Filed, Kept

LEMMA BooksStep == BooksInv /\ [Next]_vars => BooksInv'
<1> SUFFICES ASSUME BooksInv, [Next]_vars PROVE BooksInv'
  OBVIOUS
<1>1. AddressInv' /\ TypeOK'
  BY AddressStep DEF BooksInv, AddressInv
<1>2. CASE Operator
  BY <1>1, <1>2, OperatorBooks
<1>3. ASSUME NEW p \in Procs, Start(p) \/ Step(p) \/ Crash(p) PROVE BooksInv'
  BY <1>1, <1>3, StartBooks, QueryBooks, NextAddressBooks, NextDeviceBooks, MatchIpBooks,
     FailBooks, BreakBooks, TouchBooks, SetIpBooks, CreateDeviceBooks, StoreBooks, AnalyzeBooks, SaveTaskBooks,
     FinishBooks, CrashBooks DEF Step
<1>4. CASE UNCHANGED vars
  <2>1. KeysGrow /\ UNCHANGED <<runs, tasks, snapshots, pc, mem>>
    BY <1>4, KeysStay DEF vars, db, BooksInv, AddressInv
  <2> QED
    BY <1>1, <2>1, DevicesBooks
<1> QED
  BY <1>2, <1>3, <1>4 DEF Next

(* Snapshots of one run are as many as their tasks.                        *)
LEMMA OnePerTask ==
    ASSUME NEW X, \A s, t \in X : s.task = t.task => s = t,
           IsFiniteSet({s.task : s \in X})
    PROVE  Cardinality(X) = Cardinality({s.task : s \in X})
<1> DEFINE K == {s.task : s \in X}
           f == [s \in X |-> s.task]
<1>1. f \in Injection(X, K)
  BY DEF Injection, IsInjective
<1>2. f \in Surjection(X, K)
  BY DEF Surjection
<1> HIDE DEF f
<1> QED
  BY <1>1, <1>2, FS_Injection

(* The rows of a finished run.                                             *)
LEMMA ToldRun ==
    ASSUME BooksInv, NEW r \in DOMAIN runs, Finished(r)
    PROVE  /\ tasks[r] \in Seq(Task) /\ runs[r] \in Run
           /\ Told(runs[r], tasks[r], StoredIn(snapshots, r), AnalysedIn(snapshots, r))
           /\ \A st : Num(tasks[r], st) \in Nat /\ Count(r, st) = Num(tasks[r], st)
<1>1. /\ runs \in Seq(Run) /\ tasks \in Seq(Seq(Task)) /\ Len(tasks) = Len(runs)
      /\ r \in 1..Len(runs)
  BY DEF BooksInv, AddressInv, TypeOK
<1>2. tasks[r] \in Seq(Task) /\ runs[r] \in Run
  BY <1>1, ElementOfSeq
<1>3. \A st : Num(tasks[r], st) \in Nat /\ Count(r, st) = Num(tasks[r], st)
  BY <1>2, WithFinite DEF Count, Num, With
<1> QED
  BY <1>2, <1>3 DEF BooksInv

(* At most the last task of a run has no result.                           *)
LEMMA OnePending ==
    ASSUME NEW T \in Seq(Task), NEW X \in SUBSET {Len(T)}
    PROVE  Cardinality(X) \in Nat /\ Cardinality(X) <= 1
<1>1. IsFiniteSet({Len(T)}) /\ Cardinality({Len(T)}) = 1
  BY FS_Singleton
<1> QED
  BY <1>1, FS_Subset, FS_CardinalityType

(* What a collection counted as done, between the successes and the        *)
(* successes and the failures.                                             *)
LEMMA DoneBetween ==
    ASSUME NEW m, m.work # "discovery", NEW T \in Seq(Task), With(T, "pending") = {},
           NEW S, NEW A, Archived(m, T, S, A)
    PROVE  m.done \in Nat /\ Num(T, "success") <= m.done
           /\ m.done <= Num(T, "success") + Num(T, "failed")
<1> DEFINE W == With(T, "success")
           F == With(T, "failed")
<1>1. /\ IsFiniteSet(S) /\ Cardinality(S) = m.done /\ W \in SUBSET S /\ S \in SUBSET (W \cup F)
  BY DEF Archived
<1>2. IsFiniteSet(W) /\ IsFiniteSet(F) /\ Cardinality(W) \in Nat /\ Cardinality(F) \in Nat
  BY WithFinite DEF Num
<1>3. W \cap F = {}
  BY DEF With
<1> HIDE DEF W, F
<1>4. IsFiniteSet(W \cup F) /\ Cardinality(W \cup F) = Cardinality(W) + Cardinality(F)
  <2>1. /\ IsFiniteSet(W \cup F)
        /\ Cardinality(W \cup F) = Cardinality(W) + Cardinality(F) - Cardinality(W \cap F)
    BY <1>2, FS_Union
  <2>2. Cardinality(W \cap F) = 0
    BY <1>3, FS_EmptySet
  <2> QED
    BY <1>2, <2>1, <2>2
<1>5. Cardinality(W) <= Cardinality(S) /\ Cardinality(S) \in Nat
  BY <1>1, FS_Subset, FS_CardinalityType
<1>6. Cardinality(S) <= Cardinality(W \cup F)
  BY <1>1, <1>4, FS_Subset
<1> QED
  BY <1>1, <1>2, <1>4, <1>5, <1>6 DEF Num, W, F

LEMMA BooksTellTasks == BooksInv => RunTellsItsTasks
<1> SUFFICES ASSUME BooksInv, NEW r \in DOMAIN runs, Finished(r)
             PROVE  IF runs[r].broken THEN runs[r].status = "failed" /\ Count(r, "pending") <= 1
                    ELSE /\ Count(r, "pending") = 0
                         /\ runs[r].failed = Count(r, "failed") +
                               (IF runs[r].work = "collect_analyze"
                                THEN Count(r, "success") - runs[r].analyzed ELSE 0)
                         /\ runs[r].done \in Count(r, "success") ..
                               Count(r, "success") + (IF runs[r].work = "discovery"
                                                      THEN 0 ELSE Count(r, "failed"))
                         /\ runs[r].status = "success" => runs[r].failed = 0
                         /\ runs[r].status = "partial" =>
                               runs[r].failed > 0 /\ runs[r].done > 0
                         /\ runs[r].status = "failed" =>
                               Count(r, "success") = 0 /\ Count(r, "failed") > 0
  BY DEF RunTellsItsTasks
<1> DEFINE T == tasks[r]
           run == runs[r]
           S == StoredIn(snapshots, r)
           A == AnalysedIn(snapshots, r)
<1>1. /\ T \in Seq(Task) /\ Told(run, T, S, A)
      /\ \A st : Num(T, st) \in Nat /\ Count(r, st) = Num(T, st)
      /\ run.done \in Nat /\ run.failed \in Nat /\ run.analyzed \in Nat
  BY ToldRun DEF Run
<1> HIDE DEF T, run, S, A
<1>2. CASE run.broken
  <2>1. run.status = "failed" /\ With(T, "pending") \in SUBSET {Len(T)}
    BY <1>1, <1>2 DEF Told
  <2>2. Num(T, "pending") <= 1
    BY <1>1, <2>1, OnePending DEF Num
  <2> QED
    BY <1>1, <1>2, <2>1, <2>2 DEF run
<1>3. CASE ~run.broken
  <2>1. /\ With(T, "pending") = {}
        /\ run.work = "discovery" => run.done = Num(T, "success")
        /\ run.work = "collect_analyze" =>
              run.failed + run.analyzed = Num(T, "failed") + Num(T, "success")
        /\ run.work # "collect_analyze" => run.failed = Num(T, "failed") /\ run.analyzed = 0
        /\ run.analyzed <= Num(T, "success")
        /\ run.status = IF run.failed > 0 /\ run.done > 0 THEN "partial"
                        ELSE IF run.failed > 0 THEN "failed" ELSE "success"
        /\ Archived(run, T, S, A)
    BY <1>1, <1>3 DEF Told
  <2>2. Num(T, "pending") = 0
    BY <2>1, FS_EmptySet DEF Num
  <2>3. run.work # "discovery" =>
           Num(T, "success") <= run.done /\ run.done <= Num(T, "success") + Num(T, "failed")
    BY <1>1, <2>1, DoneBetween
  <2>4. run.failed = Num(T, "failed") +
           (IF run.work = "collect_analyze" THEN Num(T, "success") - run.analyzed ELSE 0)
    BY <1>1, <2>1
  <2>5. run.done \in Num(T, "success") ..
           Num(T, "success") + (IF run.work = "discovery" THEN 0 ELSE Num(T, "failed"))
    BY <1>1, <2>1, <2>3
  <2>6. run.status = "success" => run.failed = 0
    BY <1>1, <2>1
  <2>7. run.status = "partial" => run.failed > 0 /\ run.done > 0
    BY <1>1, <2>1
  <2>8. run.status = "failed" => Num(T, "success") = 0 /\ Num(T, "failed") > 0
    <3>1. run.status = "failed" => run.failed > 0 /\ run.done = 0
      BY <1>1, <2>1
    <3>2. run.done = 0 => Num(T, "success") = 0
      BY <1>1, <2>1, <2>3
    <3>3. Num(T, "success") = 0 => run.failed = Num(T, "failed")
      BY <1>1, <2>1
    <3> QED
      BY <1>1, <3>1, <3>2, <3>3
  <2> QED
    BY <1>1, <1>3, <2>2, <2>4, <2>5, <2>6, <2>7, <2>8 DEF run
<1> QED
  BY <1>2, <1>3

LEMMA BooksMatchArchive == BooksInv => ArchiveMatchesTasks
<1> SUFFICES ASSUME BooksInv, NEW r \in DOMAIN runs, Finished(r), runs[r].work # "discovery"
             PROVE  LET stored == {s \in snapshots : s.run = r}
                        of(st) == {i \in DOMAIN tasks[r] : tasks[r][i].status = st}
                        kept   == {s.task : s \in stored}
                    IN  /\ Cardinality(stored) = runs[r].done
                        /\ of("success") \subseteq kept
                        /\ kept \cap of("skipped") = {}
                        /\ Cardinality(kept \cap of("pending")) <=
                              (IF runs[r].broken THEN 1 ELSE 0)
                        /\ \A s \in stored : s.device = tasks[r][s.task].device
                        /\ Cardinality({s \in stored : s.analysed}) = runs[r].analyzed
                        /\ \A s \in stored : s.analysed => s.task \notin of("failed")
  BY DEF ArchiveMatchesTasks
<1> DEFINE T == tasks[r]
           stored == {s \in snapshots : s.run = r}
           marked == {s \in stored : s.analysed}
           of(st) == {i \in DOMAIN T : T[i].status = st}
           kept == {s.task : s \in stored}
           known == {s.task : s \in marked}
<1>1. T \in Seq(Task) /\ Told(runs[r], T, StoredIn(snapshots, r), AnalysedIn(snapshots, r))
  BY ToldRun
<1>2. /\ \A st : of(st) = With(T, st)
      /\ StoredIn(snapshots, r) = kept /\ AnalysedIn(snapshots, r) = known
  BY DEF With, StoredIn, AnalysedIn
<1>3. /\ \A s \in stored : s.device = T[s.task].device
      /\ \A s, t \in stored : s.task = t.task => s = t
      /\ \A s, t \in marked : s.task = t.task => s = t
      /\ known \subseteq kept /\ \A s \in stored : s.analysed => s.task \in known
  BY DEF BooksInv, Filed
<1> HIDE DEF of
<1>4. Archived(runs[r], T, kept, known)
  BY <1>1, <1>2 DEF Told
<1>5. /\ IsFiniteSet(kept) /\ Cardinality(kept) = runs[r].done /\ of("success") \subseteq kept
      /\ kept \subseteq of("success") \cup of("failed") \cup of("pending")
      /\ Cardinality(known) = runs[r].analyzed /\ known \cap of("failed") = {}
  BY <1>2, <1>4 DEF Archived
<1>6. (of("success") \cup of("failed") \cup of("pending")) \cap of("skipped") = {}
  BY DEF of
<1>7. kept \cap of("skipped") = {}
  BY <1>5, <1>6
<1>8. IsFiniteSet(known)
  BY <1>3, <1>5, FS_Subset
<1>9. /\ Cardinality(stored) = Cardinality(kept)
      /\ Cardinality(marked) = Cardinality(known)
  BY <1>3, <1>5, <1>8, OnePerTask
<1>10. Cardinality(kept \cap of("pending")) <= (IF runs[r].broken THEN 1 ELSE 0)
  <2>1. CASE runs[r].broken
    <3>1. kept \cap of("pending") \in SUBSET {Len(T)}
      BY <1>1, <1>2, <2>1 DEF Told
    <3> QED
      BY <1>1, <2>1, <3>1, OnePending
  <2>2. CASE ~runs[r].broken
    <3>1. kept \cap of("pending") = {}
      BY <1>1, <1>2, <2>2 DEF Told
    <3> QED
      BY <2>2, <3>1, FS_EmptySet
  <2> QED
    BY <2>1, <2>2
<1>11. \A s \in stored : s.analysed => s.task \notin of("failed")
  BY <1>3, <1>5
<1> QED
  BY <1>3, <1>5, <1>7, <1>9, <1>10, <1>11 DEF of

(* What a finished run says of itself is what its tasks say, up to the     *)
(* devices it counted before their task failed, whatever other runs and    *)
(* the operators did meanwhile and whatever statement was refused.         *)
THEOREM RunsTell == Spec => []RunTellsItsTasks
  BY BooksInit, BooksStep, BooksTellTasks, PTL DEF Spec

(* The configurations a finished collection left in the archive are those  *)
(* its tasks and its counters say.                                         *)
THEOREM ArchiveMatches == Spec => []ArchiveMatchesTasks
  BY BooksInit, BooksStep, BooksMatchArchive, PTL DEF Spec

-----------------------------------------------------------------------------
(* A discovery writes one task for each address it takes from its scan.    *)
ScanOf(at, m, T) ==
    Active(at) /\ m.work = "discovery" /\ at # "finish" =>
        /\ m.scan \subseteq Scan
        /\ IsFiniteSet(Scan \ m.scan)
        /\ Cardinality(Scan \ m.scan) = Len(T)

(* The discoveries that ended without a general error scanned everything   *)
(* that was given to them.                                                 *)
AllScanned ==
    \A r \in DOMAIN runs :
        Finished(r) /\ runs[r].work = "discovery" /\ ~runs[r].broken =>
            Len(tasks[r]) = Cardinality(Scan)

\* What follows a discovery is no discovery.
NoSecond == \A p \in Procs : "discovery" \notin mem[p].then

ScanInv ==
    /\ BooksInv
    /\ \A p \in Procs : ScanOf(pc[p], mem[p], tasks[mem[p].run])
    /\ NoSecond
    /\ AllScanned

(* A step of p that leaves the lists of the other runs as long as they are. *)
LEMMA StepScans ==
    ASSUME ScanInv, BooksInv', NEW p \in Procs, NEW next, NEW m, Go(p, next, m),
           "discovery" \notin m.then,
           NEW R, \A q \in Procs \ {p} : Active(pc[q]) => mem[q].run # R,
           DOMAIN runs' \subseteq DOMAIN runs \cup {R},
           \A r \in DOMAIN runs \ {R} : runs'[r] = runs[r] /\ Len(tasks'[r]) = Len(tasks[r]),
           Active(next) => m.run = R /\ ScanOf(next, m, tasks'[R]),
           R \in DOMAIN runs' /\ runs'[R].status # "running" /\ runs'[R].work = "discovery"
              /\ ~runs'[R].broken => Len(tasks'[R]) = Cardinality(Scan)
    PROVE  ScanInv'
<1>1. /\ pc'[p] = next /\ mem'[p] = m /\ BooksInv
      /\ \A q \in Procs \ {p} : pc'[q] = pc[q] /\ mem'[q] = mem[q]
  BY DEF Go, ScanInv, BooksInv, AddressInv, TypeOK
<1>2. ScanOf(pc'[p], mem'[p], tasks'[mem'[p].run])
  BY <1>1 DEF ScanOf
<1>3. ASSUME NEW q \in Procs \ {p} PROVE ScanOf(pc'[q], mem'[q], tasks'[mem'[q].run])
  <2>1. CASE Active(pc[q])
    <3>1. mem[q].run \in DOMAIN runs \ {R}
      BY <1>1, <2>1, InBooks
    <3>2. Len(tasks'[mem[q].run]) = Len(tasks[mem[q].run])
      BY <3>1
    <3> QED
      BY <1>1, <1>3, <3>2 DEF ScanInv, ScanOf
  <2>2. CASE ~Active(pc[q])
    BY <1>1, <1>3, <2>2 DEF ScanOf
  <2> QED
    BY <2>1, <2>2
<1>4. AllScanned'
  BY DEF ScanInv, AllScanned, Finished
<1>5. NoSecond'
  BY <1>1 DEF ScanInv, NoSecond
<1> QED
  BY <1>2, <1>3, <1>4, <1>5 DEF ScanInv

(* A statement that neither starts a task of a discovery nor ends a run.   *)
LEMMA QuietScans ==
    ASSUME ScanInv, BooksInv', NEW p \in Procs, Active(pc[p]), pc[p] # "finish",
           NEW next, NEW m, Go(p, next, m), UNCHANGED runs,
           m.run = mem[p].run, m.work = mem[p].work, m.scan = mem[p].scan,
           m.then = mem[p].then,
           \A r \in DOMAIN runs :
               \/ Len(tasks'[r]) = Len(tasks[r])
               \/ r = mem[p].run /\ mem[p].work # "discovery"
    PROVE  ScanInv'
<1> DEFINE R == mem[p].run
<1>1. BooksInv
  BY DEF ScanInv
<1>2. /\ R \in DOMAIN runs /\ runs[R].status = "running"
      /\ \A q \in Procs \ {p} : Active(pc[q]) => mem[q].run # R
  BY <1>1, InBooks
<1>3. ScanOf(next, m, tasks'[R])
  BY <1>2 DEF ScanInv, ScanOf
<1>4. \A r \in DOMAIN runs \ {R} : runs'[r] = runs[r] /\ Len(tasks'[r]) = Len(tasks[r])
  OBVIOUS
<1>5. /\ m.run = R /\ DOMAIN runs' \subseteq DOMAIN runs \cup {R} /\ runs'[R].status = "running"
      /\ "discovery" \notin m.then
  BY <1>2 DEF ScanInv, NoSecond
<1> HIDE DEF R
<1> QED
  BY <1>2, <1>3, <1>4, <1>5, StepScans

(* The next address leaves the scan as its task enters the list.           *)
LEMMA NextAddressScans ==
    ASSUME ScanInv, BooksInv', NEW p \in Procs, NextAddress(p)
    PROVE  ScanInv'
<1> DEFINE R == mem[p].run
<1>1. PICK t \in mem[p].scan :
         /\ tasks' = [tasks EXCEPT ![R] = Append(@, NewTask(0))]
         /\ Go(p, "snmp", [mem[p] EXCEPT !.scan = @ \ {t}, !.at = t[2],
                                         !.outcome = "success"])
  BY DEF NextAddress
<1> DEFINE list == Append(tasks[R], NewTask(0))
           m == [mem[p] EXCEPT !.scan = @ \ {t}, !.at = t[2], !.outcome = "success"]
<1>2. /\ pc[p] = "next" /\ Active(pc[p]) /\ mem[p].work = "discovery" /\ BooksInv
      /\ UNCHANGED runs
  BY DEF NextAddress, Active, ScanInv
<1>3. /\ mem[p] \in Memory /\ R \in DOMAIN runs /\ tasks[R] \in Seq(Task) /\ TypeOK
      /\ runs[R].status = "running"
      /\ \A q \in Procs \ {p} : Active(pc[q]) => mem[q].run # R
  BY <1>2, InBooks
<1>4. /\ m.run = R /\ m.work = "discovery" /\ m.scan = mem[p].scan \ {t}
      /\ "discovery" \notin m.then
  BY <1>2, <1>3 DEF Memory, ScanInv, NoSecond
<1>5. NewTask(0) \in Task
  BY DEF NewTask, Task
<1>6. Len(list) = Len(tasks[R]) + 1
  BY <1>3, <1>5
<1>7. /\ DOMAIN tasks = DOMAIN runs /\ tasks'[R] = list
      /\ \A r \in DOMAIN runs \ {R} : tasks'[r] = tasks[r]
  BY <1>1, <1>3 DEF TypeOK
<1>8. /\ mem[p].scan \subseteq Scan /\ IsFiniteSet(Scan \ mem[p].scan)
      /\ Cardinality(Scan \ mem[p].scan) = Len(tasks[R])
  BY <1>2 DEF ScanInv, ScanOf
<1>9. Scan \ m.scan = (Scan \ mem[p].scan) \cup {t} /\ t \notin Scan \ mem[p].scan
  BY <1>4, <1>8
<1>10. /\ IsFiniteSet(Scan \ m.scan)
       /\ Cardinality(Scan \ m.scan) = Cardinality(Scan \ mem[p].scan) + 1
  BY <1>8, <1>9, FS_AddElement
<1>11. ScanOf("snmp", m, tasks'[R])
  BY <1>4, <1>6, <1>7, <1>8, <1>10 DEF ScanOf
<1>12. /\ \A r \in DOMAIN runs \ {R} : runs'[r] = runs[r] /\ Len(tasks'[r]) = Len(tasks[r])
       /\ DOMAIN runs' \subseteq DOMAIN runs \cup {R} /\ runs'[R].status = "running"
       /\ Go(p, "snmp", m)
  BY <1>1, <1>2, <1>3, <1>7
<1> HIDE DEF R, m
<1> QED
  BY <1>3, <1>4, <1>11, <1>12, StepScans

(* A new run has everything before it.                                     *)
LEMMA CreateRunScans ==
    ASSUME ScanInv, BooksInv', NEW p \in Procs, NEW m \in Memory, CreateRun(p, m),
           m.work = "discovery" => m.scan = Scan, "discovery" \notin m.then
    PROVE  ScanInv'
<1> DEFINE R == Len(runs) + 1
           next == IF m.work = "discovery" THEN "next" ELSE "query"
           n == [m EXCEPT !.run = R]
<1>1. /\ runs \in Seq(Run) /\ tasks \in Seq(Seq(Task)) /\ Len(tasks) = Len(runs)
      /\ Len(runs) \in Nat /\ BooksInv
  BY DEF ScanInv, BooksInv, AddressInv, TypeOK
<1>2. PICK run : /\ runs' = Append(runs, run) /\ run.status = "running"
                 /\ tasks' = Append(tasks, <<>>) /\ Go(p, next, n)
  BY DEF CreateRun
<1>3. /\ n.run = R /\ n.work = m.work /\ n.scan = m.scan /\ n.then = m.then
  BY DEF Memory
<1>4. /\ DOMAIN runs = 1..Len(runs) /\ DOMAIN runs' = 1..(Len(runs) + 1)
      /\ runs'[R] = run /\ tasks'[R] = <<>>
      /\ \A r \in DOMAIN runs : runs'[r] = runs[r] /\ tasks'[r] = tasks[r]
  BY <1>1, <1>2
<1> HIDE DEF R, next, n
<1>5. R \notin DOMAIN runs /\ DOMAIN runs' = DOMAIN runs \cup {R}
  BY <1>1, <1>4 DEF R
<1>6. \A q \in Procs \ {p} : Active(pc[q]) => mem[q].run # R
  BY <1>1, <1>5, InBooks
<1>7. ScanOf(next, n, tasks'[R])
  <2>1. Scan \ Scan = {} /\ Len(<<>>) = 0
    OBVIOUS
  <2> QED
    BY <1>3, <1>4, <2>1, FS_EmptySet DEF ScanOf
<1>8. \A r \in DOMAIN runs \ {R} : runs'[r] = runs[r] /\ Len(tasks'[r]) = Len(tasks[r])
  BY <1>4
<1>9. /\ Go(p, next, n) /\ "discovery" \notin n.then /\ n.run = R
      /\ DOMAIN runs' \subseteq DOMAIN runs \cup {R} /\ runs'[R].status = "running"
  BY <1>2, <1>3, <1>4, <1>5
<1> QED
  BY <1>6, <1>7, <1>8, <1>9, StepScans

LEMMA StartScans ==
    ASSUME ScanInv, BooksInv', NEW p \in Procs, Start(p) \/ ContinueCollection(p)
    PROVE  ScanInv'
<1> DEFINE discovery(then) == [Idle EXCEPT !.then = then, !.scan = Scan]
           collection(w, only) == [Idle EXCEPT !.work = w, !.only = only]
<1>1. ASSUME NEW then \in SUBSET Works, "discovery" \notin then, CreateRun(p, discovery(then))
      PROVE  ScanInv'
  <2>1. Scan \in SUBSET (Subnets \X Ips)
    BY CollectorAssumption DEF Scan
  <2>2. discovery(then) \in Memory /\ discovery(then).scan = Scan /\ discovery(then).then = then
    BY <2>1, IdleTyped DEF Memory
  <2> QED
    BY <1>1, <2>2, CreateRunScans
<1>2. ASSUME NEW w \in Works \ {"discovery"}, NEW only \in Nat, CreateRun(p, collection(w, only))
      PROVE  ScanInv'
  <2>1. /\ collection(w, only) \in Memory /\ collection(w, only).work = w
        /\ collection(w, only).then = {}
    BY IdleTyped DEF Memory, Idle
  <2> QED
    BY <1>2, <2>1, CreateRunScans
<1>3. ASSUME NEW then \in SUBSET Works, "discovery" \notin then, NEW allow \in BOOLEAN, StartDiscovery(p, then, allow)
      PROVE  ScanInv'
  BY <1>1, <1>3 DEF StartDiscovery
<1>4. ASSUME NEW w \in Works \ {"discovery"}, NEW only \in Pks \cup {0},
             StartCollection(p, w, only)
      PROVE  ScanInv'
  <2>1. only \in Nat
    BY DEF Pks, ScanInv, BooksInv, AddressInv, TypeOK, Device
  <2> QED
    BY <1>2, <1>4, <2>1 DEF StartCollection
<1>5. CASE Start(p)
  <2>1. \A w \in Works \ {"discovery"} : {w} \in SUBSET Works /\ "discovery" \notin {w}
    OBVIOUS
  <2> QED
    BY <1>3, <1>4, <1>5, <2>1 DEF Start
<1>6. CASE ContinueCollection(p)
  <2>1. PICK w \in mem[p].then : CreateRun(p, [Idle EXCEPT !.work = w])
    BY <1>6 DEF ContinueCollection
  <2>2. w \in Works \ {"discovery"}
    BY DEF ScanInv, NoSecond, BooksInv, AddressInv, TypeOK, Memory
  <2>3. /\ [Idle EXCEPT !.work = w] \in Memory /\ [Idle EXCEPT !.work = w].work = w
        /\ [Idle EXCEPT !.work = w].then = {}
    BY <2>2, IdleTyped DEF Memory, Idle
  <2> QED
    BY <2>1, <2>2, <2>3, CreateRunScans
<1> QED
  BY <1>5, <1>6

(* run.save: the discovery whose loop ended has nothing left to scan.      *)
LEMMA FinishScans ==
    ASSUME ScanInv, BooksInv', NEW p \in Procs, FinishRun(p)
    PROVE  ScanInv'
<1> DEFINE R == mem[p].run
           run == [work |-> runs[R].work, status |-> Verdict(mem[p]), done |-> mem[p].done,
                   analyzed |-> mem[p].analyzed, failed |-> mem[p].failed,
                   broken |-> mem[p].broken]
           m == IF mem[p].then = {} THEN Idle ELSE [Idle EXCEPT !.then = mem[p].then]
           next == IF mem[p].then = {} THEN "idle" ELSE "continue"
<1>1. /\ pc[p] \in {"next", "finish"} /\ Active(pc[p]) /\ BooksInv
      /\ pc[p] = "next" => mem[p].scan = {}
      /\ UNCHANGED tasks
      /\ runs' = [runs EXCEPT ![R] = run] /\ Go(p, next, m)
  BY DEF FinishRun, Active, ScanInv
<1>2. /\ mem[p] \in Memory /\ R \in DOMAIN runs /\ TypeOK
      /\ runs[R].work = mem[p].work
      /\ Books(pc[p], mem[p], runs[R], tasks[R], StoredIn(snapshots, R),
               AnalysedIn(snapshots, R), Pks, nextPk)
      /\ \A q \in Procs \ {p} : Active(pc[q]) => mem[q].run # R
  BY <1>1, InBooks
<1>3. ~Active(next) /\ m.then = mem[p].then
  BY DEF Active, Idle
<1>4. run.work = mem[p].work /\ (~run.broken => pc[p] = "next")
  BY <1>1, <1>2 DEF Books, Sound
<1> HIDE DEF run, m, next
<1>5. /\ DOMAIN runs' = DOMAIN runs /\ runs'[R] = run
      /\ \A r \in DOMAIN runs \ {R} : runs'[r] = runs[r]
  BY <1>1, <1>2 DEF TypeOK
<1>6. run.work = "discovery" /\ ~run.broken => Len(tasks[R]) = Cardinality(Scan)
  <2>1. SUFFICES ASSUME run.work = "discovery", ~run.broken
                 PROVE  Len(tasks[R]) = Cardinality(Scan)
    OBVIOUS
  <2>2. mem[p].scan = {} /\ Cardinality(Scan \ mem[p].scan) = Len(tasks[R])
    BY <1>1, <1>4, <2>1 DEF ScanInv, ScanOf
  <2>3. Scan \ {} = Scan
    OBVIOUS
  <2> QED
    BY <2>2, <2>3
<1>7. "discovery" \notin m.then
  BY <1>3 DEF ScanInv, NoSecond
<1>8. /\ \A r \in DOMAIN runs \ {R} : runs'[r] = runs[r] /\ Len(tasks'[r]) = Len(tasks[r])
      /\ DOMAIN runs' \subseteq DOMAIN runs \cup {R} /\ Go(p, next, m)
      /\ runs'[R].work = "discovery" /\ ~runs'[R].broken => Len(tasks'[R]) = Cardinality(Scan)
  BY <1>1, <1>5, <1>6
<1> HIDE DEF R
<1> QED
  BY <1>2, <1>3, <1>7, <1>8, StepScans

LEMMA CrashScans ==
    ASSUME ScanInv, BooksInv', NEW p \in Procs, Crash(p)
    PROVE  ScanInv'
<1>1. UNCHANGED <<runs, tasks>> /\ Go(p, "idle", Idle) /\ "discovery" \notin Idle.then
  BY DEF Crash, db, Idle
<1>2. BooksInv /\ TypeOK /\ 0 \notin DOMAIN runs
  BY DEF ScanInv, BooksInv, AddressInv, TypeOK
<1>3. \A q \in Procs \ {p} : Active(pc[q]) => mem[q].run # 0
  BY <1>2, InBooks
<1>4. /\ \A r \in DOMAIN runs \ {0} : runs'[r] = runs[r] /\ Len(tasks'[r]) = Len(tasks[r])
      /\ DOMAIN runs' \subseteq DOMAIN runs \cup {0} /\ 0 \notin DOMAIN runs'
  BY <1>1, <1>2
<1>5. ~Active("idle")
  BY DEF Active
<1> HIDE DEF Idle
<1> QED
  BY <1>1, <1>3, <1>4, <1>5, StepScans

(* Operators change no list's length, and no process.                      *)
LEMMA OperatorScans ==
    ASSUME ScanInv, BooksInv', UNCHANGED <<runs, pc, mem>>,
           \A r \in DOMAIN runs : Len(tasks'[r]) = Len(tasks[r])
    PROVE  ScanInv'
<1>1. ASSUME NEW p \in Procs, Active(pc[p]) PROVE mem[p].run \in DOMAIN runs
  BY <1>1, InBooks DEF ScanInv
<1>2. ASSUME NEW p \in Procs PROVE ScanOf(pc'[p], mem'[p], tasks'[mem'[p].run])
  BY <1>1 DEF ScanInv, ScanOf
<1>3. NoSecond' /\ AllScanned'
  BY DEF ScanInv, NoSecond, AllScanned, Finished
<1> QED
  BY <1>2, <1>3 DEF ScanInv

LEMMA DeleteScans ==
    ASSUME ScanInv, NEW d \in devices, DeleteDevice(d)
    PROVE  \A r \in DOMAIN runs : Len(tasks'[r]) = Len(tasks[r])
<1> DEFINE list(T) == [i \in DOMAIN T |-> Orphaned(T[i], d)]
<1>1. /\ tasks \in Seq(Seq(Task)) /\ DOMAIN tasks = DOMAIN runs /\ Len(tasks) = Len(runs)
  BY DEF ScanInv, BooksInv, AddressInv, TypeOK
<1>2. tasks' = [r \in DOMAIN tasks |-> list(tasks[r])]
  BY DEF DeleteDevice
<1>3. ASSUME NEW r \in DOMAIN runs PROVE Len(tasks'[r]) = Len(tasks[r])
  <2>1. tasks[r] \in Seq(Task) /\ tasks'[r] = list(tasks[r])
    BY <1>1, <1>2, ElementOfSeq
  <2>2. Len(tasks[r]) \in Nat /\ DOMAIN list(tasks[r]) = 1..Len(tasks[r])
    BY <2>1
  <2>3. list(tasks[r]) = [i \in 1..Len(tasks[r]) |-> Orphaned(tasks[r][i], d)]
    BY <2>1
  <2> HIDE DEF list
  <2> QED
    BY <2>1, <2>2, <2>3
<1> QED
  BY <1>3

(* A discovery that leaves its loop promises nothing of its scan.          *)
LEMMA RaisesScans ==
    ASSUME ScanInv, BooksInv', NEW p \in Procs, LoopRaises(p)
    PROVE  ScanInv'
<1> DEFINE R == mem[p].run
           m == [mem[p] EXCEPT !.broken = TRUE, !.scan = {}, !.rows = {},
                               !.hand = 0, !.at = NoIp, !.outcome = "success"]
<1>1. Active(pc[p]) /\ Go(p, "finish", m) /\ UNCHANGED <<runs, tasks>> /\ BooksInv
  BY DEF LoopRaises, Break, Active, db, ScanInv
<1>2. /\ mem[p] \in Memory /\ R \in DOMAIN runs /\ runs[R].status = "running"
      /\ \A q \in Procs \ {p} : Active(pc[q]) => mem[q].run # R
  BY <1>1, InBooks
<1>3. m.run = R /\ "discovery" \notin m.then
  BY <1>2 DEF Memory, ScanInv, NoSecond
<1>4. ScanOf("finish", m, tasks'[R])
  BY DEF ScanOf
<1>5. /\ \A r \in DOMAIN runs \ {R} : runs'[r] = runs[r] /\ Len(tasks'[r]) = Len(tasks[r])
      /\ DOMAIN runs' \subseteq DOMAIN runs \cup {R} /\ runs'[R].status = "running"
  BY <1>1, <1>2
<1> HIDE DEF R, m
<1> QED
  BY <1>1, <1>2, <1>3, <1>4, <1>5, StepScans

(* The statements that neither start a task of a discovery nor end a run.  *)
LEMMA StatementScans ==
    ASSUME ScanInv, BooksInv', NEW p \in Procs,
           \/ QueryDevices(p) \/ NextDevice(p) \/ BodyFails(p)
           \/ MatchIp(p) \/ MatchName(p) \/ SetIp(p) \/ CreateDevice(p) \/ TouchDiscovered(p)
           \/ StoreSnapshot(p) \/ TouchCollected(p) \/ Analyze(p) \/ SaveTask(p)
    PROVE  ScanInv'
<1> DEFINE Same(m) == /\ m.run = mem[p].run /\ m.work = mem[p].work
                      /\ m.scan = mem[p].scan /\ m.then = mem[p].then
           Quiet == \E next, m : Go(p, next, m) /\ Same(m)
<1>1. BooksInv /\ mem[p] \in Memory /\ tasks \in Seq(Seq(Task)) /\ Len(tasks) = Len(runs)
  BY DEF ScanInv, BooksInv, AddressInv, TypeOK
<1>2. Active(pc[p]) /\ pc[p] # "finish"
  BY DEF Active, QueryDevices, NextDevice, BodyFails, MatchIp, MatchName, SetIp, CreateDevice,
         TouchDiscovered, StoreSnapshot, TouchCollected, Analyze, SaveTask
<1>3. /\ Same(mem[p])
      /\ \A x : /\ Same([mem[p] EXCEPT !.outcome = "failed", !.failed = @ + 1])
                /\ Same([mem[p] EXCEPT !.only = 0, !.rows = x])
                /\ Same([mem[p] EXCEPT !.hand = x])
                /\ Same([mem[p] EXCEPT !.done = @ + 1])
                /\ Same([mem[p] EXCEPT !.failed = @ + 1])
                /\ Same([mem[p] EXCEPT !.analyzed = @ + 1])
      /\ \A x, y, z : Same([mem[p] EXCEPT !.rows = @ \ {x}, !.hand = y, !.outcome = z])
      /\ Same([mem[p] EXCEPT !.hand = 0, !.at = NoIp, !.outcome = "success"])
  BY <1>1 DEF Memory
<1> HIDE DEF Same
<1>4. Fail(p) => Quiet
  BY <1>3 DEF Fail
<1>5. CASE UNCHANGED runs /\ Quiet /\ \A r \in DOMAIN runs :
               Len(tasks'[r]) = Len(tasks[r]) \/ (r = mem[p].run /\ mem[p].work # "discovery")
  BY <1>2, <1>5, QuietScans DEF Same
<1> HIDE DEF Quiet
<1>6. CASE UNCHANGED <<runs, tasks>> /\ Quiet
  BY <1>5, <1>6
<1>7. CASE QueryDevices(p) \/ TouchDiscovered(p) \/ TouchCollected(p) \/ BodyFails(p)
  BY <1>3, <1>4, <1>6, <1>7
     DEF Quiet, QueryDevices, TouchDiscovered, TouchCollected, BodyFails, db
<1>8. CASE MatchIp(p) \/ MatchName(p)
  BY <1>3, <1>6, <1>8 DEF Quiet, MatchIp, MatchName, db
<1>9. CASE SetIp(p) \/ CreateDevice(p)
  BY <1>3, <1>6, <1>9 DEF Quiet, SetIp, CreateDevice
<1>10. CASE StoreSnapshot(p) \/ Analyze(p)
  BY <1>3, <1>6, <1>10 DEF Quiet, StoreSnapshot, Analyze
<1>11. CASE NextDevice(p)
  <2>1. UNCHANGED runs /\ mem[p].work # "discovery" /\ Quiet
    BY <1>3, <1>11 DEF Quiet, NextDevice
  <2>2. \E list : tasks' = [tasks EXCEPT ![mem[p].run] = list]
    BY <1>11 DEF NextDevice
  <2>3. \A r \in DOMAIN tasks : r # mem[p].run => tasks'[r] = tasks[r]
    BY <1>1, <2>2
  <2>4. \A r \in DOMAIN runs : Len(tasks'[r]) = Len(tasks[r]) \/ r = mem[p].run
    BY <1>1, <2>3
  <2> QED
    BY <1>5, <2>1, <2>4
<1>12. CASE SaveTask(p)
  <2> DEFINE R == mem[p].run
             t == [status |-> mem[p].outcome, device |-> Linked(p)]
             list == [tasks[R] EXCEPT ![Len(tasks[R])] = t]
  <2>1. UNCHANGED runs /\ Quiet
    BY <1>3, <1>12 DEF Quiet, SaveTask
  <2>2. R \in DOMAIN runs /\ tasks[R] \in Seq(Task)
    BY <1>1, <1>2, InBooks
  <2>3. tasks' = [tasks EXCEPT ![R] = list]
    BY <1>12 DEF SaveTask
  <2>4. Len(list) = Len(tasks[R])
    BY <2>2
  <2> HIDE DEF list
  <2>5. \A r \in DOMAIN runs : tasks'[r] = tasks[r] \/ (r = R /\ tasks'[r] = list)
    BY <1>1, <2>2, <2>3
  <2>6. \A r \in DOMAIN runs : Len(tasks'[r]) = Len(tasks[r])
    BY <2>4, <2>5
  <2> HIDE DEF R
  <2> QED
    BY <1>5, <2>1, <2>6
<1> QED
  BY <1>7, <1>8, <1>9, <1>10, <1>11, <1>12

-----------------------------------------------------------------------------
LEMMA ScanInit == Init => ScanInv
<1> SUFFICES ASSUME Init PROVE ScanInv
  OBVIOUS
<1>1. runs = <<>> /\ \A p \in Procs : pc[p] = "idle" /\ mem[p] = Idle
  BY DEF Init
<1>2. \A p \in Procs : ~Active(pc[p]) /\ "discovery" \notin mem[p].then
  BY <1>1 DEF Active, Idle
<1> QED
  BY <1>1, <1>2, BooksInit DEF ScanInv, ScanOf, NoSecond, AllScanned

LEMMA ScanStep == ScanInv /\ [Next]_vars => ScanInv'
<1> SUFFICES ASSUME ScanInv, [Next]_vars PROVE ScanInv'
  OBVIOUS
<1>1. BooksInv'
  BY BooksStep DEF ScanInv
<1>2. CASE Operator
  <2>1. ASSUME NEW d \in devices, DeleteDevice(d) PROVE ScanInv'
    <3>1. UNCHANGED <<runs, pc, mem>>
      BY <2>1 DEF DeleteDevice
    <3> QED
      BY <1>1, <2>1, <3>1, DeleteScans, OperatorScans
  <2>2. CASE UNCHANGED <<runs, tasks, pc, mem>>
    BY <1>1, <2>2, OperatorScans
  <2> QED
    BY <1>2, <2>1, <2>2 DEF Operator, EnterDevice, EditDevice
<1>3. ASSUME NEW p \in Procs, Start(p) \/ Step(p) \/ Crash(p) PROVE ScanInv'
  BY <1>1, <1>3, StartScans, NextAddressScans, RaisesScans, StatementScans, FinishScans,
     CrashScans DEF Step
<1>4. CASE UNCHANGED vars
  BY <1>1, <1>4, OperatorScans DEF vars, db
<1> QED
  BY <1>2, <1>3, <1>4 DEF Next

(* A discovery that ends without a general error has made one task for     *)
(* each address of the subnets that its scan expands, large ones excepted. *)
THEOREM DiscoveriesScan == Spec => []AllScanned
  BY ScanInit, ScanStep, PTL DEF Spec, ScanInv

(* Without a large subnet that is each address of the profile.             *)
THEOREM ProfileIsScanned ==
    ASSUME Large = {}
    PROVE  Spec => []ProfileScanned
<1>1. Subnets \ Large = Subnets
  OBVIOUS
<1>2. AllScanned => ProfileScanned
  BY <1>1 DEF AllScanned, ProfileScanned, Scan
<1> QED
  BY <1>2, DiscoveriesScan, PTL
=============================================================================
