-------------------------- MODULE VlanSessionProofs --------------------------
(***************************************************************************)
(* Proofs about VlanSession: the types of its rows and of the memory of    *)
(* its processes, that links entered by hand stay, and that every path     *)
(* joins two ports that carry its VLAN.                                    *)
(***************************************************************************)
EXTENDS VlanSession, FiniteSetTheorems, TLAPS

LEMMA FollowType == \A loop \in Loops : Follow[loop] \in Loops \cup {"idle"}
  BY DEF Follow, Loops

LEMMA LoopsNotIdle == "idle" \notin Loops
  BY DEF Follow, Loops

\* What a process remembers, as a record.
Memory(loop) == [run : Nat, single : BOOLEAN, open : BOOLEAN, todo : SUBSET Visits(loop),
                 known : SUBSET Nat, alone : BOOLEAN]

LEMMA IdleType == \A loop : Idle \in Memory(loop)
  BY DEF Idle, Memory

\* A step that changes the memory of p only keeps ControlOK when the new
\* memory of p is as it has to be.
LEMMA OneProcess ==
  ASSUME ControlOK, RowsOK, NEW p \in Procs, served' \in Nat, served <= served',
         NEW loop \in Loops \cup {"idle"}, NEW m \in Memory(loop),
         m.run <= served', m.open <=> m.todo # {}, loop = "idle" => m = Idle,
         pc' = [pc EXCEPT ![p] = loop], mem' = [mem EXCEPT ![p] = m], settled' \in BOOLEAN
  PROVE  ControlOK'
<1>1. pc' \in [Procs -> Loops \cup {"idle"}]
  BY DEF ControlOK
<1>2. mem' = [q \in Procs |-> mem'[q]]
  BY DEF ControlOK
<1>3. ASSUME NEW q \in Procs PROVE MemoryOK(q)'
  <2>1. CASE q = p
    <3>1. pc'[q] = loop /\ mem'[q] = m
      BY <2>1 DEF ControlOK
    <3> QED  BY <3>1 DEF MemoryOK, Memory
  <2>2. CASE q # p
    <3>1. pc'[q] = pc[q] /\ mem'[q] = mem[q] /\ MemoryOK(q)
      BY <2>2 DEF ControlOK
    <3>2. mem[q].run <= served'
      BY <3>1 DEF MemoryOK, RowsOK
    <3> QED  BY <3>1, <3>2 DEF MemoryOK
  <2> QED  BY <2>1, <2>2
<1> QED  BY <1>1, <1>2, <1>3 DEF ControlOK

LEMMA AdvanceControl ==
  ASSUME ControlOK, RowsOK, NEW p \in Procs, NEW known \in SUBSET Nat, pc[p] \in Loops,
         served' = served, Advance(p, known)
  PROVE  ControlOK'
<1> DEFINE next == IF mem[p].single THEN "idle" ELSE Follow[pc[p]]
           m    == IF next = "idle" THEN Idle
                   ELSE [mem[p] EXCEPT !.todo = {}, !.open = FALSE,
                                       !.known = IF next = "used" THEN known ELSE {}]
<1>1. next \in Loops \cup {"idle"}
  BY FollowType
<1>2. mem[p] \in Memory(pc[p]) /\ mem[p].run <= served
  BY DEF ControlOK, MemoryOK, Memory
<1>3. m \in Memory(next) /\ m.run <= served /\ (m.open <=> m.todo # {})
  <2> HIDE DEF next
  <2>1. CASE next = "idle"
    BY <2>1, IdleType DEF Idle, RowsOK
  <2>2. CASE next # "idle"
    <3> DEFINE k == IF next = "used" THEN known ELSE {}
    <3>1. k \in SUBSET Nat
      OBVIOUS
    <3> HIDE DEF k
    <3>2. m = [mem[p] EXCEPT !.todo = {}, !.open = FALSE, !.known = k]
      BY <2>2 DEF k
    <3> QED  BY <1>2, <3>1, <3>2 DEF Memory
  <2> QED  BY <2>1, <2>2
<1>4. pc' = [pc EXCEPT ![p] = next] /\ mem' = [mem EXCEPT ![p] = m]
  BY DEF Advance, ControlOK
<1>5. settled' \in BOOLEAN
  BY <1>2 DEF Advance, Memory
<1>6. next = "idle" => m = Idle
  OBVIOUS
<1>7. served' \in Nat /\ served <= served'
  BY DEF RowsOK
<1> HIDE DEF next, m
<1> QED  BY <1>1, <1>3, <1>4, <1>5, <1>6, <1>7, OneProcess

LEMMA ContinueControl ==
  ASSUME ControlOK, RowsOK, NEW p \in Procs, NEW todo \in SUBSET Visits(pc[p]),
         NEW known \in SUBSET Nat, pc[p] \in Loops, served' = served,
         Continue(p, todo, known)
  PROVE  ControlOK'
<1>1. CASE todo = {}
  <2>1. Advance(p, known)
    BY <1>1 DEF Continue
  <2> QED  BY <2>1, AdvanceControl
<1>2. CASE todo # {}
  <2> DEFINE m == [mem[p] EXCEPT !.todo = todo, !.known = known, !.open = TRUE]
  <2>1. /\ mem' = [mem EXCEPT ![p].todo = todo, ![p].known = known, ![p].open = TRUE]
        /\ pc' = pc /\ settled' = settled
    BY <1>2 DEF Continue
  <2>2. mem[p] \in Memory(pc[p]) /\ mem[p].run <= served
    BY DEF ControlOK, MemoryOK, Memory
  <2>3. m \in Memory(pc[p]) /\ m.run <= served /\ (m.open <=> m.todo # {})
    BY <1>2, <2>2 DEF Memory
  <2>4. mem' = [mem EXCEPT ![p] = m] /\ pc' = [pc EXCEPT ![p] = pc[p]]
    BY <2>1 DEF ControlOK
  <2>5. settled' \in BOOLEAN /\ served' \in Nat /\ served <= served' /\ pc[p] # "idle"
    BY <2>1, LoopsNotIdle DEF ControlOK, RowsOK
  <2> HIDE DEF m
  <2> QED  BY <2>3, <2>4, <2>5, OneProcess
<1> QED  BY <1>1, <1>2

LEMMA DoneControl ==
  ASSUME ControlOK, RowsOK, NEW p \in Procs, NEW x, pc[p] \in Loops, served' = served,
         Done(p, x)
  PROVE  ControlOK'
<1>1. /\ mem[p].todo \ {x} \in SUBSET Visits(pc[p])
      /\ mem[p].known \in SUBSET Nat
  BY DEF ControlOK, MemoryOK
<1> QED  BY <1>1, ContinueControl DEF Done

LEMMA AbortControl ==
  ASSUME ControlOK, RowsOK, NEW p \in Procs, Abort(p)
  PROVE  TypeOK'
<1>1. served' = served /\ served' \in Nat /\ settled' \in BOOLEAN
  BY DEF Abort, RowsOK, ControlOK
<1>2. Idle \in Memory("idle") /\ Idle.run <= served' /\ (Idle.open <=> Idle.todo # {})
  BY <1>1, IdleType DEF Idle
<1>3. pc' = [pc EXCEPT ![p] = "idle"] /\ mem' = [mem EXCEPT ![p] = Idle]
  BY DEF Abort
<1>4. ControlOK'
  <2> DEFINE m == Idle
             loop == "idle"
  <2>1. m \in Memory(loop) /\ m.run <= served' /\ (m.open <=> m.todo # {})
    BY <1>2
  <2>2. /\ loop \in Loops \cup {"idle"} /\ served <= served'
        /\ loop = "idle" => m = Idle
        /\ pc' = [pc EXCEPT ![p] = loop] /\ mem' = [mem EXCEPT ![p] = m]
    BY <1>1, <1>3
  <2> HIDE DEF m, loop
  <2> QED  BY <1>1, <2>1, <2>2, OneProcess
<1>5. RowsOK'
  BY DEF Abort, RowsOK, inputs, derived
<1> QED  BY <1>4, <1>5 DEF TypeOK

LEMMA DisturbedMemory ==
  ASSUME ControlOK, NEW q \in Procs
  PROVE  /\ Disturbed(mem)[q] \in Memory(pc[q])
         /\ Disturbed(mem)[q].run = mem[q].run
         /\ Disturbed(mem)[q].open <=> Disturbed(mem)[q].todo # {}
         /\ pc[q] = "idle" => Disturbed(mem)[q] = Idle
<1>1. MemoryOK(q) /\ mem[q] \in Memory(pc[q])
  BY DEF ControlOK, MemoryOK, Memory
<1>2. Disturbed(mem)[q] = [mem[q] EXCEPT !.alone = FALSE]
  BY DEF Disturbed
<1> DEFINE m == mem[q]
           n == [m EXCEPT !.alone = FALSE]
<1>3. m \in Memory(pc[q]) /\ (m.open <=> m.todo # {}) /\ (pc[q] = "idle" => m = Idle)
  BY <1>1 DEF MemoryOK
<1>4. Disturbed(mem)[q] = n
  BY <1>2
<1> HIDE DEF m
<1>5. n \in Memory(pc[q]) /\ n.run = m.run /\ n.open = m.open /\ n.todo = m.todo
  BY <1>3 DEF Memory
<1>6. m = Idle => n = Idle
  <2>1. [Idle EXCEPT !.alone = FALSE] = Idle
    <3>1. Idle = [x \in DOMAIN Idle |-> Idle[x]] /\ Idle.alone = FALSE
      BY DEF Idle
    <3> QED  BY <3>1
  <2> QED  BY <2>1
<1> HIDE DEF n
<1>7. n.open <=> n.todo # {}
  BY <1>3, <1>5
<1> QED  BY <1>3, <1>4, <1>5, <1>6, <1>7 DEF m

LEMMA AsideControl ==
  ASSUME ControlOK, RowsOK, served' \in Nat, served <= served', Aside
  PROVE  ControlOK'
<1>1. mem' = Disturbed(mem) /\ pc' = pc /\ settled' = FALSE
  BY DEF Aside
<1>2. mem' = [q \in Procs |-> mem'[q]]
  BY <1>1 DEF Disturbed
<1>3. ASSUME NEW q \in Procs PROVE MemoryOK(q)'
  <2>1. mem[q].run <= served /\ mem[q].run \in Nat
    BY DEF ControlOK, MemoryOK
  <2>2. mem'[q] \in Memory(pc'[q]) /\ mem'[q].run = mem[q].run
    BY <1>1, DisturbedMemory
  <2>3. mem'[q].open <=> mem'[q].todo # {}
    BY <1>1, DisturbedMemory
  <2>4. pc'[q] = "idle" => mem'[q] = Idle
    BY <1>1, DisturbedMemory
  <2> QED  BY <2>1, <2>2, <2>3, <2>4 DEF MemoryOK, Memory, RowsOK
<1> QED  BY <1>1, <1>2, <1>3 DEF ControlOK

LEMMA StartControl ==
  ASSUME ControlOK, RowsOK, NEW p \in Procs, NEW loop \in Loops, NEW single \in BOOLEAN,
         Start(p, loop, single)
  PROVE  served' \in Nat /\ ControlOK'
<1> DEFINE b == \A q \in Procs : pc[q] = "idle"
           m == [Idle EXCEPT !.run = served + 1, !.single = single, !.alone = b]
<1>1. /\ served' = served + 1 /\ served \in Nat /\ served' \in Nat /\ settled' = FALSE
      /\ pc' = [pc EXCEPT ![p] = loop] /\ mem' = [Disturbed(mem) EXCEPT ![p] = m]
  BY DEF Start, RowsOK
<1>2. m \in Memory(loop) /\ m.run = served + 1 /\ (m.open <=> m.todo # {})
  <2>1. b \in BOOLEAN
    OBVIOUS
  <2> HIDE DEF b
  <2>2. Idle \in Memory(loop) /\ Idle.open = FALSE /\ Idle.todo = {}
    BY IdleType DEF Idle
  <2> QED  BY <1>1, <2>1, <2>2 DEF Memory
<1> HIDE DEF m, b
<1>3. mem' = [q \in Procs |-> mem'[q]]
  BY <1>1 DEF Disturbed
<1>4. pc' \in [Procs -> Loops \cup {"idle"}]
  BY <1>1 DEF ControlOK
<1>5. ASSUME NEW q \in Procs PROVE MemoryOK(q)'
  <2>1. CASE q = p
    <3>1. mem'[q] = m /\ pc'[q] = loop
      BY <1>1, <2>1 DEF ControlOK, Disturbed
    <3> QED  BY <1>1, <1>2, <3>1, LoopsNotIdle DEF MemoryOK, Memory
  <2>2. CASE q # p
    <3>1. mem'[q] = Disturbed(mem)[q] /\ pc'[q] = pc[q]
      BY <1>1, <2>2 DEF ControlOK, Disturbed
    <3>2. mem[q].run <= served /\ mem[q].run \in Nat
      BY DEF ControlOK, MemoryOK
    <3>3. mem'[q] \in Memory(pc'[q]) /\ mem'[q].run = mem[q].run
      BY <3>1, DisturbedMemory
    <3>4. mem'[q].open <=> mem'[q].todo # {}
      BY <3>1, DisturbedMemory
    <3>5. pc'[q] = "idle" => mem'[q] = Idle
      BY <3>1, DisturbedMemory
    <3> QED  BY <1>1, <3>2, <3>3, <3>4, <3>5 DEF MemoryOK, Memory
  <2> QED  BY <2>1, <2>2
<1> QED  BY <1>1, <1>3, <1>4, <1>5 DEF ControlOK

-----------------------------------------------------------------------------
(* What the loops find and create has the types of the rows.               *)

LEMMA ManualIsNoLoop == "manual" \notin Loops
  BY DEF Follow, Loops

LEMMA PkType == \A d \in Definition : Pk(d) \in DefPk
  BY DEF Pk, Definition, DefPk

LEMMA ShortenType == \A q \in Ports : Shorten(q) \in Ports
  BY VlanAssumption DEF Ports, Shorten

LEMMA NewLinkType ==
  ASSUME ControlOK, NEW p \in Procs, pc[p] \in Loops, NEW source \in Nat, NEW a \in Ports,
         NEW b \in Ports, NEW method \in {"lldp", "subnet", "description"},
         NEW confidence \in {"high", "medium", "low"}
  PROVE  NewLink(p, source, a, b, method, confidence) \in Link
<1>1. mem[p].run \in Nat /\ pc[p] # "manual"
  BY ManualIsNoLoop DEF ControlOK, MemoryOK
<1> DEFINE k == <<mem[p].run, pc[p], source, a, b>>
<1>2. k \in Keys /\ k[2] = pc[p] /\ k[4] = a /\ k[5] = b
  BY <1>1 DEF Keys
<1>3. NewLink(p, source, a, b, method, confidence) =
        [pk |-> k, a |-> a, b |-> b, method |-> method, confidence |-> confidence]
  BY DEF NewLink
<1> HIDE DEF k
<1> QED  BY <1>1, <1>2, <1>3 DEF Link

LEMMA TurnedType == \A l \in Link : [l EXCEPT !.a = l.b, !.b = l.a] \in Link
<1> SUFFICES ASSUME NEW l \in Link PROVE [l EXCEPT !.a = l.b, !.b = l.a] \in Link
  OBVIOUS
<1> DEFINE t == [l EXCEPT !.a = l.b, !.b = l.a]
<1>1. /\ t.pk = l.pk /\ t.method = l.method /\ t.a = l.b /\ t.b = l.a
      /\ t \in [pk : Keys, a : Ports, b : Ports,
                method : {"manual", "lldp", "subnet", "description"},
                confidence : {"high", "medium", "low"}]
  BY DEF Link
<1>2. {t.a, t.b} = {l.a, l.b}
  BY <1>1
<1> HIDE DEF t
<1> QED  BY <1>1, <1>2 DEF Link, t

LEMMA RaisedType ==
  ASSUME NEW l \in Link, NEW method \in {l.method, "lldp"}, NEW confidence \in {"high", "medium", "low"},
         method # l.method => l.method = "subnet"
  PROVE  [l EXCEPT !.method = method, !.confidence = confidence] \in Link
<1> DEFINE t == [l EXCEPT !.method = method, !.confidence = confidence]
<1>1. /\ t.pk = l.pk /\ t.method = method /\ t.a = l.a /\ t.b = l.b
      /\ t \in [pk : Keys, a : Ports, b : Ports,
                method : {"manual", "lldp", "subnet", "description"},
                confidence : {"high", "medium", "low"}]
  BY DEF Link
<1>2. method = "manual" <=> l.method = "manual"
  OBVIOUS
<1> HIDE DEF t
<1>3. t \in Link
  BY <1>1, <1>2 DEF Link
<1> QED  BY <1>3 DEF t

LEMMA NewIssueType ==
  ASSUME ControlOK, NEW p \in Procs,
         NEW code \in {"unknown_device", "confirmed", "missing", "low_confidence", "isolated",
                       "unused", "routed"},
         NEW d \in DefPk \cup {NoRow}, NEW a \in Ports \cup {NoPort}, NEW b \in Ports \cup {NoPort}
  PROVE  NewIssue(p, code, d, a, b) \in Issue
<1>1. mem[p].run \in Nat
  BY DEF ControlOK, MemoryOK
<1> QED  BY <1>1 DEF NewIssue, Issue

LEMMA FoundType ==
  ASSUME RowsOK, NEW loop \in Loops \ Cleans
  PROVE  Found(loop) \in SUBSET Visits(loop)
<1>1. CASE loop = "normalize" \/ loop = "paths"
  BY <1>1 DEF Found, Visits, RowsOK
<1>2. CASE loop = "lldp" \/ loop = "csv"
  BY <1>2 DEF Found, Visits, RowsOK
<1>3. CASE loop = "subnet" \/ loop = "description"
  BY <1>3 DEF Found, Visits
<1>4. CASE loop = "ifaces"
  BY <1>4 DEF Found, Visits, Live
<1>5. CASE loop = "defs"
  <2>1. UNION {Defined[d] : d \in Live} \subseteq Nat \ {0}
    <3>1. \A d \in Live : Defined[d] \subseteq Nat \ {0}
      BY VlanAssumption DEF Live
    <3> QED  BY <3>1, Zenon
  <2>2. Found(loop) = UNION {Defined[d] : d \in Live}
    BY <1>5, Zenon DEF Found
  <2>3. Visits(loop) = Nat \ {0}
    BY <1>5 DEF Visits
  <2> QED  BY <2>1, <2>2, <2>3
<1>6. CASE loop = "used"
  <2>1. {r.vid : r \in ifaces} \subseteq Nat
    BY DEF RowsOK, Interface
  <2> QED  BY <1>6, <2>1 DEF Found, Visits
<1>7. CASE loop = "endpoints" \/ loop = "unused" \/ loop = "counts"
  BY <1>7 DEF Found, Visits, RowsOK
<1>8. CASE loop = "isolated" \/ loop = "routed"
  BY <1>8 DEF Found, Visits, RowsOK
<1> QED  BY <1>1, <1>2, <1>3, <1>4, <1>5, <1>6, <1>7, <1>8 DEF Loops, Follow, Cleans

-----------------------------------------------------------------------------
(* Every action keeps the types.                                           *)

LEMMA InitType == Init => TypeOK
<1> SUFFICES ASSUME Init PROVE TypeOK
  OBVIOUS
<1>1. RowsOK
  BY FS_EmptySet DEF Init, RowsOK
<1>2. ASSUME NEW p \in Procs PROVE MemoryOK(p)
  <2>1. mem[p] = Idle /\ pc[p] = "idle"
    BY DEF Init
  <2>2. mem[p] \in Memory(pc[p]) /\ Idle.run = 0 /\ (Idle.open <=> Idle.todo # {})
    BY <2>1, IdleType DEF Idle
  <2> QED  BY <1>1, <2>1, <2>2 DEF MemoryOK, Memory, RowsOK
<1>3. ControlOK
  BY <1>2 DEF Init, ControlOK
<1> QED  BY <1>1, <1>3 DEF TypeOK

LEMMA StartCorrelationType ==
  ASSUME TypeOK, NEW p \in Procs, StartCorrelation(p)
  PROVE  TypeOK'
<1>1. "clean_defs" \in Loops
  BY DEF Loops, Follow
<1>2. served' \in Nat /\ ControlOK'
  BY <1>1, StartControl DEF StartCorrelation, TypeOK
<1>3. RowsOK'
  BY <1>2 DEF StartCorrelation, TypeOK, RowsOK, inputs, derived
<1> QED  BY <1>2, <1>3 DEF TypeOK

LEMMA SubmitEvidenceType ==
  ASSUME TypeOK, NEW p \in Procs, NEW e \in Reports, SubmitEvidence(p, e)
  PROVE  TypeOK'
<1>1. e.kind \in {"lldp", "csv"} /\ e.kind \in Loops
  BY VlanAssumption DEF Loops, Follow
<1>2. served' \in Nat /\ ControlOK' /\ served \in Nat
  BY <1>1, StartControl DEF SubmitEvidence, TypeOK, RowsOK
<1>3. [run |-> served + 1, kind |-> e.kind, method |-> e.method,
       a |-> e.a, b |-> e.b, confidence |-> e.confidence] \in Evidence
  BY <1>1, <1>2, VlanAssumption DEF Evidence
<1>4. RowsOK'
  BY <1>2, <1>3 DEF SubmitEvidence, TypeOK, RowsOK, derived
<1> QED  BY <1>2, <1>4 DEF TypeOK

LEMMA CleanDefinitionsType ==
  ASSUME TypeOK, NEW p \in Procs, CleanDefinitions(p)
  PROVE  TypeOK'
<1>1. pc[p] \in Loops /\ Advance(p, {}) /\ served' = served
  BY DEF CleanDefinitions, Loops, Follow
<1>2. ControlOK'
  BY <1>1, AdvanceControl DEF TypeOK
<1>3. \A i \in Issue : [i EXCEPT !.def = NoRow] \in Issue
  BY DEF Issue
<1>4. RowsOK'
  BY <1>1, <1>3 DEF CleanDefinitions, TypeOK, RowsOK, inputs
<1> QED  BY <1>2, <1>4 DEF TypeOK

LEMMA CleanRowsType ==
  ASSUME TypeOK, NEW p \in Procs, CleanRows(p)
  PROVE  TypeOK'
<1>1. pc[p] \in Loops /\ Advance(p, {}) /\ served' = served
  BY DEF CleanRows, Cleans, Loops, Follow
<1>2. ControlOK'
  BY <1>1, AdvanceControl DEF TypeOK
<1>3. /\ ifaces' \in {ifaces, {}} /\ endpoints' \in {endpoints, {}}
      /\ paths' \in {paths, {}} /\ issues' \in {issues, {}}
  BY DEF CleanRows
<1>4. RowsOK'
  BY <1>1, <1>3, FS_EmptySet DEF CleanRows, TypeOK, RowsOK, inputs
<1> QED  BY <1>2, <1>4 DEF TypeOK

LEMMA CleanLinksType ==
  ASSUME TypeOK, NEW p \in Procs, CleanLinks(p)
  PROVE  TypeOK'
<1>1. pc[p] \in Loops /\ Advance(p, {}) /\ served' = served
  BY DEF CleanLinks, Loops, Follow
<1>2. ControlOK'
  BY <1>1, AdvanceControl DEF TypeOK
<1>3. \A q \in Path : \A v \in {q.via, NoRow} : [q EXCEPT !.via = v] \in Path
  BY DEF Path
<1>4. paths' \subseteq Path
  BY <1>3 DEF CleanLinks, TypeOK, RowsOK
<1>5. RowsOK'
  BY <1>1, <1>4 DEF CleanLinks, TypeOK, RowsOK, inputs
<1> QED  BY <1>2, <1>5 DEF TypeOK

LEMMA QueryType ==
  ASSUME TypeOK, NEW p \in Procs, Query(p)
  PROVE  TypeOK'
<1>1. pc[p] \in Loops \ Cleans /\ served' = served
  BY DEF Query, TypeOK, ControlOK
<1> DEFINE known == IF pc[p] = "defs" THEN {d.vid : d \in defs} ELSE mem[p].known
<1>2. known \in SUBSET Nat
  <2>1. {d.vid : d \in defs} \subseteq Nat
    BY DEF TypeOK, RowsOK, Definition
  <2>2. mem[p].known \subseteq Nat
    BY DEF TypeOK, ControlOK, MemoryOK
  <2> QED  BY <2>1, <2>2
<1>3. Found(pc[p]) \in SUBSET Visits(pc[p])
  BY <1>1, FoundType DEF TypeOK
<1>4. Continue(p, Found(pc[p]), known)
  BY DEF Query
<1> HIDE DEF known
<1>5. ControlOK'
  BY <1>1, <1>2, <1>3, <1>4, ContinueControl DEF TypeOK
<1>6. RowsOK'
  BY <1>1 DEF Query, TypeOK, RowsOK, inputs, derived
<1> QED  BY <1>5, <1>6 DEF TypeOK

\* The loop p is in, and a row it visits.
LEMMA VisitType ==
  ASSUME TypeOK, NEW p \in Procs, NEW x \in mem[p].todo, mem[p].open
  PROVE  pc[p] \in Loops /\ x \in Visits(pc[p])
<1>1. MemoryOK(p) /\ pc[p] \in Loops \cup {"idle"}
  BY DEF TypeOK, ControlOK
<1>2. pc[p] # "idle"
  BY <1>1 DEF MemoryOK, Idle
<1> QED  BY <1>1, <1>2 DEF MemoryOK

LEMMA NormalizeType ==
  ASSUME TypeOK, NEW p \in Procs, Normalize(p)
  PROVE  TypeOK'
<1>1. PICK l \in mem[p].todo :
        LET turned == [l EXCEPT !.a = l.b, !.b = l.a]
            taken  == \E m \in LinksAt(turned.a, turned.b) : m.pk # l.pk
        IN  /\ Visit(p, "normalize", l)
            /\ \/ taken /\ Abort(p)
               \/ /\ ~taken
                  /\ links' = {m \in links : m.pk # l.pk} \cup {turned}
                  /\ Done(p, l)
                  /\ UNCHANGED <<inputs, derived, served>>
  BY DEF Normalize
<1>2. l \in Link /\ pc[p] \in Loops
  <2>1. pc[p] = "normalize" /\ l \in Visits(pc[p]) /\ pc[p] \in Loops
    BY <1>1, VisitType DEF Visit
  <2> QED  BY <2>1 DEF Visits
<1>3. CASE Abort(p)
  BY <1>3, AbortControl DEF TypeOK
<1>4. CASE ~Abort(p)
  <2>1. /\ links' = {m \in links : m.pk # l.pk} \cup {[l EXCEPT !.a = l.b, !.b = l.a]}
        /\ Done(p, l) /\ UNCHANGED <<inputs, derived, served>>
    BY <1>1, <1>4
  <2>2. ControlOK'
    BY <1>2, <2>1, DoneControl DEF TypeOK
  <2>3. RowsOK'
    BY <1>2, <2>1, TurnedType DEF TypeOK, RowsOK, inputs, derived
  <2> QED  BY <2>2, <2>3 DEF TypeOK
<1> QED  BY <1>3, <1>4

LEMMA UpsertType ==
  ASSUME TypeOK, NEW p \in Procs, pc[p] \in Loops, NEW e \in Evidence, NEW a \in Ports,
         NEW b \in Ports, Upsert(p, e, a, b)
  PROVE  links' \subseteq Link /\ issues' \subseteq Issue
<1> USE DEF TypeOK
<1>1. /\ e.run \in Nat /\ e.kind \in {"lldp", "csv"}
      /\ e.confidence \in {"high", "medium", "low"}
  BY DEF Evidence
<1>2. links \subseteq Link /\ issues \subseteq Issue
  BY DEF RowsOK
<1>3. CASE UNCHANGED <<links, issues>>
  BY <1>2, <1>3
<1>4. CASE /\ links' = links \cup {NewLink(p, e.run, a, b, "lldp",
                                         IF e.kind = "csv" THEN e.confidence ELSE "medium")}
           /\ UNCHANGED issues
  <2> DEFINE c == IF e.kind = "csv" THEN e.confidence ELSE "medium"
  <2>1. c \in {"high", "medium", "low"}
    BY <1>1
  <2> HIDE DEF c
  <2>2. NewLink(p, e.run, a, b, "lldp", c) \in Link
    BY <1>1, <2>1, NewLinkType
  <2> QED  BY <1>2, <1>4, <2>2 DEF c
<1>5. ASSUME NEW l \in LinksAt(a, b), NEW raised \in BOOLEAN,
             raised = (e.method = "lldp" /\ l.method = "subnet"),
             links' = (links \ {l}) \cup
                  {[l EXCEPT !.method = IF raised THEN "lldp" ELSE @,
                             !.confidence = IF raised THEN "high"
                                            ELSE IF e.kind = "csv" THEN e.confidence ELSE @]},
             issues' = IF raised THEN issues \cup {NewIssue(p, "confirmed", NoRow, a, b)}
                                 ELSE issues
      PROVE  links' \subseteq Link /\ issues' \subseteq Issue
  <2> DEFINE method == IF raised THEN "lldp" ELSE l.method
             confidence == IF raised THEN "high"
                           ELSE IF e.kind = "csv" THEN e.confidence ELSE l.confidence
             new == [l EXCEPT !.method = method, !.confidence = confidence]
  <2>1. l \in Link
    BY <1>2 DEF LinksAt
  <2>2. /\ method \in {l.method, "lldp"} /\ (method # l.method => l.method = "subnet")
        /\ confidence \in {"high", "medium", "low"}
    BY <1>1, <1>5, <2>1 DEF Link
  <2>3. links' = (links \ {l}) \cup {new}
    BY <1>5, <2>1 DEF Link
  <2> HIDE DEF method, confidence
  <2>4. new \in Link
    BY <2>1, <2>2, RaisedType
  <2>5. NewIssue(p, "confirmed", NoRow, a, b) \in Issue
    BY NewIssueType
  <2> QED  BY <1>2, <1>5, <2>3, <2>4, <2>5
<1> QED  BY <1>3, <1>4, <1>5 DEF Upsert

LEMMA ReadEvidenceType ==
  ASSUME TypeOK, NEW p \in Procs, ReadEvidence(p)
  PROVE  TypeOK'
<1>1. PICK e \in mem[p].todo :
        /\ pc[p] \in {"lldp", "csv"} /\ mem[p].open
        /\ \/ /\ e.b = NoPort
              /\ issues' = issues \cup {NewIssue(p, "unknown_device", NoRow, e.a, NoPort)}
              /\ UNCHANGED links
           \/ /\ e.b # NoPort
              /\ Upsert(p, e, Shorten(e.a), Shorten(e.b))
        /\ Done(p, e)
        /\ UNCHANGED <<inputs, ifaces, defs, endpoints, paths, served>>
  BY DEF ReadEvidence
<1>2. e \in Evidence /\ pc[p] \in Loops
  <2>1. e \in Visits(pc[p]) /\ pc[p] \in Loops
    BY <1>1, VisitType
  <2> QED  BY <1>1, <2>1 DEF Visits
<1>3. e.a \in Ports /\ e.b \in Ports \cup {NoPort}
  BY <1>2 DEF Evidence
<1>4. links' \subseteq Link /\ issues' \subseteq Issue
  <2>1. CASE e.b = NoPort
    <3>1. NewIssue(p, "unknown_device", NoRow, e.a, NoPort) \in Issue
      BY <1>3, NewIssueType DEF TypeOK
    <3> QED  BY <1>1, <2>1, <3>1 DEF TypeOK, RowsOK
  <2>2. CASE e.b # NoPort
    <3>1. Shorten(e.a) \in Ports /\ Shorten(e.b) \in Ports
      BY <1>3, <2>2, ShortenType
    <3>2. Upsert(p, e, Shorten(e.a), Shorten(e.b))
      BY <1>1, <2>2
    <3> QED  BY <1>2, <3>1, <3>2, UpsertType
  <2> QED  BY <2>1, <2>2
<1>5. ControlOK'
  BY <1>1, <1>2, DoneControl DEF TypeOK
<1>6. RowsOK'
  BY <1>1, <1>4 DEF TypeOK, RowsOK, inputs
<1> QED  BY <1>5, <1>6 DEF TypeOK

LEMMA SuggestLinkType ==
  ASSUME TypeOK, NEW p \in Procs, SuggestLink(p)
  PROVE  TypeOK'
<1>1. PICK l \in mem[p].todo :
        /\ pc[p] \in {"subnet", "description"} /\ mem[p].open
        /\ links' = IF LinksAt(l.a, l.b) # {} THEN links
                    ELSE links \cup {NewLink(p, 0, l.a, l.b, pc[p],
                                             IF pc[p] = "subnet" THEN l.confidence
                                                                 ELSE "medium")}
        /\ Done(p, l)
        /\ UNCHANGED <<inputs, derived, served>>
  BY DEF SuggestLink
<1> DEFINE c == IF pc[p] = "subnet" THEN l.confidence ELSE "medium"
<1>2. pc[p] \in Loops /\ l \in Visits(pc[p])
  BY <1>1, VisitType
<1>3. l.a \in Ports /\ l.b \in Ports /\ c \in {"high", "medium", "low"}
  <2>1. CASE pc[p] = "subnet"
    BY <1>2, <2>1, VlanAssumption DEF Visits
  <2>2. CASE pc[p] = "description"
    BY <1>2, <2>2, VlanAssumption DEF Visits
  <2> QED  BY <1>1, <2>1, <2>2
<1> HIDE DEF c
<1>4. NewLink(p, 0, l.a, l.b, pc[p], c) \in Link
  BY <1>1, <1>2, <1>3, NewLinkType DEF TypeOK
<1>5. links' \subseteq Link
  BY <1>1, <1>4 DEF TypeOK, RowsOK, c
<1>6. ControlOK'
  BY <1>1, <1>2, DoneControl DEF TypeOK
<1>7. RowsOK'
  BY <1>1, <1>5 DEF TypeOK, RowsOK, inputs, derived
<1> QED  BY <1>6, <1>7 DEF TypeOK

LEMMA FiniteImage ==
  ASSUME NEW S, IsFiniteSet(S), NEW f, f = [x \in S |-> f[x]]
  PROVE  IsFiniteSet({f[x] : x \in S})
<1> DEFINE T == {f[x] : x \in S}
<1>1. f \in Surjection(S, T)
  BY DEF Surjection
<1> QED  BY <1>1, FS_Surjection

LEMMA BuildInterfacesType ==
  ASSUME TypeOK, NEW p \in Procs, BuildInterfaces(p)
  PROVE  TypeOK'
<1>1. PICK d \in mem[p].todo :
        /\ Visit(p, "ifaces", d)
        /\ ifaces' = ifaces \cup {[run |-> mem[p].run, port |-> <<d, r.name>>, vid |-> r.vid,
                                   mode |-> r.mode] : r \in Config[d]}
        /\ Done(p, d)
        /\ UNCHANGED <<inputs, links, defs, endpoints, paths, issues, served>>
  BY DEF BuildInterfaces
<1>2. d \in Devices /\ pc[p] \in Loops
  <2>1. pc[p] = "ifaces" /\ d \in Visits(pc[p]) /\ pc[p] \in Loops
    BY <1>1, VisitType DEF Visit
  <2> QED  BY <2>1 DEF Visits
<1> DEFINE row(r) == [run |-> mem[p].run, port |-> <<d, r.name>>, vid |-> r.vid, mode |-> r.mode]
           new    == {row(r) : r \in Config[d]}
<1>3. mem[p].run \in Nat
  BY DEF TypeOK, ControlOK, MemoryOK
<1>4. new \subseteq Interface
  <2>1. \A r \in Config[d] : r.name \in Names /\ r.vid \in Nat
                             /\ r.mode \in {"trunk", "access", "subinterface"}
    BY <1>2, VlanAssumption
  <2> QED  BY <1>2, <1>3, <2>1 DEF Interface, Ports
<1>5. IsFiniteSet(new)
  <2>1. IsFiniteSet(Config[d])
    BY <1>2, VlanAssumption
  <2> DEFINE f == [r \in Config[d] |-> row(r)]
  <2>2. new = {f[r] : r \in Config[d]} /\ f = [r \in Config[d] |-> f[r]]
    OBVIOUS
  <2> HIDE DEF new, f
  <2> QED  BY <2>1, <2>2, FiniteImage
<1>6. ifaces' = ifaces \cup new
  BY <1>1
<1> HIDE DEF new
<1>7. ifaces' \subseteq Interface /\ IsFiniteSet(ifaces')
  BY <1>4, <1>5, <1>6, FS_Union DEF TypeOK, RowsOK
<1>8. ControlOK'
  BY <1>1, <1>2, DoneControl DEF TypeOK
<1>9. RowsOK'
  BY <1>1, <1>7 DEF TypeOK, RowsOK, inputs
<1> QED  BY <1>8, <1>9 DEF TypeOK

LEMMA BuildDefinitionType ==
  ASSUME TypeOK, NEW p \in Procs, BuildDefinition(p)
  PROVE  TypeOK'
<1>1. PICK v \in mem[p].todo :
        /\ pc[p] \in {"defs", "used"} /\ mem[p].open
        /\ \/ /\ Done(p, v)
              /\ UNCHANGED <<inputs, links, derived, served>>
           \/ Abort(p)
           \/ /\ defs' = defs \cup {[run |-> mem[p].run, vid |-> v, interfaces |-> 0,
                                     devices |-> 0]}
              /\ Continue(p, mem[p].todo \ {v}, mem[p].known \cup {v})
              /\ UNCHANGED <<inputs, links, ifaces, endpoints, paths, issues, served>>
  BY DEF BuildDefinition
<1>2. v \in Nat \ {0} /\ pc[p] \in Loops
  <2>1. v \in Visits(pc[p]) /\ pc[p] \in Loops
    BY <1>1, VisitType
  <2> QED  BY <1>1, <2>1 DEF Visits
<1>3. CASE Done(p, v) /\ UNCHANGED <<inputs, links, derived, served>>
  <2>1. ControlOK'
    BY <1>2, <1>3, DoneControl DEF TypeOK
  <2>2. RowsOK'
    BY <1>3 DEF TypeOK, RowsOK, inputs, derived
  <2> QED  BY <2>1, <2>2 DEF TypeOK
<1>4. CASE Abort(p)
  BY <1>4, AbortControl DEF TypeOK
<1>5. CASE /\ defs' = defs \cup {[run |-> mem[p].run, vid |-> v, interfaces |-> 0,
                                     devices |-> 0]}
           /\ Continue(p, mem[p].todo \ {v}, mem[p].known \cup {v})
           /\ UNCHANGED <<inputs, links, ifaces, endpoints, paths, issues, served>>
  <2>1. /\ mem[p].todo \ {v} \in SUBSET Visits(pc[p])
        /\ mem[p].known \cup {v} \in SUBSET Nat /\ mem[p].run \in Nat
    BY <1>2 DEF TypeOK, ControlOK, MemoryOK
  <2>2. ControlOK'
    BY <1>2, <1>5, <2>1, ContinueControl DEF TypeOK
  <2>3. defs' \subseteq Definition
    BY <1>2, <1>5, <2>1 DEF TypeOK, RowsOK, Definition
  <2>4. RowsOK'
    BY <1>5, <2>3 DEF TypeOK, RowsOK, inputs
  <2> QED  BY <2>2, <2>4 DEF TypeOK
<1> QED  BY <1>1, <1>3, <1>4, <1>5

LEMMA BuildEndpointsType ==
  ASSUME TypeOK, NEW p \in Procs, BuildEndpoints(p)
  PROVE  TypeOK'
<1> DEFINE row(d, r) == [run |-> mem[p].run, def |-> Pk(d), port |-> r.port, mode |-> r.mode]
           new(d) == {row(d, r) : r \in {x \in ifaces : x.vid = d.vid /\ x.mode # "trunk"}}
<1>1. PICK d \in mem[p].todo :
        /\ Visit(p, "endpoints", d)
        /\ \/ Abort(p)
           \/ /\ endpoints' = endpoints \cup new(d)
              /\ Done(p, d)
              /\ UNCHANGED <<inputs, links, ifaces, defs, paths, issues, served>>
  BY DEF BuildEndpoints
<1>2. d \in Definition /\ pc[p] \in Loops
  <2>1. pc[p] = "endpoints" /\ d \in Visits(pc[p]) /\ pc[p] \in Loops
    BY <1>1, VisitType DEF Visit
  <2> QED  BY <2>1 DEF Visits
<1>3. new(d) \subseteq Endpoint
  <2>1. mem[p].run \in Nat /\ Pk(d) \in DefPk
    BY <1>2, PkType DEF TypeOK, ControlOK, MemoryOK
  <2>2. \A r \in ifaces : r.port \in Ports /\ r.mode \in {"trunk", "access", "subinterface"}
    BY DEF TypeOK, RowsOK, Interface
  <2> QED  BY <2>1, <2>2 DEF Endpoint
<1> HIDE DEF new
<1>4. CASE Abort(p)
  BY <1>4, AbortControl DEF TypeOK
<1>5. CASE ~Abort(p)
  <2>1. ControlOK'
    BY <1>1, <1>2, <1>5, DoneControl DEF TypeOK
  <2>2. RowsOK'
    BY <1>1, <1>3, <1>5 DEF TypeOK, RowsOK, inputs
  <2> QED  BY <2>1, <2>2 DEF TypeOK
<1> QED  BY <1>4, <1>5

LEMMA DefOfType ==
  ASSUME RowsOK, NEW v
  PROVE  DefOf(v) \in DefPk \cup {NoRow}
<1>1. CASE \E d \in defs : d.vid = v
  <2>1. (CHOOSE d \in defs : d.vid = v) \in defs
    BY <1>1
  <2> QED  BY <1>1, <2>1, PkType DEF DefOf, RowsOK
<1>2. CASE ~\E d \in defs : d.vid = v
  BY <1>2 DEF DefOf
<1> QED  BY <1>1, <1>2

LEMMA BuildPathsType ==
  ASSUME TypeOK, NEW p \in Procs, BuildPaths(p)
  PROVE  TypeOK'
<1> DEFINE common(l) == On(l.a) \cap On(l.b)
           path(l, d) == [run |-> mem[p].run, def |-> Pk(d), a |-> l.a, b |-> l.b, via |-> l.pk]
           new(l) == {path(l, d) : d \in {x \in defs : x.vid \in common(l)}}
           low(l) == {NewIssue(p, "low_confidence", q.def, l.a, l.b) :
                        q \in {x \in new(l) : l.confidence = "low"}}
           lost(q, r) == {NewIssue(p, "missing", DefOf(v), q, r) : v \in On(q) \ On(r)}
<1>1. PICK l \in mem[p].todo :
        /\ Visit(p, "paths", l)
        /\ \/ Abort(p)
           \/ /\ paths' = paths \cup new(l)
              /\ issues' = issues \cup low(l) \cup lost(l.a, l.b) \cup lost(l.b, l.a)
              /\ Done(p, l)
              /\ UNCHANGED <<inputs, links, ifaces, defs, endpoints, served>>
  BY DEF BuildPaths
<1>2. l \in Link /\ pc[p] \in Loops
  <2>1. pc[p] = "paths" /\ l \in Visits(pc[p]) /\ pc[p] \in Loops
    BY <1>1, VisitType DEF Visit
  <2> QED  BY <2>1 DEF Visits
<1>3. l.a \in Ports /\ l.b \in Ports /\ l.pk \in Keys
  BY <1>2 DEF Link
<1>4. new(l) \subseteq Path
  <2>1. mem[p].run \in Nat
    BY DEF TypeOK, ControlOK, MemoryOK
  <2>2. \A d \in defs : Pk(d) \in DefPk
    BY PkType DEF TypeOK, RowsOK
  <2> QED  BY <1>3, <2>1, <2>2 DEF Path
<1>5. low(l) \subseteq Issue
  <2>1. \A q \in new(l) : q.def \in DefPk
    BY <1>4 DEF Path
  <2> HIDE DEF new
  <2> QED  BY <1>3, <2>1, NewIssueType DEF TypeOK
<1>6. ASSUME NEW q \in Ports, NEW r \in Ports PROVE lost(q, r) \subseteq Issue
  BY DefOfType, NewIssueType DEF TypeOK
<1>7. lost(l.a, l.b) \subseteq Issue /\ lost(l.b, l.a) \subseteq Issue
  BY <1>3, <1>6
<1> HIDE DEF new, low, lost
<1>8. CASE Abort(p)
  BY <1>8, AbortControl DEF TypeOK
<1>9. CASE ~Abort(p)
  <2>1. ControlOK'
    BY <1>1, <1>2, <1>9, DoneControl DEF TypeOK
  <2>2. RowsOK'
    BY <1>1, <1>4, <1>5, <1>7, <1>9 DEF TypeOK, RowsOK, inputs
  <2> QED  BY <2>1, <2>2 DEF TypeOK
<1> QED  BY <1>8, <1>9

LEMMA IsolatedEndpointType ==
  ASSUME TypeOK, NEW p \in Procs, IsolatedEndpoint(p)
  PROVE  TypeOK'
<1>1. PICK n \in mem[p].todo :
        /\ Visit(p, "isolated", n)
        /\ \/ Abort(p)
           \/ /\ issues' = IF \E q \in paths : q.def = n.def THEN issues
                           ELSE issues \cup {NewIssue(p, "isolated", n.def, n.port, NoPort)}
              /\ Done(p, n)
              /\ UNCHANGED <<inputs, links, ifaces, defs, endpoints, paths, served>>
  BY DEF IsolatedEndpoint
<1>2. n \in Endpoint /\ pc[p] \in Loops
  <2>1. pc[p] = "isolated" /\ n \in Visits(pc[p]) /\ pc[p] \in Loops
    BY <1>1, VisitType DEF Visit
  <2> QED  BY <2>1 DEF Visits
<1>3. NewIssue(p, "isolated", n.def, n.port, NoPort) \in Issue
  BY <1>2, NewIssueType DEF TypeOK, Endpoint
<1>4. CASE Abort(p)
  BY <1>4, AbortControl DEF TypeOK
<1>5. CASE ~Abort(p)
  <2>1. ControlOK'
    BY <1>1, <1>2, <1>5, DoneControl DEF TypeOK
  <2>2. RowsOK'
    BY <1>1, <1>3, <1>5 DEF TypeOK, RowsOK, inputs
  <2> QED  BY <2>1, <2>2 DEF TypeOK
<1> QED  BY <1>4, <1>5

LEMMA UnusedVlanType ==
  ASSUME TypeOK, NEW p \in Procs, UnusedVlan(p)
  PROVE  TypeOK'
<1>1. PICK d \in mem[p].todo :
        LET unused == \A r \in ifaces : r.vid # d.vid
        IN  /\ Visit(p, "unused", d)
            /\ \/ Abort(p)
               \/ /\ issues' = IF unused
                               THEN issues \cup {NewIssue(p, "unused", Pk(d), NoPort, NoPort)}
                               ELSE issues
                  /\ Done(p, d)
                  /\ UNCHANGED <<inputs, links, ifaces, defs, endpoints, paths, served>>
  BY DEF UnusedVlan
<1>2. d \in Definition /\ pc[p] \in Loops
  <2>1. pc[p] = "unused" /\ d \in Visits(pc[p]) /\ pc[p] \in Loops
    BY <1>1, VisitType DEF Visit
  <2> QED  BY <2>1 DEF Visits
<1>3. NewIssue(p, "unused", Pk(d), NoPort, NoPort) \in Issue
  BY <1>2, PkType, NewIssueType DEF TypeOK
<1>4. CASE Abort(p)
  BY <1>4, AbortControl DEF TypeOK
<1>5. CASE ~Abort(p)
  <2>1. ControlOK'
    BY <1>1, <1>2, <1>5, DoneControl DEF TypeOK
  <2>2. RowsOK'
    BY <1>1, <1>3, <1>5 DEF TypeOK, RowsOK, inputs
  <2> QED  BY <2>1, <2>2 DEF TypeOK
<1> QED  BY <1>4, <1>5

LEMMA RoutedVlanType ==
  ASSUME TypeOK, NEW p \in Procs, RoutedVlan(p)
  PROVE  TypeOK'
<1> DEFINE lost(r) == {x \in defs : x.vid = r.vid /\ \A q \in paths : q.def # Pk(x)}
           new(r)  == {NewIssue(p, "routed", Pk(d), r.port, NoPort) : d \in lost(r)}
<1>1. PICK r \in mem[p].todo :
        /\ Visit(p, "routed", r)
        /\ issues' = issues \cup new(r)
        /\ Done(p, r)
        /\ UNCHANGED <<inputs, links, ifaces, defs, endpoints, paths, served>>
  BY DEF RoutedVlan
<1>2. r \in Interface /\ pc[p] \in Loops
  <2>1. pc[p] = "routed" /\ r \in Visits(pc[p]) /\ pc[p] \in Loops
    BY <1>1, VisitType DEF Visit
  <2> QED  BY <2>1 DEF Visits
<1>3. new(r) \subseteq Issue
  <2>1. \A d \in defs : Pk(d) \in DefPk
    BY PkType DEF TypeOK, RowsOK
  <2>2. r.port \in Ports
    BY <1>2 DEF Interface
  <2> QED  BY <2>1, <2>2, NewIssueType DEF TypeOK
<1> HIDE DEF new
<1>4. ControlOK'
  BY <1>1, <1>2, DoneControl DEF TypeOK
<1>5. RowsOK'
  BY <1>1, <1>3 DEF TypeOK, RowsOK, inputs
<1> QED  BY <1>4, <1>5 DEF TypeOK

LEMMA UpdateCountsType ==
  ASSUME TypeOK, NEW p \in Procs, UpdateCounts(p)
  PROVE  TypeOK'
<1> DEFINE rows(d) == {r \in ifaces : r.vid = d.vid}
           i(d) == Cardinality(rows(d))
           n(d) == Cardinality({r.port[1] : r \in rows(d)})
<1>1. PICK d \in mem[p].todo :
        /\ Visit(p, "counts", d)
        /\ \/ Abort(p)
           \/ /\ defs' = {IF Pk(x) = Pk(d)
                          THEN [x EXCEPT !.interfaces = i(d), !.devices = n(d)]
                          ELSE x : x \in defs}
              /\ Done(p, d)
              /\ UNCHANGED <<inputs, links, ifaces, endpoints, paths, issues, served>>
  BY DEF UpdateCounts
<1>2. pc[p] \in Loops
  BY <1>1, VisitType DEF Visit
<1>3. i(d) \in Nat /\ n(d) \in Nat
  <2>1. IsFiniteSet(rows(d))
    BY FS_Subset DEF TypeOK, RowsOK
  <2> DEFINE f == [r \in rows(d) |-> r.port[1]]
  <2>2. {r.port[1] : r \in rows(d)} = {f[r] : r \in rows(d)} /\ f = [r \in rows(d) |-> f[r]]
    OBVIOUS
  <2> HIDE DEF rows, f
  <2>3. IsFiniteSet({f[r] : r \in rows(d)})
    BY <2>1, <2>2, FiniteImage
  <2> QED  BY <2>1, <2>2, <2>3, FS_CardinalityType
<1> HIDE DEF i, n
<1>4. CASE Abort(p)
  BY <1>4, AbortControl DEF TypeOK
<1>5. CASE ~Abort(p)
  <2>1. \A x \in Definition : [x EXCEPT !.interfaces = i(d), !.devices = n(d)] \in Definition
    BY <1>3 DEF Definition
  <2> DEFINE counted(x) == [x EXCEPT !.interfaces = i(d), !.devices = n(d)]
  <2>2. defs' \subseteq Definition
    <3>1. \A x \in defs : x \in Definition /\ counted(x) \in Definition
      BY <2>1 DEF TypeOK, RowsOK
    <3>2. defs' = {IF Pk(x) = Pk(d) THEN counted(x) ELSE x : x \in defs}
      BY <1>1, <1>5
    <3> HIDE DEF counted
    <3> QED  BY <3>1, <3>2
  <2>3. ControlOK'
    BY <1>1, <1>2, <1>5, DoneControl DEF TypeOK
  <2>4. RowsOK'
    BY <1>1, <1>5, <2>2 DEF TypeOK, RowsOK, inputs
  <2> QED  BY <2>3, <2>4 DEF TypeOK
<1> QED  BY <1>4, <1>5

LEMMA EnterLinkType ==
  ASSUME TypeOK, NEW l \in Pairs, EnterLink(l[1], l[2])
  PROVE  TypeOK'
<1> DEFINE a == l[1]
           b == l[2]
           k == <<served + 1, "manual", 0, a, b>>
           new == [pk |-> k, a |-> a, b |-> b, method |-> "manual", confidence |-> "high"]
<1>1. a \in Ports /\ b \in Ports
  BY VlanAssumption
<1>2. served' \in Nat /\ served <= served' /\ served \in Nat
  BY DEF EnterLink, TypeOK, RowsOK
<1>3. k \in Keys /\ k[2] = "manual" /\ k[4] = a /\ k[5] = b
  BY <1>1, <1>2 DEF Keys
<1>4. links' = links \cup {new} /\ Aside /\ UNCHANGED inputs
  BY DEF EnterLink
<1> HIDE DEF a, b, k
<1>5. new \in Link
  BY <1>1, <1>3 DEF Link
<1> HIDE DEF new
<1>6. ControlOK'
  BY <1>2, <1>4, AsideControl DEF TypeOK
<1>7. RowsOK'
  BY <1>2, <1>4, <1>5 DEF TypeOK, RowsOK, Aside, inputs, derived
<1> QED  BY <1>6, <1>7 DEF TypeOK

LEMMA DeleteEvidenceType ==
  ASSUME TypeOK, NEW e \in evidence, DeleteEvidence(e)
  PROVE  TypeOK'
<1>1. ControlOK'
  BY AsideControl DEF DeleteEvidence, TypeOK, RowsOK
<1>2. RowsOK'
  BY DEF DeleteEvidence, Aside, TypeOK, RowsOK, derived
<1> QED  BY <1>1, <1>2 DEF TypeOK

LEMMA ReanalyseType ==
  ASSUME TypeOK, NEW d \in Devices, Reanalyse(d)
  PROVE  TypeOK'
<1>1. ControlOK'
  BY AsideControl DEF Reanalyse, TypeOK, RowsOK
<1>2. RowsOK'
  BY DEF Reanalyse, Aside, TypeOK, RowsOK, derived
<1> QED  BY <1>1, <1>2 DEF TypeOK

LEMMA StepType ==
  ASSUME TypeOK, NEW p \in Procs, Step(p)
  PROVE  TypeOK'
BY CleanDefinitionsType, CleanRowsType, CleanLinksType, QueryType, NormalizeType,
   ReadEvidenceType, SuggestLinkType, BuildInterfacesType, BuildDefinitionType,
   BuildEndpointsType, BuildPathsType, IsolatedEndpointType, UnusedVlanType, RoutedVlanType,
   UpdateCountsType DEF Step

LEMMA NextType == TypeOK /\ [Next]_vars => TypeOK'
<1> SUFFICES ASSUME TypeOK, [Next]_vars PROVE TypeOK'
  OBVIOUS
<1>1. CASE UNCHANGED vars
  <2>1. RowsOK'
    BY <1>1 DEF TypeOK, RowsOK, vars, inputs, derived
  <2>2. ControlOK'
    BY <1>1 DEF TypeOK, ControlOK, MemoryOK, vars
  <2> QED  BY <2>1, <2>2 DEF TypeOK
<1>2. CASE Next
  <2>1. ASSUME NEW p \in Procs, StartCorrelation(p) PROVE TypeOK'
    BY <2>1, StartCorrelationType
  <2>2. ASSUME NEW p \in Procs, NEW e \in Reports, SubmitEvidence(p, e) PROVE TypeOK'
    BY <2>2, SubmitEvidenceType
  <2>3. ASSUME NEW p \in Procs, Step(p) PROVE TypeOK'
    BY <2>3, StepType
  <2>4. ASSUME NEW p \in Procs, Crash(p) PROVE TypeOK'
    BY <2>4, AbortControl DEF Crash, TypeOK
  <2>5. ASSUME NEW l \in Pairs, EnterLink(l[1], l[2]) PROVE TypeOK'
    BY <2>5, EnterLinkType
  <2>6. ASSUME NEW e \in evidence, DeleteEvidence(e) PROVE TypeOK'
    BY <2>6, DeleteEvidenceType
  <2>7. ASSUME NEW d \in Devices, Reanalyse(d) PROVE TypeOK'
    BY <2>7, ReanalyseType
  <2> QED  BY <1>2, <2>1, <2>2, <2>3, <2>4, <2>5, <2>6, <2>7 DEF Next
<1> QED  BY <1>1, <1>2

(* Whatever requests overlap, fail or are killed, the rows of a session    *)
(* and the memory of the processes that serve it keep their types; among   *)
(* them, a link is manual exactly when its key says so, also in a copy     *)
(* that normalize_device_link or build_vlan_paths still holds.             *)
THEOREM Typing == Spec => []TypeOK
<1>1. Init => TypeOK
  BY InitType
<1>2. TypeOK /\ [Next]_vars => TypeOK'
  BY NextType
<1> QED  BY <1>1, <1>2, PTL DEF Spec

-----------------------------------------------------------------------------
(* Links entered by hand.                                                  *)

Stays(l) == \E m \in links' : m.pk = l.pk /\ m.method = "manual" /\ {m.a, m.b} = {l.a, l.b}
Kept     == \A l \in links : l.method = "manual" => Stays(l)

LEMMA GrowingKeeps == links \subseteq links' => Kept
  BY DEF Kept, Stays

\* A row written over l from an old copy of it still is l.
LEMMA SameKey ==
  ASSUME NEW l \in Link, NEW m \in Link, l.pk = m.pk
  PROVE  (l.method = "manual" => m.method = "manual") /\ {m.a, m.b} = {l.a, l.b}
BY DEF Link

LEMMA NormalizeKeeps ==
  ASSUME TypeOK, NEW p \in Procs, Normalize(p)
  PROVE  Kept
<1>1. PICK c \in mem[p].todo :
        LET turned == [c EXCEPT !.a = c.b, !.b = c.a]
            taken  == \E m \in LinksAt(turned.a, turned.b) : m.pk # c.pk
        IN  /\ Visit(p, "normalize", c)
            /\ \/ taken /\ Abort(p)
               \/ /\ ~taken
                  /\ links' = {m \in links : m.pk # c.pk} \cup {turned}
                  /\ Done(p, c)
                  /\ UNCHANGED <<inputs, derived, served>>
  BY DEF Normalize
<1> DEFINE turned == [c EXCEPT !.a = c.b, !.b = c.a]
<1>2. CASE Abort(p)
  BY <1>2, GrowingKeeps DEF Abort
<1>3. CASE links' = {m \in links : m.pk # c.pk} \cup {turned}
  <2>1. c \in Link
    <3>1. pc[p] = "normalize" /\ c \in Visits(pc[p])
      BY <1>1, VisitType DEF Visit
    <3> QED  BY <3>1 DEF Visits
  <2>2. turned \in Link /\ turned.pk = c.pk
    BY <2>1, TurnedType DEF Link
  <2> HIDE DEF turned
  <2>3. ASSUME NEW l \in links, l.method = "manual" PROVE Stays(l)
    <3>1. CASE l.pk # c.pk
      BY <1>3, <2>3, <3>1 DEF Stays
    <3>2. CASE l.pk = c.pk
      <4>1. l \in Link
        BY DEF TypeOK, RowsOK
      <4>2. turned.method = "manual" /\ {turned.a, turned.b} = {l.a, l.b}
        BY <2>2, <2>3, <3>2, <4>1, SameKey
      <4> QED  BY <1>3, <2>2, <3>2, <4>2 DEF Stays
    <3> QED  BY <3>1, <3>2
  <2> QED  BY <2>3 DEF Kept
<1> QED  BY <1>1, <1>2, <1>3

LEMMA UpsertKeeps ==
  ASSUME TypeOK, NEW p, NEW e, NEW a, NEW b, Upsert(p, e, a, b)
  PROVE  Kept
<1>1. CASE links \subseteq links'
  BY <1>1, GrowingKeeps
<1>2. ASSUME NEW o \in LinksAt(a, b), NEW raised, raised = (e.method = "lldp" /\ o.method = "subnet"),
             links' = (links \ {o}) \cup
                  {[o EXCEPT !.method = IF raised THEN "lldp" ELSE @,
                             !.confidence = IF raised THEN "high"
                                            ELSE IF e.kind = "csv" THEN e.confidence ELSE @]}
      PROVE  Kept
  <2> DEFINE confidence == IF raised THEN "high"
                           ELSE IF e.kind = "csv" THEN e.confidence ELSE o.confidence
             method == IF raised THEN "lldp" ELSE o.method
             new == [o EXCEPT !.method = method, !.confidence = confidence]
  <2>1. o \in Link /\ links' = (links \ {o}) \cup {new}
    BY <1>2 DEF LinksAt, TypeOK, RowsOK, Link
  <2>2. new.pk = o.pk /\ new.a = o.a /\ new.b = o.b /\ new.method = method
    BY <2>1 DEF Link
  <2>3. o.method = "manual" => method = "manual"
    BY <1>2
  <2> HIDE DEF new, method
  <2>4. ASSUME NEW l \in links, l.method = "manual" PROVE Stays(l)
    <3>1. CASE l # o
      BY <2>1, <2>4, <3>1 DEF Stays
    <3>2. CASE l = o
      BY <2>1, <2>2, <2>3, <2>4, <3>2 DEF Stays
    <3> QED  BY <3>1, <3>2
  <2> QED  BY <2>4 DEF Kept
<1> QED  BY <1>1, <1>2 DEF Upsert

LEMMA StepKeeps ==
  ASSUME TypeOK, NEW p \in Procs, Step(p)
  PROVE  Kept
<1>1. CASE UNCHANGED links
  BY <1>1, GrowingKeeps
<1>2. CASE CleanLinks(p)
  BY <1>2 DEF CleanLinks, Kept, Stays
<1>3. CASE Normalize(p)
  BY <1>3, NormalizeKeeps
<1>4. CASE ReadEvidence(p)
  <2>1. UNCHANGED links \/ \E e, a, b : Upsert(p, e, a, b)
    BY <1>4 DEF ReadEvidence
  <2> QED  BY <1>1, <2>1, UpsertKeeps
<1>5. CASE SuggestLink(p)
  <2>1. links \subseteq links'
    BY <1>5 DEF SuggestLink
  <2> QED  BY <2>1, GrowingKeeps
<1>6. CASE CleanDefinitions(p) \/ CleanRows(p) \/ Query(p) \/ BuildInterfaces(p)
  BY <1>1, <1>6 DEF CleanDefinitions, CleanRows, Query, BuildInterfaces
<1>7. CASE BuildDefinition(p) \/ BuildEndpoints(p) \/ BuildPaths(p)
  BY <1>1, <1>7 DEF BuildDefinition, BuildEndpoints, BuildPaths, Abort
<1>8. CASE IsolatedEndpoint(p) \/ UnusedVlan(p) \/ RoutedVlan(p) \/ UpdateCounts(p)
  BY <1>1, <1>8 DEF IsolatedEndpoint, UnusedVlan, RoutedVlan, UpdateCounts, Abort
<1> QED  BY <1>2, <1>3, <1>4, <1>5, <1>6, <1>7, <1>8 DEF Step

LEMMA NextKeeps == TypeOK /\ [Next]_vars => [Kept]_vars
<1> SUFFICES ASSUME TypeOK, Next PROVE Kept
  OBVIOUS
<1>1. ASSUME NEW p \in Procs, Step(p) PROVE Kept
  BY <1>1, StepKeeps
<1>2. ASSUME NEW p \in Procs, StartCorrelation(p) \/ (\E e \in Reports : SubmitEvidence(p, e))
                             \/ Crash(p)
      PROVE Kept
  BY <1>2, GrowingKeeps DEF StartCorrelation, SubmitEvidence, Crash, Abort
<1>3. ASSUME NEW l \in Pairs, EnterLink(l[1], l[2]) PROVE Kept
  BY <1>3, GrowingKeeps DEF EnterLink
<1>4. ASSUME NEW e \in evidence, DeleteEvidence(e) PROVE Kept
  BY <1>4, GrowingKeeps DEF DeleteEvidence
<1>5. ASSUME NEW d \in Devices, Reanalyse(d) PROVE Kept
  BY <1>5, GrowingKeeps DEF Reanalyse
<1> QED  BY <1>1, <1>2, <1>3, <1>4, <1>5 DEF Next

(* A link entered by hand is never lost and keeps its two ports, however   *)
(* many correlations overlap: a normalisation that saves an old copy of a  *)
(* link saves one of the same key, and the key tells.                      *)
THEOREM ManualLinks == Spec => ManualLinksStay
<1>1. TypeOK /\ [Next]_vars => [Kept]_vars
  BY NextKeeps
<1> QED  BY <1>1, Typing, PTL DEF Spec, ManualLinksStay, Kept, Stays

-----------------------------------------------------------------------------
(* Paths.  The rows of interfaces come from the configurations, a path is  *)
(* made for a VLAN on both ports, and a link keeps its ports under its key. *)

Carries(q, v) == \E c \in Config[q[1]] : c.name = q[2] /\ c.vid = v

\* The path q, with the definitions D and the links L.
RealPath(q, D, L) ==
    /\ \E d \in D : Pk(d) = q.def /\ Carries(q.a, d.vid) /\ Carries(q.b, d.vid)
    /\ q.via # NoRow => {q.a, q.b} = {q.via[4], q.via[5]} /\ \E l \in L : l.pk = q.via

PathsInv ==
    /\ TypeOK
    /\ \A r \in ifaces : Carries(r.port, r.vid)
    /\ \A q \in paths : RealPath(q, defs, links)

LEMMA InvPaths == PathsInv => PathsAreReal
<1> SUFFICES ASSUME PathsInv, NEW q \in paths
             PROVE  /\ \E d \in defs : /\ Pk(d) = q.def
                                       /\ \A x \in {q.a, q.b} : \E r \in Config[x[1]] :
                                             r.name = x[2] /\ r.vid = d.vid
                    /\ q.via # NoRow => \E l \in links : l.pk = q.via /\ {l.a, l.b} = {q.a, q.b}
  BY DEF PathsAreReal
<1>1. RealPath(q, defs, links)
  BY DEF PathsInv
<1>2. \A l \in links : {l.a, l.b} = {l.pk[4], l.pk[5]}
  BY DEF PathsInv, TypeOK, RowsOK, Link
<1> QED  BY <1>1, <1>2 DEF RealPath, Carries

\* Rows may go, but of definitions and links only together with their paths.
LEMMA PathsRemain ==
  ASSUME PathsInv, TypeOK',
         \A d \in defs : \E e \in defs' : Pk(e) = Pk(d),
         \A l \in links : \E m \in links' : m.pk = l.pk,
         paths' \subseteq paths, ifaces' \subseteq ifaces
  PROVE  PathsInv'
<1>1. \A q \in paths : RealPath(q, defs, links)
  BY DEF PathsInv
<1>2. ASSUME NEW q \in paths PROVE RealPath(q, defs', links')
  <2>1. PICK d \in defs : Pk(d) = q.def /\ Carries(q.a, d.vid) /\ Carries(q.b, d.vid)
    BY <1>1 DEF RealPath
  <2>2. PICK e \in defs' : Pk(e) = Pk(d)
    OBVIOUS
  <2>3. e.vid = d.vid
    BY <2>2 DEF Pk
  <2>4. q.via # NoRow => {q.a, q.b} = {q.via[4], q.via[5]} /\ \E l \in links' : l.pk = q.via
    BY <1>1 DEF RealPath
  <2> QED  BY <2>1, <2>2, <2>3, <2>4 DEF RealPath
<1> QED  BY <1>2 DEF PathsInv

LEMMA CleanLinksPaths ==
  ASSUME PathsInv, TypeOK', NEW p \in Procs, CleanLinks(p)
  PROVE  PathsInv'
<1> DEFINE via(q) == IF \E l \in links' : l.pk = q.via THEN q.via ELSE NoRow
           cut(q) == [q EXCEPT !.via = via(q)]
<1>1. /\ paths' = {[q EXCEPT !.via = IF \E l \in links' : l.pk = @ THEN @ ELSE NoRow] : q \in paths}
      /\ ifaces' = ifaces /\ defs' = defs
  BY DEF CleanLinks
<1>2. \A q \in paths : RealPath(q, defs, links) /\ q \in Path
  BY DEF PathsInv, TypeOK, RowsOK
<1>3. ASSUME NEW q \in paths
      PROVE  RealPath([q EXCEPT !.via = IF \E l \in links' : l.pk = @ THEN @ ELSE NoRow],
                      defs, links')
  <2> DEFINE r == [q EXCEPT !.via = IF \E l \in links' : l.pk = @ THEN @ ELSE NoRow]
  <2>1. r.def = q.def /\ r.a = q.a /\ r.b = q.b
        /\ r.via = IF \E l \in links' : l.pk = q.via THEN q.via ELSE NoRow
    BY <1>2 DEF Path
  <2> HIDE DEF r
  <2>2. RealPath(q, defs, links)
    BY <1>2
  <2>3. r.via # NoRow => r.via = q.via /\ \E l \in links' : l.pk = r.via
    BY <2>1
  <2>4. RealPath(r, defs, links')
    BY <2>1, <2>2, <2>3 DEF RealPath
  <2> QED  BY <2>4 DEF r
<1> QED  BY <1>1, <1>3 DEF PathsInv

LEMMA BuildInterfacesPaths ==
  ASSUME PathsInv, TypeOK', NEW p \in Procs, BuildInterfaces(p)
  PROVE  PathsInv'
<1>1. PICK d \in mem[p].todo :
        /\ ifaces' = ifaces \cup {[run |-> mem[p].run, port |-> <<d, r.name>>, vid |-> r.vid,
                                   mode |-> r.mode] : r \in Config[d]}
        /\ UNCHANGED <<links, defs, paths>>
  BY DEF BuildInterfaces
<1>2. \A c \in Config[d] : Carries(<<d, c.name>>, c.vid)
  BY DEF Carries
<1>3. \A r \in ifaces' : Carries(r.port, r.vid)
  BY <1>1, <1>2 DEF PathsInv
<1> QED  BY <1>1, <1>3 DEF PathsInv

LEMMA BuildPathsPaths ==
  ASSUME PathsInv, TypeOK', NEW p \in Procs, BuildPaths(p)
  PROVE  PathsInv'
<1> DEFINE path(l, d) == [run |-> mem[p].run, def |-> Pk(d), a |-> l.a, b |-> l.b, via |-> l.pk]
           new(l) == {path(l, d) : d \in {x \in defs : x.vid \in On(l.a) \cap On(l.b)}}
<1>1. PICK l \in mem[p].todo :
        /\ Visit(p, "paths", l)
        /\ \/ Abort(p)
           \/ /\ new(l) = {} \/ \E m \in links : m.pk = l.pk
              /\ paths' = paths \cup new(l)
              /\ UNCHANGED <<links, ifaces, defs>>
  BY DEF BuildPaths
<1>2. CASE Abort(p)
  BY <1>2, PathsRemain DEF Abort, derived
<1>3. CASE /\ new(l) = {} \/ \E m \in links : m.pk = l.pk
           /\ paths' = paths \cup new(l)
           /\ UNCHANGED <<links, ifaces, defs>>
  <2>1. l \in Link
    <3>1. pc[p] = "paths" /\ l \in Visits(pc[p])
      BY <1>1, VisitType DEF Visit, PathsInv
    <3> QED  BY <3>1 DEF Visits
  <2>2. \A q, v : v \in On(q) => Carries(q, v)
    BY DEF On, PathsInv
  <2>3. ASSUME NEW d \in defs, d.vid \in On(l.a) \cap On(l.b) PROVE RealPath(path(l, d), defs, links)
    <3>1. path(l, d) \in new(l)
      BY <2>3
    <3>2. \E m \in links : m.pk = l.pk
      BY <1>3, <3>1
    <3>3. {l.a, l.b} = {l.pk[4], l.pk[5]}
      BY <2>1 DEF Link
    <3> QED  BY <2>2, <2>3, <3>2, <3>3 DEF RealPath
  <2>4. \A q \in paths' : RealPath(q, defs, links)
    BY <1>3, <2>3 DEF PathsInv
  <2> QED  BY <1>3, <2>4 DEF PathsInv
<1> QED  BY <1>1, <1>2, <1>3

\* What a row of the loops leaves of the links and of the definitions.
LEMMA LinksRemain ==
  ASSUME TypeOK, NEW p \in Procs, Normalize(p) \/ ReadEvidence(p) \/ SuggestLink(p)
  PROVE  \A l \in links : \E m \in links' : m.pk = l.pk
<1>1. CASE links \subseteq links'
  BY <1>1
<1>2. ASSUME NEW c, NEW t, t.pk = c.pk, links' = {m \in links : m.pk # c.pk} \cup {t}
      PROVE  \A l \in links : \E m \in links' : m.pk = l.pk
  BY <1>2
<1>3. ASSUME NEW c \in links, NEW t, t.pk = c.pk, links' = (links \ {c}) \cup {t}
      PROVE  \A l \in links : \E m \in links' : m.pk = l.pk
  BY <1>3
<1>4. CASE Normalize(p)
  <2>1. PICK c \in mem[p].todo :
          /\ Visit(p, "normalize", c)
          /\ \/ UNCHANGED links
             \/ links' = {m \in links : m.pk # c.pk} \cup {[c EXCEPT !.a = c.b, !.b = c.a]}
    BY <1>4 DEF Normalize, Abort
  <2>2. c \in Link
    <3>1. pc[p] = "normalize" /\ c \in Visits(pc[p])
      BY <2>1, VisitType DEF Visit
    <3> QED  BY <3>1 DEF Visits
  <2>3. [c EXCEPT !.a = c.b, !.b = c.a].pk = c.pk
    BY <2>2 DEF Link
  <2> QED  BY <1>1, <1>2, <2>1, <2>3
<1>5. CASE ReadEvidence(p)
  <2>1. ASSUME NEW e, NEW a, NEW b, Upsert(p, e, a, b)
        PROVE  \A l \in links : \E m \in links' : m.pk = l.pk
    <3>1. ASSUME NEW o \in LinksAt(a, b), NEW x, NEW y,
                 links' = (links \ {o}) \cup {[o EXCEPT !.method = x, !.confidence = y]}
          PROVE  \A l \in links : \E m \in links' : m.pk = l.pk
      <4>1. o \in links /\ [o EXCEPT !.method = x, !.confidence = y].pk = o.pk
        BY <3>1 DEF LinksAt, TypeOK, RowsOK, Link
      <4> QED  BY <1>3, <3>1, <4>1
    <3>2. ASSUME NEW o \in LinksAt(a, b), NEW r, NEW v, NEW c,
                 links' = (links \ {o}) \cup
                    {[o EXCEPT !.method = IF r THEN "lldp" ELSE @,
                               !.confidence = IF v THEN "high" ELSE IF c THEN e.confidence ELSE @]}
          PROVE  \A l \in links : \E m \in links' : m.pk = l.pk
      <4>1. o \in Link
        BY DEF LinksAt, TypeOK, RowsOK
      <4>2. \E x, y : links' = (links \ {o}) \cup {[o EXCEPT !.method = x, !.confidence = y]}
        BY <3>2, <4>1 DEF Link
      <4> QED  BY <3>1, <4>2
    <3> QED  BY <1>1, <2>1, <3>2 DEF Upsert
  <2>2. UNCHANGED links \/ \E e, a, b : Upsert(p, e, a, b)
    BY <1>5 DEF ReadEvidence
  <2> QED  BY <1>1, <2>1, <2>2
<1>6. CASE SuggestLink(p)
  <2>1. links \subseteq links'
    BY <1>6 DEF SuggestLink
  <2> QED  BY <1>1, <2>1
<1> QED  BY <1>4, <1>5, <1>6

LEMMA DefinitionsRemain ==
  ASSUME TypeOK, NEW p \in Procs, BuildDefinition(p) \/ UpdateCounts(p)
  PROVE  \A d \in defs : \E e \in defs' : Pk(e) = Pk(d)
<1>1. CASE BuildDefinition(p)
  <2>1. defs \subseteq defs'
    BY <1>1 DEF BuildDefinition, Abort, derived
  <2> QED  BY <2>1
<1>2. CASE UpdateCounts(p)
  <2> DEFINE rows(d) == {r \in ifaces : r.vid = d.vid}
             i(d) == Cardinality(rows(d))
             n(d) == Cardinality({r.port[1] : r \in rows(d)})
  <2>1. PICK d \in mem[p].todo :
          \/ UNCHANGED defs
          \/ defs' = {IF Pk(x) = Pk(d) THEN [x EXCEPT !.interfaces = i(d), !.devices = n(d)]
                      ELSE x : x \in defs}
    BY <1>2 DEF UpdateCounts, Abort, derived
  <2> HIDE DEF i, n
  <2>2. \A x \in defs : Pk([x EXCEPT !.interfaces = i(d), !.devices = n(d)]) = Pk(x)
    BY DEF TypeOK, RowsOK, Definition, Pk
  <2> QED  BY <2>1, <2>2
<1> QED  BY <1>1, <1>2

LEMMA StepPaths ==
  ASSUME PathsInv, TypeOK', NEW p \in Procs, Step(p)
  PROVE  PathsInv'
<1>1. CASE CleanDefinitions(p)
  BY <1>1 DEF CleanDefinitions, PathsInv
<1>2. CASE CleanRows(p)
  <2>1. paths' \subseteq paths /\ ifaces' \subseteq ifaces /\ UNCHANGED <<links, defs>>
    BY <1>2 DEF CleanRows
  <2> QED  BY <2>1, PathsRemain
<1>3. CASE CleanLinks(p) \/ BuildInterfaces(p) \/ BuildPaths(p)
  BY <1>3, CleanLinksPaths, BuildInterfacesPaths, BuildPathsPaths
<1>4. CASE Normalize(p) \/ ReadEvidence(p) \/ SuggestLink(p)
  <2>1. UNCHANGED <<ifaces, defs, paths>>
    BY <1>4 DEF Normalize, ReadEvidence, SuggestLink, Abort, derived
  <2>2. \A l \in links : \E m \in links' : m.pk = l.pk
    BY <1>4, LinksRemain DEF PathsInv
  <2> QED  BY <2>1, <2>2, PathsRemain
<1>5. CASE BuildDefinition(p) \/ UpdateCounts(p)
  <2>1. UNCHANGED <<ifaces, links, paths>>
    BY <1>5 DEF BuildDefinition, UpdateCounts, Abort, derived
  <2>2. \A d \in defs : \E e \in defs' : Pk(e) = Pk(d)
    BY <1>5, DefinitionsRemain DEF PathsInv
  <2> QED  BY <2>1, <2>2, PathsRemain
<1>6. CASE Query(p) \/ BuildEndpoints(p) \/ IsolatedEndpoint(p) \/ UnusedVlan(p) \/ RoutedVlan(p)
  <2>1. UNCHANGED <<ifaces, links, paths, defs>>
    BY <1>6 DEF Query, BuildEndpoints, IsolatedEndpoint, UnusedVlan, RoutedVlan, Abort, derived
  <2> QED  BY <2>1, PathsRemain
<1> QED  BY <1>1, <1>2, <1>3, <1>4, <1>5, <1>6 DEF Step

LEMMA NextPaths == PathsInv /\ [Next]_vars => PathsInv'
<1> SUFFICES ASSUME PathsInv, [Next]_vars PROVE PathsInv'
  OBVIOUS
<1>1. TypeOK'
  BY NextType DEF PathsInv
<1>2. CASE UNCHANGED <<ifaces, defs, paths>> /\ links \subseteq links'
  BY <1>1, <1>2, PathsRemain
<1>3. ASSUME NEW p \in Procs, Step(p) PROVE PathsInv'
  BY <1>1, <1>3, StepPaths
<1>4. ASSUME NEW p \in Procs, StartCorrelation(p) \/ (\E e \in Reports : SubmitEvidence(p, e))
                             \/ Crash(p)
      PROVE PathsInv'
  BY <1>2, <1>4 DEF StartCorrelation, SubmitEvidence, Crash, Abort, derived
<1>5. ASSUME NEW l \in Pairs, EnterLink(l[1], l[2]) PROVE PathsInv'
  BY <1>2, <1>5 DEF EnterLink, Aside, derived
<1>6. ASSUME NEW e \in evidence, DeleteEvidence(e) PROVE PathsInv'
  BY <1>2, <1>6 DEF DeleteEvidence, Aside, derived
<1>7. ASSUME NEW d \in Devices, Reanalyse(d) PROVE PathsInv'
  BY <1>2, <1>7 DEF Reanalyse, Aside, derived
<1>8. CASE UNCHANGED vars
  BY <1>2, <1>8 DEF vars, derived
<1> QED  BY <1>3, <1>4, <1>5, <1>6, <1>7, <1>8 DEF Next

(* However many correlations of a session overlap, fail or are killed, a   *)
(* path belongs to a definition that exists and to a VLAN that both of its *)
(* ports carry, and the link it names joins these ports, although the path *)
(* is built from a copy of the link that others may have turned since.     *)
THEOREM RealPaths == Spec => []PathsAreReal
<1>1. Init => PathsInv
  BY InitType DEF Init, PathsInv
<1>2. PathsInv /\ [Next]_vars => PathsInv'
  BY NextPaths
<1> QED  BY <1>1, <1>2, InvPaths, PTL DEF Spec
=============================================================================
