----------------------------- MODULE VlanSession -----------------------------
(***************************************************************************)
(* One VLAN tracking session (apps/vlan_tracking): run_vlan_correlation    *)
(* deletes what it derived before and derives it again from the parsed     *)
(* configurations of the session's devices, its topology evidence and the  *)
(* links entered by hand.  Nothing is a transaction: every loop reads its  *)
(* rows once and then writes row after row, while other requests           *)
(* correlate the same session, add evidence and links, or re-analyse a     *)
(* snapshot.                                                               *)
(*                                                                         *)
(* One step of a loop (a device, a link, a VLAN, a row of evidence) is one *)
(* action.  A row carries the number of the request that created it, and   *)
(* its primary key says what the request made it from.  Rows without a key *)
(* here that are alike and of one request are one row.                     *)
(***************************************************************************)
EXTENDS Naturals, FiniteSets

CONSTANTS Procs,      \* processes that serve requests
          Devices,    \* primary keys of the session's devices
          Names,      \* interface names, numbered in their string order
          Short,      \* Short[n]: normalize_interface_name of n
          Interfaces, \* Interfaces[d]: the interfaces of d's configuration
          Config,     \* Config[d]: the rows extract_vlan_interfaces finds
          Defined,    \* Defined[d]: the VLANs of its vlan blocks
          Adjacent,   \* the links shared subnets suggest
          Described,  \* the links descriptions name
          Reports,    \* rows of evidence operators may submit
          Pairs,      \* links operators may enter by hand
          MaxRuns     \* bound: requests served

\* A port is <<device, interface name>>.
Ports  == Devices \X Names
NoPort == <<0, 0>>

ASSUME VlanAssumption ==
    /\ Devices \subseteq Nat \ {0} /\ Names \subseteq Nat \ {0}
    /\ Short \in [Names -> Names]
    /\ \A d \in Devices : IsFiniteSet(Config[d]) /\ \A r \in Config[d] :
          r.name \in Interfaces[d] /\ r.vid \in Nat /\ r.mode \in {"trunk", "access", "subinterface"}
    /\ \A d \in Devices : Interfaces[d] \subseteq Names /\ Defined[d] \subseteq Nat \ {0}
    /\ \A l \in Adjacent \cup Described : l.a \in Ports /\ l.b \in Ports /\ l.a[1] # l.b[1]
    /\ \A l \in Adjacent : l.confidence \in {"high", "low"}
    /\ \A l, m \in Adjacent : l.a = m.a /\ l.b = m.b => l = m
    /\ \A e \in Reports : /\ e.kind \in {"lldp", "csv"}
                          /\ e.method \in {"lldp", "csv", "manual"}
                          /\ e.kind = "lldp" => e.method = "lldp"
                          /\ e.a \in Ports /\ e.b \in Ports \cup {NoPort}
                          /\ e.confidence \in {"high", "medium", "low"}
    /\ Pairs \subseteq Ports \X Ports /\ \A l \in Pairs : l[1][1] # l[2][1]
    /\ MaxRuns \in Nat

VARIABLES parsed,     \* parsed[d]: the session still has d's ParsedConfig
          evidence,   \* the TopologyEvidence rows
          links,      \* the DeviceLink rows
          ifaces,     \* the VlanInterface rows
          defs,       \* the VlanDefinition rows
          endpoints,  \* the VlanEndpoint rows
          paths,      \* the VlanPath rows
          issues,     \* the VlanTrackingIssue rows
          served,     \* requests served so far
          pc,         \* pc[p]: the loop p is in
          mem,        \* mem[p]: what p keeps in memory
          settled     \* history: a correlation ended that ran undisturbed

inputs  == <<parsed, evidence>>
derived == <<ifaces, defs, endpoints, paths, issues>>
vars    == <<inputs, links, derived, served, pc, mem, settled>>

\* The loop that follows each one in run_vlan_correlation.
Follow ==
    [clean_defs |-> "clean_ifaces", clean_ifaces |-> "clean_endpoints",
     clean_endpoints |-> "clean_paths", clean_paths |-> "clean_issues",
     clean_issues |-> "clean_links", clean_links |-> "normalize", normalize |-> "lldp",
     lldp |-> "csv", csv |-> "subnet", subnet |-> "description", description |-> "ifaces",
     ifaces |-> "defs", defs |-> "used", used |-> "endpoints", endpoints |-> "paths",
     paths |-> "isolated", isolated |-> "unused", unused |-> "routed", routed |-> "counts",
     counts |-> "idle"]
Cleans == {"clean_defs", "clean_ifaces", "clean_endpoints", "clean_paths", "clean_issues",
           "clean_links"}

\* single: only the loop over its kind of evidence; open: the query of the
\* loop has run, todo holds the rows not visited yet; known: existing_ids;
\* alone (history): nobody else has acted on the session since p started.
Idle == [run |-> 0, single |-> FALSE, open |-> FALSE, todo |-> {}, known |-> {},
         alone |-> FALSE]

Pk(d)      == <<d.run, d.vid>>
NoRow      == <<>>
Live       == {d \in Devices : parsed[d]}
On(q)      == {r.vid : r \in {x \in ifaces : x.port = q}}
Shown(d)   == \E x \in defs : Pk(x) = Pk(d)
DefOf(v)   == IF \E d \in defs : d.vid = v
              THEN Pk(CHOOSE d \in defs : d.vid = v) ELSE NoRow
Shorten(q) == <<q[1], Short[q[2]]>>
Reversed(l) == l.a[1] > l.b[1] \/ (l.a[1] = l.b[1] /\ l.a[2] > l.b[2])
LinksAt(a, b) == {l \in links : l.a = a /\ l.b = b}

Init == /\ parsed \in [Devices -> BOOLEAN]
        /\ evidence = {} /\ links = {} /\ ifaces = {} /\ defs = {}
        /\ endpoints = {} /\ paths = {} /\ issues = {}
        /\ served = 0
        /\ pc = [p \in Procs |-> "idle"]
        /\ mem = [p \in Procs |-> Idle]
        /\ settled = FALSE

-----------------------------------------------------------------------------
(* p goes on to the next loop, or its request ends.                        *)
Advance(p, known) ==
    LET next == IF mem[p].single THEN "idle" ELSE Follow[pc[p]]
    IN  /\ pc' = [pc EXCEPT ![p] = next]
        /\ mem' = [mem EXCEPT ![p] =
                     IF next = "idle" THEN Idle
                     ELSE [@ EXCEPT !.todo = {}, !.open = FALSE,
                                    !.known = IF next = "used" THEN known ELSE {}]]
        /\ settled' = (next = "idle" /\ mem[p].alone /\ ~mem[p].single)

(* p has "todo" left of its loop, or goes on.                              *)
Continue(p, todo, known) ==
    \/ /\ todo # {}
       /\ mem' = [mem EXCEPT ![p].todo = todo, ![p].known = known, ![p].open = TRUE]
       /\ UNCHANGED <<pc, settled>>
    \/ todo = {} /\ Advance(p, known)

(* The row x of the loop is done.                                          *)
Done(p, x) == Continue(p, mem[p].todo \ {x}, mem[p].known)

\* Faulty: the request ends but its memory stays.
AbortDirty(p) == /\ pc' = [pc EXCEPT ![p] = "idle"]
                 /\ UNCHANGED <<inputs, links, derived, served, mem, settled>>

(* An exception (IntegrityError, DatabaseError, DoesNotExist) leaves the   *)
(* view; what has been written stays.                                      *)
Abort(p) == /\ pc' = [pc EXCEPT ![p] = "idle"]
            /\ mem' = [mem EXCEPT ![p] = Idle]
            /\ UNCHANGED <<inputs, links, derived, served, settled>>

(* p visits the row x of the loop.                                         *)
Visit(p, loop, x) == pc[p] = loop /\ mem[p].open /\ x \in mem[p].todo

\* Everyone, for whom something changes under his hands.
Disturbed(m) == [q \in Procs |-> [m[q] EXCEPT !.alone = FALSE]]

Start(p, loop, single) ==
    /\ pc[p] = "idle" /\ served < MaxRuns
    /\ served' = served + 1
    /\ pc' = [pc EXCEPT ![p] = loop]
    /\ mem' = [Disturbed(mem) EXCEPT ![p] =
                 [Idle EXCEPT !.run = served + 1, !.single = single,
                              !.alone = \A q \in Procs : pc[q] = "idle"]]
    /\ settled' = FALSE

(* RunCorrelationView, and the first correlation of SessionCreateView.     *)
StartCorrelation(p) == /\ Start(p, "clean_defs", FALSE)
                       /\ UNCHANGED <<inputs, links, derived>>

(* EvidenceCreateView: the row is saved and the loop over all evidence of  *)
(* its kind runs.                                                          *)
SubmitEvidence(p, e) ==
    /\ Start(p, e.kind, TRUE)
    /\ evidence' = evidence \cup {[run |-> served + 1, kind |-> e.kind, method |-> e.method,
                                   a |-> e.a, b |-> e.b, confidence |-> e.confidence]}
    /\ UNCHANGED <<parsed, links, derived>>

-----------------------------------------------------------------------------
(* _clean_derived_data.  Definitions cascade to endpoints and paths and    *)
(* are set to null in issues; links are set to null in paths.              *)
CleanDefinitions(p) ==
    /\ pc[p] = "clean_defs"
    /\ defs' = {} /\ endpoints' = {} /\ paths' = {}
    /\ issues' = {[i EXCEPT !.def = NoRow] : i \in issues}
    /\ Advance(p, {})
    /\ UNCHANGED <<inputs, links, ifaces, served>>

\* Faulty: the issues of the last correlation stay.
CleanRowsButIssues(p) ==
    /\ pc[p] \in Cleans \ {"clean_defs", "clean_links"}
    /\ ifaces'    = IF pc[p] = "clean_ifaces"    THEN {} ELSE ifaces
    /\ endpoints' = IF pc[p] = "clean_endpoints" THEN {} ELSE endpoints
    /\ paths'     = IF pc[p] = "clean_paths"     THEN {} ELSE paths
    /\ Advance(p, {})
    /\ UNCHANGED <<inputs, links, defs, issues, served>>

CleanRows(p) ==
    /\ pc[p] \in Cleans \ {"clean_defs", "clean_links"}
    /\ ifaces'    = IF pc[p] = "clean_ifaces"    THEN {} ELSE ifaces
    /\ endpoints' = IF pc[p] = "clean_endpoints" THEN {} ELSE endpoints
    /\ paths'     = IF pc[p] = "clean_paths"     THEN {} ELSE paths
    /\ issues'    = IF pc[p] = "clean_issues"    THEN {} ELSE issues
    /\ Advance(p, {})
    /\ UNCHANGED <<inputs, links, defs, served>>

\* Faulty: every link goes.
CleanAllLinks(p) ==
    /\ pc[p] = "clean_links"
    /\ links' = {}
    /\ paths' = {[q EXCEPT !.via = NoRow] : q \in paths}
    /\ Advance(p, {})
    /\ UNCHANGED <<inputs, ifaces, defs, endpoints, issues, served>>

(* "Remove auto-discovered links only; preserve manual links".             *)
CleanLinks(p) ==
    /\ pc[p] = "clean_links"
    /\ links' = {l \in links : l.method = "manual"}
    /\ paths' = {[q EXCEPT !.via = IF \E l \in links' : l.pk = @ THEN @ ELSE NoRow] :
                   q \in paths}
    /\ Advance(p, {})
    /\ UNCHANGED <<inputs, ifaces, defs, endpoints, issues, served>>

-----------------------------------------------------------------------------
(* The query of each loop, over the rows as they are now.                  *)
Found(loop) ==
    CASE loop = "normalize"   -> {l \in links : Reversed(l)}
      [] loop \in {"lldp", "csv"} -> {e \in evidence : e.kind = loop}
      [] loop = "subnet"      -> {l \in Adjacent : {l.a[1], l.b[1]} \subseteq Live}
      [] loop = "description" -> {l \in Described : l.a[1] \in Live}
      [] loop = "ifaces"      -> Live
      [] loop = "defs"        -> UNION {Defined[d] : d \in Live}
      [] loop = "used"        -> {r.vid : r \in ifaces} \ {0}
      [] loop \in {"endpoints", "unused", "counts"} -> defs
      [] loop = "paths"       -> links
      [] loop = "isolated"    -> endpoints
      [] loop = "routed"      -> {r \in ifaces : r.mode = "subinterface"}

Query(p) ==
    /\ pc[p] \notin Cleans \cup {"idle"} /\ ~mem[p].open
    /\ Continue(p, Found(pc[p]), IF pc[p] = "defs" THEN {d.vid : d \in defs}
                                                   ELSE mem[p].known)
    /\ UNCHANGED <<inputs, links, derived, served>>

\* Faulty: the devices change places, the interfaces do not.
NormalizeDevicesOnly(p) ==
    \E l \in mem[p].todo :
        LET turned == [l EXCEPT !.a = <<l.b[1], l.a[2]>>, !.b = <<l.a[1], l.b[2]>>]
            taken  == \E m \in LinksAt(turned.a, turned.b) : m.pk # l.pk
        IN  /\ Visit(p, "normalize", l)
            /\ \/ taken /\ Abort(p)
               \/ /\ ~taken
                  /\ links' = {m \in links : m.pk # l.pk} \cup {turned}
                  /\ Done(p, l)
                  /\ UNCHANGED <<inputs, derived, served>>

(* normalize_device_link: the lower device first.  save() writes the whole *)
(* row as it was read, inserts it again if it has been deleted since, and  *)
(* fails when the link is there in the other direction too.                *)
Normalize(p) ==
    \E l \in mem[p].todo :
        LET turned == [l EXCEPT !.a = l.b, !.b = l.a]
            taken  == \E m \in LinksAt(turned.a, turned.b) : m.pk # l.pk
        IN  /\ Visit(p, "normalize", l)
            /\ \/ taken /\ Abort(p)
               \/ /\ ~taken
                  /\ links' = {m \in links : m.pk # l.pk} \cup {turned}
                  /\ Done(p, l)
                  /\ UNCHANGED <<inputs, derived, served>>

NewLink(p, source, a, b, method, confidence) ==
    [pk |-> <<mem[p].run, pc[p], source, a, b>>, a |-> a, b |-> b, method |-> method,
     confidence |-> confidence]
NewIssue(p, code, d, a, b) ==
    [run |-> mem[p].run, code |-> code, def |-> d, a |-> a, b |-> b]

(* create_or_update_link_from_evidence, for the evidence e between the     *)
(* ports a and b: LLDP gives no confidence (the column's default is        *)
(* medium); who says LLDP, in a CSV row too, confirms a link that a subnet *)
(* suggested.                                                              *)
Upsert(p, e, a, b) ==
    \/ /\ a[1] = b[1]
       /\ UNCHANGED <<links, issues>>
    \/ /\ a[1] # b[1] /\ LinksAt(a, b) = {}
       /\ links' = links \cup
            {NewLink(p, e.run, a, b, "lldp", IF e.kind = "csv" THEN e.confidence ELSE "medium")}
       /\ UNCHANGED issues
    \/ \E l \in LinksAt(a, b) :
         LET raised == e.method = "lldp" /\ l.method = "subnet"
         IN  /\ a[1] # b[1]
             /\ links' = (links \ {l}) \cup
                  {[l EXCEPT !.method = IF raised THEN "lldp" ELSE @,
                             !.confidence = IF raised THEN "high"
                                            ELSE IF e.kind = "csv" THEN e.confidence ELSE @]}
             /\ issues' = IF raised THEN issues \cup {NewIssue(p, "confirmed", NoRow, a, b)}
                                    ELSE issues

(* discover_links_by_lldp and discover_links_by_csv_evidence, newest first. *)
ReadEvidence(p) ==
    \E e \in mem[p].todo :
        /\ pc[p] \in {"lldp", "csv"} /\ mem[p].open
        /\ \A f \in mem[p].todo : f.run <= e.run
        /\ \/ /\ e.b = NoPort
              /\ issues' = issues \cup {NewIssue(p, "unknown_device", NoRow, e.a, NoPort)}
              /\ UNCHANGED links
           \/ /\ e.b # NoPort
              /\ Upsert(p, e, Shorten(e.a), Shorten(e.b))
        /\ Done(p, e)
        /\ UNCHANGED <<inputs, ifaces, defs, endpoints, paths, served>>

(* discover_links_by_subnet and discover_links_by_description:             *)
(* get_or_create.                                                          *)
SuggestLink(p) ==
    \E l \in mem[p].todo :
        /\ pc[p] \in {"subnet", "description"} /\ mem[p].open
        /\ links' = IF LinksAt(l.a, l.b) # {} THEN links
                    ELSE links \cup {NewLink(p, 0, l.a, l.b, pc[p],
                                             IF pc[p] = "subnet" THEN l.confidence
                                                                 ELSE "medium")}
        /\ Done(p, l)
        /\ UNCHANGED <<inputs, derived, served>>

-----------------------------------------------------------------------------
(* build_vlan_interfaces.                                                  *)
BuildInterfaces(p) ==
    \E d \in mem[p].todo :
        /\ Visit(p, "ifaces", d)
        /\ ifaces' = ifaces \cup {[run |-> mem[p].run, port |-> <<d, r.name>>, vid |-> r.vid,
                                   mode |-> r.mode] : r \in Config[d]}
        /\ Done(p, d)
        /\ UNCHANGED <<inputs, links, defs, endpoints, paths, issues, served>>

(* build_vlan_definitions: existing_ids was read before the first loop, so *)
(* another request's definition breaks the unique key.                     *)
BuildDefinition(p) ==
    \E v \in mem[p].todo :
        /\ pc[p] \in {"defs", "used"} /\ mem[p].open
        /\ \/ /\ v \in mem[p].known
              /\ Done(p, v)
              /\ UNCHANGED <<inputs, links, derived, served>>
           \/ /\ v \notin mem[p].known
              /\ \E d \in defs : d.vid = v
              /\ Abort(p)
           \/ /\ \A d \in defs : d.vid # v
              /\ v \notin mem[p].known
              /\ defs' = defs \cup {[run |-> mem[p].run, vid |-> v, interfaces |-> 0,
                                     devices |-> 0]}
              /\ Continue(p, mem[p].todo \ {v}, mem[p].known \cup {v})
              /\ UNCHANGED <<inputs, links, ifaces, endpoints, paths, issues, served>>

(* build_vlan_endpoints: trunks end nowhere.                               *)
BuildEndpoints(p) ==
    \E d \in mem[p].todo :
        LET new == {[run |-> mem[p].run, def |-> Pk(d), port |-> r.port, mode |-> r.mode] :
                      r \in {x \in ifaces : x.vid = d.vid /\ x.mode # "trunk"}}
        IN  /\ Visit(p, "endpoints", d)
            /\ \/ new # {} /\ ~Shown(d) /\ Abort(p)
               \/ /\ new = {} \/ Shown(d)
                  /\ endpoints' = endpoints \cup new
                  /\ Done(p, d)
                  /\ UNCHANGED <<inputs, links, ifaces, defs, paths, issues, served>>

(* build_vlan_paths: a path for each VLAN on both ports of a link, an      *)
(* issue for each that is on one only.                                     *)
BuildPaths(p) ==
    \E l \in mem[p].todo :
        LET common == On(l.a) \cap On(l.b)
            new    == {[run |-> mem[p].run, def |-> Pk(d), a |-> l.a, b |-> l.b, via |-> l.pk] :
                         d \in {x \in defs : x.vid \in common}}
            low    == {NewIssue(p, "low_confidence", q.def, l.a, l.b) :
                         q \in {x \in new : l.confidence = "low"}}
            lost(q, r) == {NewIssue(p, "missing", DefOf(v), q, r) : v \in On(q) \ On(r)}
        IN  /\ Visit(p, "paths", l)
            /\ \/ new # {} /\ (\A m \in links : m.pk # l.pk) /\ Abort(p)
               \/ /\ new = {} \/ \E m \in links : m.pk = l.pk
                  /\ paths' = paths \cup new
                  /\ issues' = issues \cup low \cup lost(l.a, l.b) \cup lost(l.b, l.a)
                  /\ Done(p, l)
                  /\ UNCHANGED <<inputs, links, ifaces, defs, endpoints, served>>

(* build_tracking_issues: endpoints of a VLAN without a path,              *)
IsolatedEndpoint(p) ==
    \E n \in mem[p].todo :
        /\ Visit(p, "isolated", n)
        /\ \/ (\A d \in defs : Pk(d) # n.def) /\ Abort(p)
           \/ /\ \E d \in defs : Pk(d) = n.def
              /\ issues' = IF \E q \in paths : q.def = n.def THEN issues
                           ELSE issues \cup {NewIssue(p, "isolated", n.def, n.port, NoPort)}
              /\ Done(p, n)
              /\ UNCHANGED <<inputs, links, ifaces, defs, endpoints, paths, served>>

(* VLANs without an interface,                                             *)
UnusedVlan(p) ==
    \E d \in mem[p].todo :
        LET unused == \A r \in ifaces : r.vid # d.vid
        IN  /\ Visit(p, "unused", d)
            /\ \/ unused /\ ~Shown(d) /\ Abort(p)
               \/ /\ ~unused \/ Shown(d)
                  /\ issues' = IF unused
                               THEN issues \cup {NewIssue(p, "unused", Pk(d), NoPort, NoPort)}
                               ELSE issues
                  /\ Done(p, d)
                  /\ UNCHANGED <<inputs, links, ifaces, defs, endpoints, paths, served>>

(* and subinterfaces of a VLAN without a path.                             *)
RoutedVlan(p) ==
    \E r \in mem[p].todo :
        /\ Visit(p, "routed", r)
        /\ issues' = issues \cup
             {NewIssue(p, "routed", Pk(d), r.port, NoPort) :
                d \in {x \in defs : x.vid = r.vid /\ \A q \in paths : q.def # Pk(x)}}
        /\ Done(p, r)
        /\ UNCHANGED <<inputs, links, ifaces, defs, endpoints, paths, served>>

(* _update_counts: save(update_fields) of a deleted definition raises.     *)
UpdateCounts(p) ==
    \E d \in mem[p].todo :
        LET rows == {r \in ifaces : r.vid = d.vid}
        IN  /\ Visit(p, "counts", d)
            /\ \/ ~Shown(d) /\ Abort(p)
               \/ /\ Shown(d)
                  /\ defs' = {IF Pk(x) = Pk(d)
                              THEN [x EXCEPT !.interfaces = Cardinality(rows),
                                             !.devices = Cardinality({r.port[1] : r \in rows})]
                              ELSE x : x \in defs}
                  /\ Done(p, d)
                  /\ UNCHANGED <<inputs, links, ifaces, endpoints, paths, issues, served>>

-----------------------------------------------------------------------------
(* The process dies, or its database connection does.                      *)
Crash(p) == pc[p] # "idle" /\ Abort(p)

\* What operators and other parts of the program do beside the requests.
Aside == /\ mem' = Disturbed(mem)
         /\ settled' = FALSE
         /\ UNCHANGED <<derived, pc>>

(* LinkCreateView: confirmed, of high confidence, as the form has it.      *)
EnterLink(a, b) ==
    /\ served < MaxRuns
    /\ LinksAt(a, b) = {}
    /\ served' = served + 1
    /\ links' = links \cup {[pk |-> <<served + 1, "manual", 0, a, b>>, a |-> a, b |-> b,
                             method |-> "manual", confidence |-> "high"]}
    /\ Aside
    /\ UNCHANGED inputs

(* EvidenceDeleteView: the links it led to stay until the next correlation. *)
DeleteEvidence(e) ==
    /\ evidence' = evidence \ {e}
    /\ Aside
    /\ UNCHANGED <<parsed, links, served>>

(* A re-analysis of the device's snapshot deletes the ParsedConfig the     *)
(* session refers to (SET_NULL), and nothing sets it again.                *)
Reanalyse(d) ==
    /\ parsed[d]
    /\ parsed' = [parsed EXCEPT ![d] = FALSE]
    /\ Aside
    /\ UNCHANGED <<evidence, links, served>>

Step(p) == \/ CleanDefinitions(p) \/ CleanRows(p) \/ CleanLinks(p)
           \/ Query(p) \/ Normalize(p) \/ ReadEvidence(p) \/ SuggestLink(p)
           \/ BuildInterfaces(p) \/ BuildDefinition(p) \/ BuildEndpoints(p) \/ BuildPaths(p)
           \/ IsolatedEndpoint(p) \/ UnusedVlan(p) \/ RoutedVlan(p) \/ UpdateCounts(p)

Next == \/ \E p \in Procs : \/ StartCorrelation(p)
                            \/ \E e \in Reports : SubmitEvidence(p, e)
                            \/ Step(p) \/ Crash(p)
        \/ \E l \in Pairs : EnterLink(l[1], l[2])
        \/ \E e \in evidence : DeleteEvidence(e)
        \/ \E d \in Devices : Reanalyse(d)

Spec == Init /\ [][Next]_vars
-----------------------------------------------------------------------------
Loops == DOMAIN Follow
Keys  == Nat \X (Loops \cup {"manual"}) \X Nat \X Ports \X Ports
DefPk == Nat \X Nat

\* A link is manual exactly when its key says so, and it joins the two ports
\* it was created with.
Link == {l \in [pk : Keys, a : Ports, b : Ports,
                method : {"manual", "lldp", "subnet", "description"},
                confidence : {"high", "medium", "low"}] :
           /\ l.method = "manual" <=> l.pk[2] = "manual"
           /\ {l.a, l.b} = {l.pk[4], l.pk[5]}}
Evidence   == [run : Nat, kind : {"lldp", "csv"}, method : {"lldp", "csv", "manual"},
               a : Ports, b : Ports \cup {NoPort}, confidence : {"high", "medium", "low"}]
Interface  == [run : Nat, port : Ports, vid : Nat, mode : {"trunk", "access", "subinterface"}]
Definition == [run : Nat, vid : Nat \ {0}, interfaces : Nat, devices : Nat]
Endpoint   == [run : Nat, def : DefPk, port : Ports, mode : {"access", "subinterface"}]
Path       == [run : Nat, def : DefPk, a : Ports, b : Ports, via : Keys \cup {NoRow}]
Issue      == [run : Nat, def : DefPk \cup {NoRow}, a : Ports \cup {NoPort},
               b : Ports \cup {NoPort},
               code : {"unknown_device", "confirmed", "missing", "low_confidence", "isolated",
                       "unused", "routed"}]

\* What a loop visits.
Visits(loop) ==
    CASE loop \in {"normalize", "paths"}               -> Link
      [] loop \in {"lldp", "csv"}                      -> Evidence
      [] loop = "subnet"                               -> Adjacent
      [] loop = "description"                          -> Described
      [] loop = "ifaces"                               -> Devices
      [] loop \in {"defs", "used"}                     -> Nat \ {0}
      [] loop \in {"endpoints", "unused", "counts"}    -> Definition
      [] loop = "isolated"                             -> Endpoint
      [] loop = "routed"                               -> Interface
      [] OTHER                                         -> {}

MemoryOK(p) ==
    /\ mem[p] \in [run : Nat, single : BOOLEAN, open : BOOLEAN, todo : SUBSET Visits(pc[p]),
                   known : SUBSET Nat, alone : BOOLEAN]
    /\ mem[p].run <= served
    /\ mem[p].open <=> mem[p].todo # {}
    /\ pc[p] = "idle" => mem[p] = Idle

RowsOK ==
    /\ parsed \in [Devices -> BOOLEAN]
    /\ evidence \subseteq Evidence
    /\ links \subseteq Link
    /\ ifaces \subseteq Interface /\ IsFiniteSet(ifaces)
    /\ defs \subseteq Definition
    /\ endpoints \subseteq Endpoint
    /\ paths \subseteq Path
    /\ issues \subseteq Issue
    /\ served \in Nat

ControlOK ==
    /\ pc \in [Procs -> Loops \cup {"idle"}]
    /\ mem = [p \in Procs |-> mem[p]] /\ \A p \in Procs : MemoryOK(p)
    /\ settled \in BOOLEAN

TypeOK == RowsOK /\ ControlOK

(* A link entered by hand survives whatever correlations, evidence and     *)
(* failures do to the session, with its two ports ("preserve manual        *)
(* links"), although normalize_device_link rewrites it from a copy read    *)
(* earlier.                                                                *)
ManualLinksStay ==
    [][\A l \in links : l.method = "manual" =>
          \E m \in links' : m.pk = l.pk /\ m.method = "manual" /\ {m.a, m.b} = {l.a, l.b}]_vars

(* However many correlations overlap, a path belongs to a VLAN both of its *)
(* ports carry and a definition of that VLAN, and the link it says it goes *)
(* through joins just these ports.                                         *)
PathsAreReal ==
    \A q \in paths :
        /\ \E d \in defs : /\ Pk(d) = q.def
                           /\ \A x \in {q.a, q.b} : \E r \in Config[x[1]] :
                                 r.name = x[2] /\ r.vid = d.vid
        /\ q.via # NoRow => \E l \in links : l.pk = q.via /\ {l.a, l.b} = {q.a, q.b}

\* What the inputs of a session say, without any of the loops.
Ends(l)       == <<l.a, l.b>>
Manual        == {l \in links : l.method = "manual"}
Reported      == {<<Shorten(e.a), Shorten(e.b)>> : e \in {x \in evidence : x.b # NoPort}}
Justified     == {x \in Reported : x[1][1] # x[2][1]}
                 \cup {Ends(l) : l \in {x \in Adjacent : {x.a[1], x.b[1]} \subseteq Live}}
                 \cup {Ends(l) : l \in {x \in Described : x.a[1] \in Live}}
Carried       == UNION {{<<<<d, r.name>>, r.vid>> : r \in Config[d]} : d \in Live}
Carry(q)      == {c[2] : c \in {x \in Carried : x[1] = q}}
ConfigRows    == UNION {{<<<<d, r.name>>, r.vid, r.mode>> : r \in Config[d]} : d \in Live}
ExpectedVids  == (UNION {Defined[d] : d \in Live}) \cup ({c[2] : c \in Carried} \ {0})
Common(l)     == Carry(l.a) \cap Carry(l.b) \cap ExpectedVids
Lost(a, b)    == {<<IF v \in ExpectedVids THEN v ELSE 0, a, b>> : v \in Carry(a) \ Carry(b)}
VidOf(k)      == IF k = NoRow THEN 0 ELSE k[2]
At(code)      == {<<VidOf(i.def), i.a, i.b>> : i \in {x \in issues : x.code = code}}
Joined(v)     == \E l \in links : v \in Common(l)

(* A correlation that ends and ran undisturbed leaves exactly what the     *)
(* session's inputs define, once each, whatever overlapping, failed or     *)
(* killed requests left behind before it.                                  *)
SettledSession ==
    settled =>
        /\ {Ends(l) : l \in links \ Manual} = Justified \ {Ends(l) : l \in Manual}
        /\ {<<r.port, r.vid, r.mode>> : r \in ifaces} = ConfigRows
        /\ Cardinality(ifaces) = Cardinality(ConfigRows)
        /\ {d.vid : d \in defs} = ExpectedVids /\ Cardinality(defs) = Cardinality(ExpectedVids)
        /\ \A d \in defs :
              /\ d.interfaces = Cardinality({c \in ConfigRows : c[2] = d.vid})
              /\ d.devices = Cardinality({c[1][1] : c \in {x \in Carried : x[2] = d.vid}})
        /\ {<<VidOf(q.def), q.via>> : q \in paths} =
              UNION {{<<v, l.pk>> : v \in Common(l)} : l \in links}
        /\ At("low_confidence") =
              UNION {{<<v, l.a, l.b>> : v \in Common(l)} : l \in {x \in links : x.confidence = "low"}}
        /\ At("missing") = UNION {Lost(l.a, l.b) \cup Lost(l.b, l.a) : l \in links}
        /\ {<<n.port, VidOf(n.def), n.mode>> : n \in endpoints} =
              {c \in ConfigRows : c[2] # 0 /\ c[3] # "trunk"}
        /\ At("isolated") = {<<c[2], c[1], NoPort>> :
              c \in {x \in ConfigRows : x[2] # 0 /\ x[3] # "trunk" /\ ~Joined(x[2])}}
        /\ At("routed") = {<<c[2], c[1], NoPort>> :
              c \in {x \in ConfigRows : x[2] # 0 /\ x[3] = "subinterface" /\ ~Joined(x[2])}}
        /\ At("unused") = {<<v, NoPort, NoPort>> :
              v \in {x \in ExpectedVids : \A c \in Carried : c[2] # x}}
        /\ At("unknown_device") = {<<0, e.a, NoPort>> : e \in {x \in evidence : x.b = NoPort}}
        /\ \A x, y \in issues \cup endpoints \cup paths : x.run = y.run

(* A link that LLDP reports carries the VLANs its two ports have in common *)
(* ("percorre o grafo de enlaces criando caminhos de VLAN entre            *)
(* dispositivos").                                                         *)
ReportedLinksCarry ==
    settled =>
        \A e \in evidence : e.kind = "lldp" /\ e.b # NoPort /\ e.a[1] # e.b[1] =>
            \A v \in (Carry(e.a) \cap Carry(e.b)) \ {0} :
                \E q \in paths : VidOf(q.def) = v /\ {q.a[1], q.b[1]} = {e.a[1], e.b[1]}
=============================================================================
