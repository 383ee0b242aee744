-------------------------- MODULE VlanSettledProofs --------------------------
(***************************************************************************)
(* Why a correlation that runs undisturbed leaves what the inputs of its   *)
(* session define: what every loop of run_vlan_correlation has made of the *)
(* rows it has visited, for any devices, configurations, evidence and      *)
(* links, and whatever earlier requests left behind.                       *)
(***************************************************************************)
EXTENDS VlanSessionProofs

\* The loops in their order.
Rank == [clean_defs |-> 1, clean_ifaces |-> 2, clean_endpoints |-> 3, clean_paths |-> 4,
         clean_issues |-> 5, clean_links |-> 6, normalize |-> 7, lldp |-> 8, csv |-> 9,
         subnet |-> 10, description |-> 11, ifaces |-> 12, defs |-> 13, used |-> 14,
         endpoints |-> 15, paths |-> 16, isolated |-> 17, unused |-> 18, routed |-> 19,
         counts |-> 20]

\* The loop that is at s with "rest" left to visit is done with the row i of
\* the loop "loop".
Past(loop, i, s, rest) == Rank[s] > Rank[loop] \/ (s = loop /\ i \notin rest)

-----------------------------------------------------------------------------
(* What the inputs say, of the devices "live" and the evidence ev.         *)
Rows(live)      == UNION {{<<<<d, r.name>>, r.vid, r.mode>> : r \in Config[d]} : d \in live}
CarryOf(q, live) == {c[2] : c \in {x \in Rows(live) : x[1] = q}}
Vids(live)      == (UNION {Defined[d] : d \in live}) \cup ({c[2] : c \in Rows(live)} \ {0})
CommonOf(l, live) == CarryOf(l.a, live) \cap CarryOf(l.b, live) \cap Vids(live)
Bridged(v, L, live) == \E l \in L : v \in CommonOf(l, live)
Edges(live)     == {c \in Rows(live) : c[2] # 0 /\ c[3] # "trunk"}
Routes(live)    == {c \in Rows(live) : c[2] # 0 /\ c[3] = "subinterface"}
Idles(live)     == {v \in Vids(live) : \A c \in Rows(live) : c[2] # v}
Known(v, R, live) == IF v \in Vids(live) THEN <<R, v>> ELSE NoRow
Suggested(live) == {l \in Adjacent : {l.a[1], l.b[1]} \subseteq live}
Told(live)      == {l \in Described : l.a[1] \in live}
Foreign(e)      == e.b # NoPort /\ e.a[1] # e.b[1]
Due(ev, live)   == {<<Shorten(e.a), Shorten(e.b)>> : e \in {x \in ev : Foreign(x)}}
                   \cup {Ends(l) : l \in Suggested(live)} \cup {Ends(l) : l \in Told(live)}
Counted(d, live) ==
    /\ d.interfaces = Cardinality({c \in Rows(live) : c[2] = d.vid})
    /\ d.devices = Cardinality({c[1][1] : c \in {x \in Rows(live) : x[2] = d.vid}})

\* What a loop finds among the links L, interfaces I, definitions D and
\* endpoints N.
FoundIn(loop, L, I, D, N, ev, live) ==
    CASE loop = "normalize"   -> {l \in L : Reversed(l)}
      [] loop \in {"lldp", "csv"} -> {e \in ev : e.kind = loop}
      [] loop = "subnet"      -> Suggested(live)
      [] loop = "description" -> Told(live)
      [] loop = "ifaces"      -> live
      [] loop = "defs"        -> UNION {Defined[d] : d \in live}
      [] loop = "used"        -> {r.vid : r \in I} \ {0}
      [] loop \in {"endpoints", "unused", "counts"} -> D
      [] loop = "paths"       -> L
      [] loop = "isolated"    -> N
      [] loop = "routed"      -> {r \in I : r.mode = "subinterface"}
      [] OTHER                -> {}

-----------------------------------------------------------------------------
(* What the request R has made so far of each kind of row, at the loop s   *)
(* with "rest" left.  A loop works on the rows it has found, only the      *)
(* first writes its own and the last writes other columns.                 *)
RestSo(s, rest, L, I, D, N, ev, live) ==
    s \notin {"normalize", "counts"} => rest \subseteq FoundIn(s, L, I, D, N, ev, live)

Linked(x, L) == \E l \in L : Ends(l) = x

AutoSo(L, ev, live) == \A l \in L : l.method # "manual" =>
    Ends(l) \in Due(ev, live) /\ \A m \in L : Ends(m) = Ends(l) => m.method # "manual"

LinksSo(s, rest, L, ev, live) ==
    /\ s = "normalize" => \A l \in L \cup rest : l.method = "manual"
    /\ Rank[s] >= 8 =>
         /\ AutoSo(L, ev, live)
         /\ \A e \in ev : Foreign(e) /\ Past(e.kind, e, s, rest) =>
               Linked(<<Shorten(e.a), Shorten(e.b)>>, L)
         /\ \A l \in Suggested(live) : Past("subnet", l, s, rest) => Linked(Ends(l), L)
         /\ \A l \in Told(live) : Past("description", l, s, rest) => Linked(Ends(l), L)

IfacesSo(s, rest, R, I, live) ==
    /\ Rank[s] >= 3 /\ Rank[s] <= 11 => I = {}
    /\ Rank[s] >= 12 =>
         /\ \A r \in I : r.run = R /\ <<r.port, r.vid, r.mode>> \in Rows(live)
         /\ \A d \in live : Past("ifaces", d, s, rest) => \A c \in Config[d] :
               \E r \in I : r.port = <<d, c.name>> /\ r.vid = c.vid /\ r.mode = c.mode

HasDef(v, D) == \E d \in D : d.vid = v

DefsSo(s, rest, known, R, D, live) ==
    /\ Rank[s] >= 2 /\ Rank[s] <= 12 => D = {}
    /\ Rank[s] >= 13 =>
         /\ \A d \in D : d.run = R /\ d.vid \in Vids(live)
         /\ \A d, e \in D : d.vid = e.vid => d = e
         /\ \A v \in UNION {Defined[d] : d \in live} : Past("defs", v, s, rest) => HasDef(v, D)
         /\ \A c \in Rows(live) : c[2] # 0 /\ Past("used", c[2], s, rest) => HasDef(c[2], D)
    /\ s \in {"defs", "used"} => known = {d.vid : d \in D}
    /\ s = "counts" => \A d \in D : Counted(d, live) \/ \E t \in rest : Pk(t) = Pk(d)

IsEnd(n, c, R) == n.run = R /\ n.def = <<R, c[2]>> /\ n.port = c[1] /\ n.mode = c[3]

EndsSo(s, rest, R, N, live) ==
    /\ Rank[s] >= 2 /\ Rank[s] <= 14 => N = {}
    /\ Rank[s] >= 15 =>
         /\ \A n \in N : \E c \in Edges(live) : IsEnd(n, c, R)
         /\ \A c \in Edges(live) : \/ \E n \in N : IsEnd(n, c, R)
                                   \/ s = "endpoints" /\ \E d \in rest : d.vid = c[2]

IsPath(q, v, l, R) == q.run = R /\ q.def = <<R, v>> /\ q.via = l.pk

PathsSo(s, rest, R, Q, L, live) ==
    /\ Rank[s] >= 2 /\ Rank[s] <= 15 => Q = {}
    /\ Rank[s] >= 16 =>
         /\ \A q \in Q : \E l \in L : \E v \in CommonOf(l, live) : IsPath(q, v, l, R)
         /\ \A l \in L : Past("paths", l, s, rest) =>
               \A v \in CommonOf(l, live) : \E q \in Q : IsPath(q, v, l, R)

\* Why there is an issue.
Reason(i, R, L, ev, live) ==
    /\ i.run = R
    /\ i.code = "unknown_device" => /\ i.def = NoRow /\ i.b = NoPort
                                    /\ \E e \in ev : e.b = NoPort /\ i.a = e.a
    /\ i.code = "low_confidence" =>
         \E l \in L : /\ l.confidence = "low" /\ i.a = l.a /\ i.b = l.b
                      /\ \E v \in CommonOf(l, live) : i.def = <<R, v>>
    /\ i.code = "missing" =>
         /\ \E l \in L : (i.a = l.a /\ i.b = l.b) \/ (i.a = l.b /\ i.b = l.a)
         /\ \E v \in CarryOf(i.a, live) \ CarryOf(i.b, live) : i.def = Known(v, R, live)
    /\ i.code = "isolated" =>
         /\ i.b = NoPort
         /\ \E c \in Edges(live) : /\ ~Bridged(c[2], L, live)
                                   /\ i.def = <<R, c[2]>> /\ i.a = c[1]
    /\ i.code = "unused" => /\ i.a = NoPort /\ i.b = NoPort
                            /\ \E v \in Idles(live) : i.def = <<R, v>>
    /\ i.code = "routed" =>
         /\ i.b = NoPort
         /\ \E c \in Routes(live) : /\ ~Bridged(c[2], L, live)
                                    /\ i.def = <<R, c[2]>> /\ i.a = c[1]

ReasonsSo(s, R, S, L, ev, live) ==
    /\ Rank[s] >= 6 /\ Rank[s] <= 7 => S = {}
    /\ Rank[s] >= 8 => \A i \in S : Reason(i, R, L, ev, live)
    /\ Rank[s] >= 8 /\ Rank[s] <= 15 => \A i \in S : i.code \in {"unknown_device", "confirmed"}

Issued(code, k, a, b, S) == \E i \in S : i.code = code /\ i.def = k /\ i.a = a /\ i.b = b

UnknownSo(s, rest, S, ev) ==
    Rank[s] >= 8 =>
        \A e \in ev : e.b = NoPort /\ Past(e.kind, e, s, rest) =>
            Issued("unknown_device", NoRow, e.a, NoPort, S)

LostSo(s, rest, R, S, L, live) ==
    \A l \in L : Past("paths", l, s, rest) =>
        /\ l.confidence = "low" => \A v \in CommonOf(l, live) :
              Issued("low_confidence", <<R, v>>, l.a, l.b, S)
        /\ \A v \in CarryOf(l.a, live) \ CarryOf(l.b, live) :
              Issued("missing", Known(v, R, live), l.a, l.b, S)
        /\ \A v \in CarryOf(l.b, live) \ CarryOf(l.a, live) :
              Issued("missing", Known(v, R, live), l.b, l.a, S)

AloneSo(s, rest, R, S, L, live) ==
    /\ Rank[s] >= 17 => \A c \in Edges(live) : ~Bridged(c[2], L, live) =>
         \/ Issued("isolated", <<R, c[2]>>, c[1], NoPort, S)
         \/ s = "isolated" /\ \E n \in rest : n.def = <<R, c[2]>> /\ n.port = c[1]
    /\ Rank[s] >= 18 => \A v \in Idles(live) :
         \/ Issued("unused", <<R, v>>, NoPort, NoPort, S)
         \/ s = "unused" /\ \E d \in rest : d.vid = v
    /\ Rank[s] >= 19 => \A c \in Routes(live) : ~Bridged(c[2], L, live) =>
         \/ Issued("routed", <<R, c[2]>>, c[1], NoPort, S)
         \/ s = "routed" /\ \E r \in rest : r.vid = c[2] /\ r.port = c[1]

Phase(s, rest, known, R, L, I, D, N, Q, S, ev, live) ==
    /\ RestSo(s, rest, L, I, D, N, ev, live)
    /\ LinksSo(s, rest, L, ev, live)
    /\ IfacesSo(s, rest, R, I, live)
    /\ DefsSo(s, rest, known, R, D, live)
    /\ EndsSo(s, rest, R, N, live)
    /\ PathsSo(s, rest, R, Q, L, live)
    /\ ReasonsSo(s, R, S, L, ev, live)
    /\ UnknownSo(s, rest, S, ev)
    /\ LostSo(s, rest, R, S, L, live)
    /\ AloneSo(s, rest, R, S, L, live)

\* What a process has left of its loop.
Rest(p) == IF mem[p].open THEN mem[p].todo
           ELSE FoundIn(pc[p], links, ifaces, defs, endpoints, evidence, Live)

\* Nobody else works on the session of an undisturbed correlation, and it
\* has done what its place in the loops says.
Undisturbed(p) ==
    mem[p].alone =>
        /\ \A q \in Procs \ {p} : pc[q] = "idle"
        /\ ~mem[p].single =>
             Phase(pc[p], Rest(p), mem[p].known, mem[p].run, links, ifaces, defs, endpoints,
                   paths, issues, evidence, Live)

\* What the loops have made when the last one is over.
Final(R) == Phase("counts", {}, {}, R, links, ifaces, defs, endpoints, paths, issues, evidence,
                  Live)

SettledInv ==
    /\ TypeOK /\ IsFiniteSet(defs)
    /\ \A p \in Procs : Undisturbed(p)
    /\ settled => (\E R \in 0..served : Final(R)) /\ \A p \in Procs : pc[p] = "idle"


-----------------------------------------------------------------------------
(* The order of the loops.                                                 *)

LEMMA RankOf ==
  \A s \in Loops :
    /\ Rank[s] \in 1..20
    /\ (s = "clean_defs" <=> Rank[s] = 1) /\ (s = "clean_ifaces" <=> Rank[s] = 2)
    /\ (s = "clean_endpoints" <=> Rank[s] = 3) /\ (s = "clean_paths" <=> Rank[s] = 4)
    /\ (s = "clean_issues" <=> Rank[s] = 5) /\ (s = "clean_links" <=> Rank[s] = 6)
    /\ (s = "normalize" <=> Rank[s] = 7) /\ (s = "lldp" <=> Rank[s] = 8)
    /\ (s = "csv" <=> Rank[s] = 9) /\ (s = "subnet" <=> Rank[s] = 10)
    /\ (s = "description" <=> Rank[s] = 11) /\ (s = "ifaces" <=> Rank[s] = 12)
    /\ (s = "defs" <=> Rank[s] = 13) /\ (s = "used" <=> Rank[s] = 14)
    /\ (s = "endpoints" <=> Rank[s] = 15) /\ (s = "paths" <=> Rank[s] = 16)
    /\ (s = "isolated" <=> Rank[s] = 17) /\ (s = "unused" <=> Rank[s] = 18)
    /\ (s = "routed" <=> Rank[s] = 19) /\ (s = "counts" <=> Rank[s] = 20)
  BY DEF Rank, Loops, Follow

LEMMA LoopNames ==
  /\ Cleans \subseteq Loops
  /\ {"normalize", "lldp", "csv", "subnet", "description", "ifaces", "defs", "used", "endpoints",
      "paths", "isolated", "unused", "routed", "counts"} \subseteq Loops
  BY DEF Loops, Follow, Cleans

LEMMA RankFollow ==
  /\ Follow["counts"] = "idle"
  /\ \A s \in Loops : s # "counts" => Follow[s] \in Loops /\ Rank[Follow[s]] = Rank[s] + 1
  BY DEF Rank, Loops, Follow

LEMMA CleanRank == \A s \in Loops : s \in Cleans <=> Rank[s] <= 6
  BY DEF Rank, Loops, Follow, Cleans

LEMMA SameRank == \A s, t \in Loops : Rank[s] = Rank[t] => s = t
  BY DEF Rank, Loops, Follow

(* Which rows a loop that goes on has passed.                              *)
LEMMA PastOther ==
  ASSUME NEW loop, NEW i, NEW s, s # loop, NEW rest, NEW other
  PROVE  Past(loop, i, s, rest) <=> Past(loop, i, s, other)
  BY DEF Past

LEMMA PastRow ==
  ASSUME NEW loop, NEW i, NEW s, NEW rest, NEW x, Past(loop, i, s, rest \ {x})
  PROVE  Past(loop, i, s, rest) \/ (s = loop /\ i = x)
  BY DEF Past

LEMMA PastHandover ==
  ASSUME NEW loop \in Loops, NEW i, NEW s \in Loops, s # "counts", NEW found,
         Follow[s] = loop => i \in found, Past(loop, i, Follow[s], found)
  PROVE  Past(loop, i, s, {})
<1>1. Follow[s] \in Loops /\ Rank[Follow[s]] = Rank[s] + 1
  BY RankFollow
<1>2. Rank[Follow[s]] > Rank[loop]
  BY DEF Past
<1>3. Rank[s] \in Nat /\ Rank[loop] \in Nat
  BY RankOf
<1>4. Rank[s] > Rank[loop] \/ Rank[s] = Rank[loop]
  <2> HIDE DEF Rank
  <2> QED  BY <1>1, <1>2, <1>3
<1>5. CASE Rank[s] > Rank[loop]
  BY <1>5 DEF Past
<1>6. CASE Rank[s] = Rank[loop]
  <2>1. s = loop
    BY <1>6, SameRank
  <2> QED  BY <2>1 DEF Past
<1> QED  BY <1>4, <1>5, <1>6

LEMMA PastRank ==
  ASSUME NEW loop \in Loops, NEW i, NEW s \in Loops, NEW rest
  PROVE  /\ Past(loop, i, s, rest) => Rank[s] >= Rank[loop]
         /\ Rank[s] > Rank[loop] => Past(loop, i, s, rest)
  BY RankOf DEF Past

-----------------------------------------------------------------------------
(* A loop leaves alone what other loops have made, and more issues are no  *)
(* harm to what has been issued.                                           *)

LEMMA LinksFrame ==
  ASSUME NEW s \in Loops, Rank[s] >= 12, NEW rest, NEW other, NEW L, NEW ev \in SUBSET Evidence,
         NEW live, LinksSo(s, rest, L, ev, live)
  PROVE  LinksSo(s, other, L, ev, live)
<1>1. s # "normalize" /\ s # "subnet" /\ s # "description" /\ s # "lldp" /\ s # "csv"
      /\ Rank[s] >= 8
  BY RankOf
<1>2. \A e \in ev : e.kind # s
  BY <1>1 DEF Evidence
<1> QED  BY <1>1, <1>2, PastOther DEF LinksSo

LEMMA IfacesFrame ==
  ASSUME NEW s, s # "ifaces", NEW rest, NEW other, NEW R, NEW I, NEW live,
         IfacesSo(s, rest, R, I, live)
  PROVE  IfacesSo(s, other, R, I, live)
  BY PastOther DEF IfacesSo

LEMMA DefsFrame ==
  ASSUME NEW s, s \notin {"defs", "used", "counts"}, NEW rest, NEW other, NEW known, NEW kept,
         NEW R, NEW D, NEW live, DefsSo(s, rest, known, R, D, live)
  PROVE  DefsSo(s, other, kept, R, D, live)
  BY PastOther DEF DefsSo

LEMMA EndsFrame ==
  ASSUME NEW s, s # "endpoints", NEW rest, NEW other, NEW R, NEW N, NEW live,
         EndsSo(s, rest, R, N, live)
  PROVE  EndsSo(s, other, R, N, live)
  BY DEF EndsSo

LEMMA PathsFrame ==
  ASSUME NEW s, s # "paths", NEW rest, NEW other, NEW R, NEW Q, NEW L, NEW live,
         PathsSo(s, rest, R, Q, L, live)
  PROVE  PathsSo(s, other, R, Q, L, live)
  BY PastOther DEF PathsSo

LEMMA PathsEarly ==
  ASSUME NEW s \in Loops, Rank[s] <= 15, NEW rest, NEW other, NEW R, NEW Q, NEW L, NEW M, NEW live,
         PathsSo(s, rest, R, Q, L, live)
  PROVE  PathsSo(s, other, R, Q, M, live)
<1>1. ~(Rank[s] >= 16)
  BY RankOf
<1> QED  BY <1>1 DEF PathsSo

LEMMA IssuedMore ==
  ASSUME NEW code, NEW k, NEW a, NEW b, NEW S, NEW T, S \subseteq T, Issued(code, k, a, b, S)
  PROVE  Issued(code, k, a, b, T)
  BY DEF Issued

LEMMA UnknownFrame ==
  ASSUME NEW s, s \notin {"lldp", "csv"}, NEW rest, NEW other, NEW S, NEW T, S \subseteq T,
         NEW ev \in SUBSET Evidence, UnknownSo(s, rest, S, ev)
  PROVE  UnknownSo(s, other, T, ev)
<1>1. \A e \in ev : e.kind # s
  BY DEF Evidence
<1> QED  BY <1>1, PastOther, IssuedMore DEF UnknownSo

LEMMA LostFrame ==
  ASSUME NEW s, s # "paths", NEW rest, NEW other, NEW R, NEW S, NEW T, S \subseteq T, NEW L, NEW live,
         LostSo(s, rest, R, S, L, live)
  PROVE  LostSo(s, other, R, T, L, live)
  BY PastOther, IssuedMore DEF LostSo

LEMMA LostEarly ==
  ASSUME NEW s \in Loops, Rank[s] <= 15, NEW rest, NEW R, NEW S, NEW L, NEW live
  PROVE  LostSo(s, rest, R, S, L, live)
<1>1. \A l : ~Past("paths", l, s, rest)
  BY RankOf, LoopNames DEF Past
<1> QED  BY <1>1 DEF LostSo

LEMMA AloneFrame ==
  ASSUME NEW s, s \notin {"isolated", "unused", "routed"}, NEW rest, NEW other, NEW R,
         NEW S, NEW T, S \subseteq T, NEW L, NEW live, AloneSo(s, rest, R, S, L, live)
  PROVE  AloneSo(s, other, R, T, L, live)
  BY IssuedMore DEF AloneSo

LEMMA AloneEarly ==
  ASSUME NEW s \in Loops, Rank[s] <= 16, NEW rest, NEW R, NEW S, NEW L, NEW live
  PROVE  AloneSo(s, rest, R, S, L, live)
<1>1. ~(Rank[s] >= 17) /\ ~(Rank[s] >= 18) /\ ~(Rank[s] >= 19)
  BY RankOf
<1> QED  BY <1>1 DEF AloneSo

\* Issues of evidence do not depend on the links.
LEMMA ReasonsEarly ==
  ASSUME NEW s \in Loops, Rank[s] <= 15, NEW R, NEW S, NEW L, NEW M, NEW ev, NEW live,
         ReasonsSo(s, R, S, L, ev, live)
  PROVE  ReasonsSo(s, R, S, M, ev, live)
<1>1. \A i \in S : Reason(i, R, L, ev, live) /\ i.code \in {"unknown_device", "confirmed"}
                   => Reason(i, R, M, ev, live)
  BY DEF Reason
<1> QED  BY <1>1 DEF ReasonsSo

-----------------------------------------------------------------------------
(* What the loops have made when they are over.                            *)

LEMMA RowsElement ==
  ASSUME NEW live
  PROVE  /\ \A d \in live : \A r \in Config[d] : <<<<d, r.name>>, r.vid, r.mode>> \in Rows(live)
         /\ \A c \in Rows(live) : \E d \in live : \E r \in Config[d] :
               c = <<<<d, r.name>>, r.vid, r.mode>>
  BY DEF Rows

LEMMA RowsKnown ==
  ASSUME NEW s \in Loops, Rank[s] >= 13, NEW rest, NEW R, NEW I, NEW live,
         IfacesSo(s, rest, R, I, live)
  PROVE  /\ \A r \in I : r.run = R /\ <<r.port, r.vid, r.mode>> \in Rows(live)
         /\ \A c \in Rows(live) : \E r \in I : r.port = c[1] /\ r.vid = c[2] /\ r.mode = c[3]
<1>1. Rank[s] >= 12 /\ \A d : Past("ifaces", d, s, rest)
  BY RankOf, LoopNames, PastRank
<1>2. \A r \in I : r.run = R /\ <<r.port, r.vid, r.mode>> \in Rows(live)
  BY <1>1 DEF IfacesSo
<1>3. ASSUME NEW c \in Rows(live) PROVE \E r \in I : r.port = c[1] /\ r.vid = c[2] /\ r.mode = c[3]
  <2>1. PICK d \in live : \E x \in Config[d] : c = <<<<d, x.name>>, x.vid, x.mode>>
    BY RowsElement
  <2>3. PICK x \in Config[d] : c = <<<<d, x.name>>, x.vid, x.mode>>
    BY <2>1
  <2>2. PICK r \in I : r.port = <<d, x.name>> /\ r.vid = x.vid /\ r.mode = x.mode
    BY <1>1 DEF IfacesSo
  <2> QED  BY <2>1, <2>2, <2>3
<1> QED  BY <1>2, <1>3

LEMMA VidsKnown ==
  ASSUME NEW s \in Loops, Rank[s] >= 15, NEW rest, NEW known, NEW R, NEW D, NEW live,
         DefsSo(s, rest, known, R, D, live)
  PROVE  /\ \A d \in D : d.run = R /\ d.vid \in Vids(live)
         /\ \A d, e \in D : d.vid = e.vid => d = e
         /\ \A v \in Vids(live) : HasDef(v, D)
<1>1. Rank[s] >= 13 /\ \A v : Past("defs", v, s, rest) /\ Past("used", v, s, rest)
  BY RankOf, LoopNames, PastRank
<1>2. ASSUME NEW v \in Vids(live) PROVE HasDef(v, D)
  <2>1. CASE v \in UNION {Defined[d] : d \in live}
    BY <1>1, <2>1 DEF DefsSo
  <2>2. CASE v \in {c[2] : c \in Rows(live)} \ {0}
    BY <1>1, <2>2 DEF DefsSo
  <2> QED  BY <2>1, <2>2 DEF Vids
<1> QED  BY <1>1, <1>2 DEF DefsSo

LEMMA PathsKnown ==
  ASSUME NEW s \in Loops, Rank[s] >= 17, NEW rest, NEW R, NEW Q, NEW L, NEW live,
         PathsSo(s, rest, R, Q, L, live)
  PROVE  \A v : (\E q \in Q : q.def = <<R, v>>) <=> Bridged(v, L, live)
<1>1. Rank[s] >= 16 /\ \A l : Past("paths", l, s, rest)
  BY RankOf, LoopNames, PastRank
<1>2. ASSUME NEW v, NEW q \in Q, q.def = <<R, v>> PROVE Bridged(v, L, live)
  <2>1. PICK l \in L : \E w \in CommonOf(l, live) : IsPath(q, w, l, R)
    BY <1>1 DEF PathsSo
  <2>2. v \in CommonOf(l, live)
    BY <1>2, <2>1 DEF IsPath
  <2> QED  BY <2>2 DEF Bridged
<1>3. ASSUME NEW v, Bridged(v, L, live) PROVE \E q \in Q : q.def = <<R, v>>
  <2>1. PICK l \in L : v \in CommonOf(l, live)
    BY <1>3 DEF Bridged
  <2>2. PICK q \in Q : IsPath(q, v, l, R)
    BY <1>1, <2>1 DEF PathsSo
  <2> QED  BY <2>2 DEF IsPath
<1> QED  BY <1>2, <1>3

LEMMA FoundIs ==
  ASSUME NEW L, NEW I, NEW D, NEW N, NEW ev, NEW live
  PROVE  /\ \A s \in {"lldp", "csv"} : FoundIn(s, L, I, D, N, ev, live) = {e \in ev : e.kind = s}
         /\ FoundIn("normalize", L, I, D, N, ev, live) = {l \in L : Reversed(l)}
         /\ FoundIn("subnet", L, I, D, N, ev, live) = Suggested(live)
         /\ FoundIn("description", L, I, D, N, ev, live) = Told(live)
         /\ FoundIn("ifaces", L, I, D, N, ev, live) = live
         /\ FoundIn("defs", L, I, D, N, ev, live) = UNION {Defined[d] : d \in live}
         /\ FoundIn("used", L, I, D, N, ev, live) = {r.vid : r \in I} \ {0}
         /\ \A s \in {"endpoints", "unused", "counts"} : FoundIn(s, L, I, D, N, ev, live) = D
         /\ FoundIn("paths", L, I, D, N, ev, live) = L
         /\ FoundIn("isolated", L, I, D, N, ev, live) = N
         /\ FoundIn("routed", L, I, D, N, ev, live) = {r \in I : r.mode = "subinterface"}
         /\ \A s \in Cleans : FoundIn(s, L, I, D, N, ev, live) = {}
<1>1. ASSUME NEW s \in {"lldp", "csv"} PROVE FoundIn(s, L, I, D, N, ev, live) = {e \in ev : e.kind = s}
  BY DEF FoundIn
<1>2. ASSUME NEW s \in {"endpoints", "unused", "counts"} PROVE FoundIn(s, L, I, D, N, ev, live) = D
  BY DEF FoundIn
<1>3. ASSUME NEW s \in Cleans PROVE FoundIn(s, L, I, D, N, ev, live) = {}
  BY DEF FoundIn, Cleans
<1> QED  BY <1>1, <1>2, <1>3 DEF FoundIn


-----------------------------------------------------------------------------
(* What a loop has made is what the next one begins with.                  *)

LEMMA RestHandover ==
  ASSUME NEW s, NEW L, NEW I, NEW D, NEW N, NEW ev, NEW live
  PROVE  RestSo(s, FoundIn(s, L, I, D, N, ev, live), L, I, D, N, ev, live)
  BY DEF RestSo

LEMMA EvidencePast ==
  ASSUME NEW s \in Loops, s # "counts", NEW L, NEW I, NEW D, NEW N, NEW ev \in SUBSET Evidence,
         NEW live, NEW e \in ev,
         Past(e.kind, e, Follow[s], FoundIn(Follow[s], L, I, D, N, ev, live))
  PROVE  Past(e.kind, e, s, {})
<1>1. e.kind \in {"lldp", "csv"} /\ e.kind \in Loops
  BY LoopNames DEF Evidence
<1>2. Follow[s] = e.kind => e \in FoundIn(Follow[s], L, I, D, N, ev, live)
  BY <1>1, FoundIs
<1> QED  BY <1>1, <1>2, PastHandover

LEMMA LinksHandover ==
  ASSUME NEW s \in Loops \ Cleans, s # "counts", NEW L, NEW I, NEW D, NEW N,
         NEW ev \in SUBSET Evidence, NEW live, LinksSo(s, {}, L, ev, live)
  PROVE  LinksSo(Follow[s], FoundIn(Follow[s], L, I, D, N, ev, live), L, ev, live)
<1> DEFINE f == Follow[s]
           found == FoundIn(Follow[s], L, I, D, N, ev, live)
<1>1. f \in Loops /\ Rank[f] = Rank[s] + 1 /\ Rank[s] \in 1..20 /\ ~(Rank[s] <= 6)
  BY RankFollow, RankOf, CleanRank
<1>2. f # "normalize"
  BY <1>1, RankOf
<1>3. \A e \in ev : Past(e.kind, e, f, found) => Past(e.kind, e, s, {})
  BY EvidencePast
<1>4. \A l \in Suggested(live) : Past("subnet", l, f, found) => Past("subnet", l, s, {})
  BY FoundIs, LoopNames, PastHandover
<1>5. \A l \in Told(live) : Past("description", l, f, found) => Past("description", l, s, {})
  BY FoundIs, LoopNames, PastHandover
<1> HIDE DEF f, found
<1>6. CASE s = "normalize"
  <2>1. \A l \in L : l.method = "manual"
    BY <1>6 DEF LinksSo
  <2>2. \A loop \in {"lldp", "csv", "subnet", "description"} :
           loop \in Loops /\ ~(Rank[s] >= Rank[loop])
    BY <1>6, LoopNames, RankOf
  <2>3. \A loop \in {"lldp", "csv", "subnet", "description"} : \A i : ~Past(loop, i, s, {})
    BY <2>2, PastRank
  <2>4. \A e \in ev : e.kind \in {"lldp", "csv"}
    BY DEF Evidence
  <2>5. AutoSo(L, ev, live)
    BY <2>1 DEF AutoSo
  <2> QED  BY <1>2, <1>3, <1>4, <1>5, <2>3, <2>4, <2>5 DEF LinksSo, f, found
<1>7. CASE s # "normalize"
  <2>1. Rank[s] >= 8
    BY <1>1, <1>7, RankOf
  <2> QED  BY <1>2, <1>3, <1>4, <1>5, <2>1 DEF LinksSo, f, found
<1> QED  BY <1>6, <1>7

LEMMA IfacesHandover ==
  ASSUME NEW s \in Loops \ Cleans, s # "counts", NEW R, NEW L, NEW I, NEW D, NEW N, NEW ev,
         NEW live, IfacesSo(s, {}, R, I, live)
  PROVE  IfacesSo(Follow[s], FoundIn(Follow[s], L, I, D, N, ev, live), R, I, live)
<1> DEFINE f == Follow[s]
           found == FoundIn(Follow[s], L, I, D, N, ev, live)
<1>1. f \in Loops /\ Rank[f] = Rank[s] + 1 /\ Rank[s] \in 1..20 /\ ~(Rank[s] <= 6)
  BY RankFollow, RankOf, CleanRank
<1>2. \A d \in live : Past("ifaces", d, f, found) => Past("ifaces", d, s, {})
  BY FoundIs, LoopNames, PastHandover
<1> HIDE DEF f, found
<1>3. CASE Rank[s] <= 10
  <2>1. Rank[s] >= 3 /\ Rank[s] <= 11 /\ Rank[f] <= 11 /\ Rank[f] >= 3 /\ ~(Rank[f] >= 12)
    BY <1>1, <1>3
  <2> QED  BY <2>1 DEF IfacesSo, f, found
<1>4. CASE Rank[s] = 11
  <2>1. Rank[s] >= 3 /\ Rank[s] <= 11 /\ Rank[f] = 12 /\ ~(Rank[f] <= 11)
    BY <1>1, <1>4
  <2>2. "ifaces" \in Loops /\ ~(Rank[s] >= Rank["ifaces"])
    BY <1>4, RankOf, LoopNames
  <2>3. \A d : ~Past("ifaces", d, s, {})
    BY <2>2, PastRank
  <2> QED  BY <1>2, <2>1, <2>3 DEF IfacesSo, f, found
<1>5. CASE Rank[s] >= 12
  <2>1. ~(Rank[f] <= 11)
    BY <1>1, <1>5
  <2> QED  BY <1>2, <1>5, <2>1 DEF IfacesSo, f, found
<1>6. Rank[s] <= 10 \/ Rank[s] = 11 \/ Rank[s] >= 12
  BY <1>1
<1> QED  BY <1>3, <1>4, <1>5, <1>6

LEMMA DefsHandover ==
  ASSUME NEW s \in Loops \ Cleans, s # "counts", NEW known, NEW R, NEW L, NEW I, NEW D, NEW N,
         NEW ev, NEW live, IfacesSo(s, {}, R, I, live), DefsSo(s, {}, known, R, D, live)
  PROVE  DefsSo(Follow[s], FoundIn(Follow[s], L, I, D, N, ev, live),
                IF Follow[s] = "used" THEN known ELSE {}, R, D, live)
<1> DEFINE f == Follow[s]
           found == FoundIn(Follow[s], L, I, D, N, ev, live)
           kept == IF Follow[s] = "used" THEN known ELSE {}
<1>1. f \in Loops /\ Rank[f] = Rank[s] + 1 /\ Rank[s] \in 1..20 /\ ~(Rank[s] <= 6)
  BY RankFollow, RankOf, CleanRank
<1>2. \A v \in UNION {Defined[d] : d \in live} : Past("defs", v, f, found) => Past("defs", v, s, {})
  BY FoundIs, LoopNames, PastHandover
<1>3. \A c \in Rows(live) : c[2] # 0 /\ Past("used", c[2], f, found) => Past("used", c[2], s, {})
  <2> SUFFICES ASSUME NEW c \in Rows(live), c[2] # 0, Past("used", c[2], f, found)
               PROVE  Past("used", c[2], s, {})
    OBVIOUS
  <2>1. f = "used" => c[2] \in found
    <3> SUFFICES ASSUME f = "used" PROVE c[2] \in found
      OBVIOUS
    <3>1. Rank[s] >= 13
      BY <1>1, RankOf
    <3>2. PICK row \in I : row.vid = c[2]
      BY <3>1, RowsKnown
    <3>3. found = {r.vid : r \in I} \ {0}
      BY FoundIs
    <3> QED  BY <3>2, <3>3
  <2> QED  BY <2>1, LoopNames, PastHandover
<1>4. f = "counts" => found = D
  BY FoundIs
<1>5. f = "used" => kept = known
  OBVIOUS
<1>6. f # "used" => kept = {}
  OBVIOUS
<1>7. /\ f = "used" <=> s = "defs"
      /\ f = "defs" <=> s = "ifaces"
  BY <1>1, RankOf
<1> HIDE DEF f, found, kept
<1>8. CASE Rank[s] <= 11
  <2>1. Rank[s] >= 2 /\ Rank[s] <= 12 /\ Rank[f] <= 12 /\ ~(Rank[f] >= 13)
    BY <1>1, <1>8
  <2>2. f \notin {"defs", "used", "counts"}
    BY <1>1, <2>1, RankOf
  <2> QED  BY <2>1, <2>2 DEF DefsSo, f, found, kept
<1>9. CASE Rank[s] = 12
  <2>1. D = {}
    BY <1>9 DEF DefsSo
  <2>2. f = "defs" /\ Rank[f] = 13 /\ ~(Rank[f] <= 12)
    BY <1>1, <1>9, RankOf
  <2>3. "used" \in Loops /\ "defs" \in Loops /\ ~(Rank[s] >= Rank["used"]) /\ ~(Rank[s] >= Rank["defs"])
    BY <1>9, RankOf, LoopNames
  <2>4. \A v : ~Past("used", v, s, {}) /\ ~Past("defs", v, s, {})
    BY <2>3, PastRank
  <2> QED  BY <1>2, <1>3, <1>6, <2>1, <2>2, <2>4 DEF DefsSo, f, found, kept
<1>10. CASE Rank[s] >= 13
  <2>1. ~(Rank[f] <= 12) /\ f # "defs"
    BY <1>1, <1>7, <1>10, RankOf
  <2>2. f = "used" => kept = {d.vid : d \in D}
    BY <1>5, <1>7 DEF DefsSo
  <2>3. f = "counts" => \A d \in D : \E t \in found : Pk(t) = Pk(d)
    BY <1>4
  <2> QED  BY <1>2, <1>3, <1>10, <2>1, <2>2, <2>3 DEF DefsSo, f, found, kept
<1>11. Rank[s] <= 11 \/ Rank[s] = 12 \/ Rank[s] >= 13
  BY <1>1
<1> QED  BY <1>8, <1>9, <1>10, <1>11

LEMMA EndsHandover ==
  ASSUME NEW s \in Loops \ Cleans, s # "counts", NEW known, NEW R, NEW L, NEW I, NEW D, NEW N,
         NEW ev, NEW live, DefsSo(Follow[s], FoundIn(Follow[s], L, I, D, N, ev, live), known, R, D, live),
         EndsSo(s, {}, R, N, live)
  PROVE  EndsSo(Follow[s], FoundIn(Follow[s], L, I, D, N, ev, live), R, N, live)
<1> DEFINE f == Follow[s]
           found == FoundIn(Follow[s], L, I, D, N, ev, live)
<1>1. f \in Loops /\ Rank[f] = Rank[s] + 1 /\ Rank[s] \in 1..20 /\ ~(Rank[s] <= 6)
  BY RankFollow, RankOf, CleanRank
<1>2. f = "endpoints" => found = D
  BY FoundIs
<1>3. f = "endpoints" => \A v \in Vids(live) : HasDef(v, D)
  <2>1. f = "endpoints" => Rank[f] >= 15
    BY <1>1, RankOf
  <2> QED  BY <1>1, <2>1, VidsKnown
<1>4. \A c \in Edges(live) : c[2] \in Vids(live)
  BY DEF Edges, Vids
<1> HIDE DEF f, found
<1>5. CASE Rank[s] <= 13
  <2>1. Rank[s] <= 14 /\ Rank[s] >= 2 /\ Rank[f] <= 14 /\ ~(Rank[f] >= 15)
    BY <1>1, <1>5
  <2> QED  BY <2>1 DEF EndsSo, f, found
<1>6. CASE Rank[s] = 14
  <2>1. N = {}
    BY <1>6 DEF EndsSo
  <2>2. f = "endpoints" /\ ~(Rank[f] <= 14)
    BY <1>1, <1>6, RankOf
  <2>3. \A c \in Edges(live) : \E d \in found : d.vid = c[2]
    BY <1>2, <1>3, <1>4, <2>2 DEF HasDef
  <2> QED  BY <2>1, <2>2, <2>3 DEF EndsSo, f, found
<1>7. CASE Rank[s] >= 15
  <2>1. ~(Rank[f] <= 14)
    BY <1>1, <1>7
  <2> QED  BY <1>7, <2>1 DEF EndsSo, f, found
<1>8. Rank[s] <= 13 \/ Rank[s] = 14 \/ Rank[s] >= 15
  BY <1>1
<1> QED  BY <1>5, <1>6, <1>7, <1>8

LEMMA PathsHandover ==
  ASSUME NEW s \in Loops \ Cleans, s # "counts", NEW R, NEW Q, NEW L, NEW I, NEW D, NEW N,
         NEW ev, NEW live, PathsSo(s, {}, R, Q, L, live)
  PROVE  PathsSo(Follow[s], FoundIn(Follow[s], L, I, D, N, ev, live), R, Q, L, live)
<1> DEFINE f == Follow[s]
           found == FoundIn(Follow[s], L, I, D, N, ev, live)
<1>1. f \in Loops /\ Rank[f] = Rank[s] + 1 /\ Rank[s] \in 1..20 /\ ~(Rank[s] <= 6)
  BY RankFollow, RankOf, CleanRank
<1>2. \A l \in L : Past("paths", l, f, found) => Past("paths", l, s, {})
  BY FoundIs, LoopNames, PastHandover
<1> HIDE DEF f, found
<1>3. CASE Rank[s] <= 14
  <2>1. Rank[s] >= 2 /\ Rank[s] <= 15 /\ Rank[f] <= 15 /\ ~(Rank[f] >= 16)
    BY <1>1, <1>3
  <2> QED  BY <2>1 DEF PathsSo, f, found
<1>4. CASE Rank[s] = 15
  <2>1. Q = {} /\ Rank[f] = 16 /\ ~(Rank[f] <= 15)
    BY <1>1, <1>4 DEF PathsSo
  <2>2. "paths" \in Loops /\ ~(Rank[s] >= Rank["paths"])
    BY <1>4, RankOf, LoopNames
  <2>3. \A l : ~Past("paths", l, s, {})
    BY <2>2, PastRank
  <2> QED  BY <1>2, <2>1, <2>3 DEF PathsSo, f, found
<1>5. CASE Rank[s] >= 16
  <2>1. ~(Rank[f] <= 15)
    BY <1>1, <1>5
  <2> QED  BY <1>2, <1>5, <2>1 DEF PathsSo, f, found
<1>6. Rank[s] <= 14 \/ Rank[s] = 15 \/ Rank[s] >= 16
  BY <1>1
<1> QED  BY <1>3, <1>4, <1>5, <1>6

LEMMA IssuesHandover ==
  ASSUME NEW s \in Loops \ Cleans, s # "counts", NEW R, NEW S, NEW L, NEW I, NEW D, NEW N,
         NEW ev \in SUBSET Evidence, NEW live, ReasonsSo(s, R, S, L, ev, live),
         UnknownSo(s, {}, S, ev), LostSo(s, {}, R, S, L, live)
  PROVE  /\ ReasonsSo(Follow[s], R, S, L, ev, live)
         /\ UnknownSo(Follow[s], FoundIn(Follow[s], L, I, D, N, ev, live), S, ev)
         /\ LostSo(Follow[s], FoundIn(Follow[s], L, I, D, N, ev, live), R, S, L, live)
<1> DEFINE f == Follow[s]
           found == FoundIn(Follow[s], L, I, D, N, ev, live)
<1>1. f \in Loops /\ Rank[f] = Rank[s] + 1 /\ Rank[s] \in 1..20 /\ ~(Rank[s] <= 6)
  BY RankFollow, RankOf, CleanRank
<1>2. \A l \in L : Past("paths", l, f, found) => Past("paths", l, s, {})
  BY FoundIs, LoopNames, PastHandover
<1>3. \A e \in ev : Past(e.kind, e, f, found) => Past(e.kind, e, s, {})
  BY EvidencePast
<1> HIDE DEF f, found
<1>4. LostSo(f, found, R, S, L, live)
  BY <1>2 DEF LostSo
<1>5. CASE Rank[s] = 7
  <2>1. S = {} /\ Rank[f] = 8 /\ ~(Rank[f] <= 7)
    BY <1>1, <1>5 DEF ReasonsSo
  <2>2. \A loop \in {"lldp", "csv"} : loop \in Loops /\ ~(Rank[s] >= Rank[loop])
    BY <1>5, LoopNames, RankOf
  <2>3. \A e \in ev : ~Past(e.kind, e, s, {})
    BY <2>2, PastRank DEF Evidence
  <2>4. UnknownSo(f, found, S, ev)
    BY <1>3, <2>3 DEF UnknownSo
  <2>5. ReasonsSo(f, R, S, L, ev, live)
    BY <2>1 DEF ReasonsSo
  <2> QED  BY <1>4, <2>4, <2>5 DEF f, found
<1>6. CASE Rank[s] >= 8
  <2>1. ~(Rank[f] <= 7) /\ (Rank[f] <= 15 => Rank[s] <= 15)
    BY <1>1, <1>6
  <2>2. ReasonsSo(f, R, S, L, ev, live)
    BY <1>6, <2>1 DEF ReasonsSo
  <2>3. UnknownSo(f, found, S, ev)
    BY <1>3, <1>6 DEF UnknownSo
  <2> QED  BY <1>4, <2>2, <2>3 DEF f, found
<1> QED  BY <1>1, <1>5, <1>6

LEMMA AloneHandover ==
  ASSUME NEW s \in Loops \ Cleans, s # "counts", NEW known, NEW R, NEW S, NEW L, NEW I, NEW D, NEW N,
         NEW ev, NEW live, IfacesSo(s, {}, R, I, live), DefsSo(s, {}, known, R, D, live),
         EndsSo(s, {}, R, N, live), AloneSo(s, {}, R, S, L, live)
  PROVE  AloneSo(Follow[s], FoundIn(Follow[s], L, I, D, N, ev, live), R, S, L, live)
<1> DEFINE f == Follow[s]
           found == FoundIn(Follow[s], L, I, D, N, ev, live)
<1>1. f \in Loops /\ Rank[f] = Rank[s] + 1 /\ Rank[s] \in 1..20 /\ ~(Rank[s] <= 6)
  BY RankFollow, RankOf, CleanRank
<1>2. /\ f = "isolated" => found = N
      /\ f = "unused" => found = D
      /\ f = "routed" => found = {r \in I : r.mode = "subinterface"}
  BY FoundIs
<1> HIDE DEF f, found
<1>3. CASE Rank[s] <= 15
  <2>1. Rank[f] <= 16
    BY <1>1, <1>3
  <2> QED  BY <1>1, <2>1, AloneEarly DEF f, found
<1>4. CASE Rank[s] = 16
  <2>1. f = "isolated" /\ s = "paths" /\ ~(Rank[f] >= 18) /\ ~(Rank[f] >= 19) /\ Rank[s] >= 15
    BY <1>1, <1>4, RankOf
  <2>2. \A c \in Edges(live) : \E n \in N : IsEnd(n, c, R)
    BY <2>1 DEF EndsSo
  <2>3. \A c \in Edges(live) : \E n \in found : n.def = <<R, c[2]>> /\ n.port = c[1]
    BY <1>2, <2>1, <2>2 DEF IsEnd
  <2> QED  BY <2>1, <2>3 DEF AloneSo, f, found
<1>5. CASE Rank[s] = 17
  <2>1. f = "unused" /\ s = "isolated" /\ ~(Rank[f] >= 19) /\ Rank[s] >= 15 /\ Rank[s] >= 17
    BY <1>1, <1>5, RankOf
  <2>2. \A v \in Vids(live) : HasDef(v, D)
    BY <2>1, VidsKnown
  <2>3. \A v \in Idles(live) : \E d \in found : d.vid = v
    BY <1>2, <2>1, <2>2 DEF HasDef, Idles
  <2> QED  BY <2>1, <2>3 DEF AloneSo, f, found
<1>6. CASE Rank[s] = 18
  <2>1. f = "routed" /\ s = "unused" /\ Rank[s] >= 13 /\ Rank[s] >= 17 /\ Rank[s] >= 18
    BY <1>1, <1>6, RankOf
  <2>2. \A c \in Rows(live) : \E r \in I : r.port = c[1] /\ r.vid = c[2] /\ r.mode = c[3]
    BY <2>1, RowsKnown
  <2>3. \A c \in Routes(live) : \E r \in found : r.vid = c[2] /\ r.port = c[1]
    BY <1>2, <2>1, <2>2 DEF Routes
  <2> QED  BY <2>1, <2>3 DEF AloneSo, f, found
<1>7. CASE Rank[s] = 19
  <2>1. s = "routed" /\ Rank[s] >= 17 /\ Rank[s] >= 18 /\ Rank[s] >= 19
    BY <1>1, <1>7, RankOf
  <2> QED  BY <2>1 DEF AloneSo, f, found
<1>8. Rank[s] # 20
  BY RankOf
<1>9. Rank[s] <= 15 \/ Rank[s] = 16 \/ Rank[s] = 17 \/ Rank[s] = 18 \/ Rank[s] = 19
  BY <1>1, <1>8
<1> QED  BY <1>3, <1>4, <1>5, <1>6, <1>7, <1>9

LEMMA PhaseHandover ==
  ASSUME NEW s \in Loops \ Cleans, s # "counts", NEW known, NEW R, NEW L, NEW I, NEW D, NEW N,
         NEW Q, NEW S, NEW ev \in SUBSET Evidence, NEW live,
         Phase(s, {}, known, R, L, I, D, N, Q, S, ev, live)
  PROVE  Phase(Follow[s], FoundIn(Follow[s], L, I, D, N, ev, live),
               IF Follow[s] = "used" THEN known ELSE {}, R, L, I, D, N, Q, S, ev, live)
<1> DEFINE f == Follow[s]
           found == FoundIn(Follow[s], L, I, D, N, ev, live)
           kept == IF Follow[s] = "used" THEN known ELSE {}
<1>1. /\ LinksSo(s, {}, L, ev, live) /\ IfacesSo(s, {}, R, I, live)
      /\ DefsSo(s, {}, known, R, D, live) /\ EndsSo(s, {}, R, N, live)
      /\ PathsSo(s, {}, R, Q, L, live) /\ ReasonsSo(s, R, S, L, ev, live)
      /\ UnknownSo(s, {}, S, ev) /\ LostSo(s, {}, R, S, L, live) /\ AloneSo(s, {}, R, S, L, live)
  BY DEF Phase
<1>2. RestSo(f, found, L, I, D, N, ev, live)
  BY RestHandover
<1>3. LinksSo(f, found, L, ev, live) /\ IfacesSo(f, found, R, I, live)
  BY <1>1, LinksHandover, IfacesHandover
<1>4. DefsSo(f, found, kept, R, D, live)
  BY <1>1, DefsHandover
<1>5. EndsSo(f, found, R, N, live)
  <2> HIDE DEF kept
  <2> QED  BY <1>1, <1>4, EndsHandover
<1>6. PathsSo(f, found, R, Q, L, live)
  BY <1>1, PathsHandover
<1>7. /\ ReasonsSo(f, R, S, L, ev, live) /\ UnknownSo(f, found, S, ev)
      /\ LostSo(f, found, R, S, L, live)
  BY <1>1, IssuesHandover
<1>8. AloneSo(f, found, R, S, L, live)
  BY <1>1, AloneHandover
<1> HIDE DEF f, found, kept
<1>9. Phase(f, found, kept, R, L, I, D, N, Q, S, ev, live)
  BY <1>2, <1>3, <1>4, <1>5, <1>6, <1>7, <1>8 DEF Phase
<1> QED  BY <1>9 DEF f, found, kept

-----------------------------------------------------------------------------
(* The deletions before the loops.                                         *)

LEMMA CleanPhase ==
  ASSUME NEW s \in Loops, Rank[s] >= 2, Rank[s] <= 7, NEW R, NEW L, NEW I, NEW D, NEW N, NEW Q,
         NEW S, NEW ev, NEW live, D = {}, N = {}, Q = {}, Rank[s] >= 3 => I = {},
         Rank[s] >= 6 => S = {}, s = "normalize" => \A l \in L : l.method = "manual"
  PROVE  Phase(s, FoundIn(s, L, I, D, N, ev, live), {}, R, L, I, D, N, Q, S, ev, live)
<1> DEFINE found == FoundIn(s, L, I, D, N, ev, live)
<1>1. /\ Rank[s] <= 11 /\ Rank[s] <= 12 /\ Rank[s] <= 14 /\ Rank[s] <= 15 /\ Rank[s] <= 16
      /\ ~(Rank[s] >= 8) /\ ~(Rank[s] >= 12) /\ ~(Rank[s] >= 13) /\ ~(Rank[s] >= 15) /\ ~(Rank[s] >= 16)
      /\ s \notin {"defs", "used", "counts", "lldp", "csv", "subnet", "description"}
  BY RankOf
<1>2. RestSo(s, found, L, I, D, N, ev, live)
  BY RestHandover
<1>3. s = "normalize" => \A l \in L \cup found : l.method = "manual"
  BY FoundIs
<1> HIDE DEF found
<1>4. LinksSo(s, found, L, ev, live)
  BY <1>1, <1>3 DEF LinksSo
<1>5. IfacesSo(s, found, R, I, live)
  BY <1>1 DEF IfacesSo
<1>6. DefsSo(s, found, {}, R, D, live)
  BY <1>1 DEF DefsSo
<1>7. EndsSo(s, found, R, N, live) /\ PathsSo(s, found, R, Q, L, live)
  BY <1>1 DEF EndsSo, PathsSo
<1>8. ReasonsSo(s, R, S, L, ev, live) /\ UnknownSo(s, found, S, ev)
  BY <1>1 DEF ReasonsSo, UnknownSo
<1>9. LostSo(s, found, R, S, L, live) /\ AloneSo(s, found, R, S, L, live)
  BY <1>1, LostEarly, AloneEarly
<1> QED
  BY <1>2, <1>4, <1>5, <1>6, <1>7, <1>8, <1>9 DEF Phase, found

\* Nothing but rows of earlier requests is there yet.
LEMMA CleanSays ==
  ASSUME NEW s \in Cleans, NEW rest, NEW known, NEW R, NEW L, NEW I, NEW D, NEW N, NEW Q, NEW S,
         NEW ev, NEW live, Phase(s, rest, known, R, L, I, D, N, Q, S, ev, live)
  PROVE  /\ Rank[s] >= 2 => D = {} /\ N = {} /\ Q = {}
         /\ Rank[s] >= 3 => I = {}
         /\ Rank[s] >= 6 => S = {}
<1>1. s \in Loops /\ Rank[s] <= 6 /\ Rank[s] \in 1..20
  BY LoopNames, CleanRank, RankOf
<1>2. Rank[s] <= 12 /\ Rank[s] <= 14 /\ Rank[s] <= 15 /\ Rank[s] <= 11 /\ Rank[s] <= 7
  BY <1>1
<1> QED  BY <1>2 DEF Phase, IfacesSo, DefsSo, EndsSo, PathsSo, ReasonsSo

LEMMA CleanDefinitionsPhase ==
  ASSUME NEW p \in Procs, CleanDefinitions(p), NEW R
  PROVE  Phase(Follow[pc[p]],
               FoundIn(Follow[pc[p]], links', ifaces', defs', endpoints', evidence', Live'),
               {}, R, links', ifaces', defs', endpoints', paths', issues', evidence', Live')
<1>1. pc[p] = "clean_defs" /\ defs' = {} /\ endpoints' = {} /\ paths' = {}
  BY DEF CleanDefinitions
<1>2. Follow[pc[p]] \in Loops /\ Rank[Follow[pc[p]]] = 2 /\ Follow[pc[p]] # "normalize"
  BY <1>1 DEF Follow, Rank, Loops
<1>3. Rank[Follow[pc[p]]] >= 2 /\ Rank[Follow[pc[p]]] <= 7
      /\ ~(Rank[Follow[pc[p]]] >= 3) /\ ~(Rank[Follow[pc[p]]] >= 6)
  BY <1>2
<1> QED  BY <1>1, <1>2, <1>3, CleanPhase

LEMMA CleanRowsPhase ==
  ASSUME NEW p \in Procs, CleanRows(p), NEW rest, NEW known, NEW R,
         Phase(pc[p], rest, known, R, links, ifaces, defs, endpoints, paths, issues, evidence, Live)
  PROVE  Phase(Follow[pc[p]],
               FoundIn(Follow[pc[p]], links', ifaces', defs', endpoints', evidence', Live'),
               {}, R, links', ifaces', defs', endpoints', paths', issues', evidence', Live')
<1> DEFINE f == Follow[pc[p]]
<1>1. /\ pc[p] \in Cleans \ {"clean_defs", "clean_links"} /\ UNCHANGED <<links, defs>>
      /\ ifaces' = IF pc[p] = "clean_ifaces" THEN {} ELSE ifaces
      /\ endpoints' = IF pc[p] = "clean_endpoints" THEN {} ELSE endpoints
      /\ paths' = IF pc[p] = "clean_paths" THEN {} ELSE paths
      /\ issues' = IF pc[p] = "clean_issues" THEN {} ELSE issues
  BY DEF CleanRows
<1>2. f \in Loops /\ Rank[f] = Rank[pc[p]] + 1 /\ f # "normalize" /\ pc[p] \in Loops
      /\ Rank[pc[p]] \in 2..5 /\ (Rank[pc[p]] = 2 => pc[p] = "clean_ifaces")
      /\ (Rank[pc[p]] = 5 => pc[p] = "clean_issues")
  BY <1>1 DEF Follow, Rank, Loops, Cleans
<1>3. /\ defs = {} /\ endpoints = {} /\ paths = {}
      /\ Rank[pc[p]] >= 3 => ifaces = {}
  BY <1>1, <1>2, CleanSays
<1>4. defs' = {} /\ endpoints' = {} /\ paths' = {} /\ ifaces' = {}
  BY <1>1, <1>2, <1>3
<1>5. Rank[f] >= 2 /\ Rank[f] <= 7 /\ (Rank[f] >= 6 => issues' = {})
  BY <1>1, <1>2
<1> HIDE DEF f
<1>6. Phase(f, FoundIn(f, links', ifaces', defs', endpoints', evidence', Live'),
            {}, R, links', ifaces', defs', endpoints', paths', issues', evidence', Live')
  BY <1>2, <1>4, <1>5, CleanPhase
<1> QED  BY <1>6 DEF f

LEMMA CleanLinksPhase ==
  ASSUME NEW p \in Procs, CleanLinks(p), NEW rest, NEW known, NEW R,
         Phase(pc[p], rest, known, R, links, ifaces, defs, endpoints, paths, issues, evidence, Live)
  PROVE  Phase(Follow[pc[p]],
               FoundIn(Follow[pc[p]], links', ifaces', defs', endpoints', evidence', Live'),
               {}, R, links', ifaces', defs', endpoints', paths', issues', evidence', Live')
<1> DEFINE f == Follow[pc[p]]
<1>1. /\ pc[p] = "clean_links" /\ UNCHANGED <<ifaces, defs, endpoints, issues>>
      /\ links' = {l \in links : l.method = "manual"}
      /\ paths = {} => paths' = {}
  BY DEF CleanLinks
<1>2. f \in Loops /\ Rank[f] = 7 /\ pc[p] \in Cleans /\ Rank[pc[p]] = 6
  BY <1>1 DEF Follow, Rank, Loops, Cleans
<1>3. defs = {} /\ endpoints = {} /\ paths = {} /\ ifaces = {} /\ issues = {}
  BY <1>2, CleanSays
<1>4. defs' = {} /\ endpoints' = {} /\ paths' = {} /\ ifaces' = {} /\ issues' = {}
  BY <1>1, <1>3
<1>5. \A l \in links' : l.method = "manual"
  BY <1>1
<1>6. Rank[f] >= 2 /\ Rank[f] <= 7
  BY <1>2
<1> HIDE DEF f
<1>7. Phase(f, FoundIn(f, links', ifaces', defs', endpoints', evidence', Live'),
            {}, R, links', ifaces', defs', endpoints', paths', issues', evidence', Live')
  BY <1>2, <1>4, <1>5, <1>6, CleanPhase
<1> QED  BY <1>7 DEF f

-----------------------------------------------------------------------------
(* The loops over links and evidence.                                      *)

LEMMA AutoSame ==
  ASSUME NEW L, NEW M, NEW ev, NEW live, AutoSo(L, ev, live),
         \A m \in M : \E l \in L : Ends(l) = Ends(m) /\ (l.method = "manual" <=> m.method = "manual")
  PROVE  AutoSo(M, ev, live)
<1> SUFFICES ASSUME NEW m \in M, m.method # "manual"
             PROVE  /\ Ends(m) \in Due(ev, live)
                    /\ \A n \in M : Ends(n) = Ends(m) => n.method # "manual"
  BY DEF AutoSo
<1>1. PICK l \in L : Ends(l) = Ends(m) /\ (l.method = "manual" <=> m.method = "manual")
  OBVIOUS
<1>2. Ends(l) \in Due(ev, live) /\ \A n \in L : Ends(n) = Ends(l) => n.method # "manual"
  BY <1>1 DEF AutoSo
<1> QED  BY <1>1, <1>2

LEMMA AutoNew ==
  ASSUME NEW L, NEW n, NEW ev, NEW live, AutoSo(L, ev, live), n.method # "manual",
         Ends(n) \in Due(ev, live), \A l \in L : Ends(l) # Ends(n)
  PROVE  AutoSo(L \cup {n}, ev, live)
  BY DEF AutoSo

LEMMA LinksRow ==
  ASSUME NEW s \in Loops, Rank[s] >= 8, NEW rest, NEW x, NEW L, NEW M, NEW ev \in SUBSET Evidence,
         NEW live, LinksSo(s, rest, L, ev, live), AutoSo(M, ev, live),
         \A l \in L : Linked(Ends(l), M),
         s \in {"lldp", "csv"} /\ Foreign(x) => Linked(<<Shorten(x.a), Shorten(x.b)>>, M),
         s \in {"subnet", "description"} => Linked(Ends(x), M)
  PROVE  LinksSo(s, rest \ {x}, M, ev, live)
<1>1. s # "normalize"
  BY RankOf
<1>2. \A y : Linked(y, L) => Linked(y, M)
  BY DEF Linked
<1>3. \A e \in ev : Foreign(e) /\ Past(e.kind, e, s, rest \ {x}) =>
        Linked(<<Shorten(e.a), Shorten(e.b)>>, M)
  <2> SUFFICES ASSUME NEW e \in ev, Foreign(e), Past(e.kind, e, s, rest \ {x})
               PROVE  Linked(<<Shorten(e.a), Shorten(e.b)>>, M)
    OBVIOUS
  <2>1. CASE Past(e.kind, e, s, rest)
    BY <1>2, <2>1 DEF LinksSo
  <2>2. CASE s = e.kind /\ e = x
    BY <2>2 DEF Evidence
  <2> QED  BY <2>1, <2>2, PastRow
<1>4. \A l \in Suggested(live) : Past("subnet", l, s, rest \ {x}) => Linked(Ends(l), M)
  <2> SUFFICES ASSUME NEW l \in Suggested(live), Past("subnet", l, s, rest \ {x})
               PROVE  Linked(Ends(l), M)
    OBVIOUS
  <2> QED  BY <1>2, PastRow DEF LinksSo
<1>5. \A l \in Told(live) : Past("description", l, s, rest \ {x}) => Linked(Ends(l), M)
  <2> SUFFICES ASSUME NEW l \in Told(live), Past("description", l, s, rest \ {x})
               PROVE  Linked(Ends(l), M)
    OBVIOUS
  <2> QED  BY <1>2, PastRow DEF LinksSo
<1> QED  BY <1>1, <1>3, <1>4, <1>5 DEF LinksSo

\* No other row is there yet, so only links and issues of evidence matter.
LEMMA EarlyPhase ==
  ASSUME NEW s \in Loops, Rank[s] >= 7, Rank[s] <= 11, NEW rest, NEW other, other \subseteq rest,
         NEW known, NEW R, NEW L, NEW M, NEW I, NEW D, NEW N, NEW Q, NEW S, NEW T, NEW ev, NEW live,
         Phase(s, rest, known, R, L, I, D, N, Q, S, ev, live), LinksSo(s, other, M, ev, live),
         ReasonsSo(s, R, T, M, ev, live), UnknownSo(s, other, T, ev)
  PROVE  Phase(s, other, known, R, M, I, D, N, Q, T, ev, live)
<1>1. /\ Rank[s] <= 15 /\ Rank[s] <= 16
      /\ s \in {"normalize", "lldp", "csv", "subnet", "description"}
  BY RankOf
<1>2. s # "ifaces" /\ s \notin {"defs", "used", "counts"} /\ s # "endpoints"
  BY <1>1
<1>3. RestSo(s, other, M, I, D, N, ev, live)
  <2> SUFFICES ASSUME s # "normalize"
               PROVE  other \subseteq FoundIn(s, M, I, D, N, ev, live)
    BY DEF RestSo
  <2>1. rest \subseteq FoundIn(s, L, I, D, N, ev, live)
    BY <1>1 DEF Phase, RestSo
  <2>2. FoundIn(s, L, I, D, N, ev, live) = FoundIn(s, M, I, D, N, ev, live)
    <3>1. CASE s \in {"lldp", "csv"}
      <4>1. FoundIn(s, L, I, D, N, ev, live) = {e \in ev : e.kind = s}
        BY <3>1, FoundIs
      <4>2. FoundIn(s, M, I, D, N, ev, live) = {e \in ev : e.kind = s}
        BY <3>1, FoundIs
      <4> QED  BY <4>1, <4>2
    <3>2. CASE s = "subnet"
      BY <3>2, FoundIs
    <3>3. CASE s = "description"
      BY <3>3, FoundIs
    <3> QED  BY <1>1, <3>1, <3>2, <3>3
  <2> QED  BY <2>1, <2>2
<1>4. IfacesSo(s, other, R, I, live)
  BY <1>2, IfacesFrame DEF Phase
<1>5. DefsSo(s, other, known, R, D, live)
  BY <1>2, DefsFrame DEF Phase
<1>6. EndsSo(s, other, R, N, live)
  BY <1>2, EndsFrame DEF Phase
<1>7. PathsSo(s, other, R, Q, M, live)
  BY <1>1, PathsEarly DEF Phase
<1>8. LostSo(s, other, R, T, M, live) /\ AloneSo(s, other, R, T, M, live)
  BY <1>1, LostEarly, AloneEarly
<1> QED  BY <1>3, <1>4, <1>5, <1>6, <1>7, <1>8 DEF Phase

LEMMA SuggestRow ==
  ASSUME NEW s \in {"subnet", "description"}, NEW rest, NEW x \in rest, NEW known, NEW R, NEW L,
         NEW M, NEW I, NEW D, NEW N, NEW Q, NEW S, NEW ev \in SUBSET Evidence, NEW live,
         Phase(s, rest, known, R, L, I, D, N, Q, S, ev, live),
         \/ M = L /\ \E l \in L : Ends(l) = Ends(x)
         \/ /\ \A l \in L : Ends(l) # Ends(x)
            /\ \E n : M = L \cup {n} /\ n.method # "manual" /\ Ends(n) = Ends(x)
  PROVE  Phase(s, rest \ {x}, known, R, M, I, D, N, Q, S, ev, live)
<1>1. /\ s \in Loops /\ Rank[s] >= 8 /\ Rank[s] >= 7 /\ Rank[s] <= 11 /\ Rank[s] <= 15
      /\ s \notin {"lldp", "csv"}
  BY LoopNames, RankOf
<1>2. x \in Suggested(live) \cup Told(live)
  <2>1. x \in FoundIn(s, L, I, D, N, ev, live)
    BY DEF Phase, RestSo
  <2> QED  BY <2>1, FoundIs
<1>3. Ends(x) \in Due(ev, live)
  BY <1>2 DEF Due
<1>4. AutoSo(L, ev, live) /\ LinksSo(s, rest, L, ev, live)
  BY <1>1 DEF Phase, LinksSo
<1>5. AutoSo(M, ev, live) /\ Linked(Ends(x), M) /\ \A l \in L : Linked(Ends(l), M)
  <2>1. CASE M = L /\ \E l \in L : Ends(l) = Ends(x)
    BY <1>4, <2>1 DEF Linked
  <2>2. CASE /\ \A l \in L : Ends(l) # Ends(x)
             /\ \E n : M = L \cup {n} /\ n.method # "manual" /\ Ends(n) = Ends(x)
    <3>1. PICK n : M = L \cup {n} /\ n.method # "manual" /\ Ends(n) = Ends(x)
      BY <2>2
    <3>2. AutoSo(M, ev, live)
      BY <1>3, <1>4, <2>2, <3>1, AutoNew
    <3> QED  BY <3>1, <3>2 DEF Linked
  <2> QED  BY <2>1, <2>2
<1>6. LinksSo(s, rest \ {x}, M, ev, live)
  BY <1>1, <1>4, <1>5, LinksRow
<1>7. ReasonsSo(s, R, S, M, ev, live) /\ UnknownSo(s, rest \ {x}, S, ev)
  BY <1>1, ReasonsEarly, UnknownFrame DEF Phase
<1> QED  BY <1>1, <1>6, <1>7, EarlyPhase

LEMMA EvidenceRow ==
  ASSUME NEW s \in {"lldp", "csv"}, NEW rest, NEW x \in rest, NEW known, NEW R, NEW L,
         NEW M, NEW I, NEW D, NEW N, NEW Q, NEW S, NEW T, S \subseteq T,
         NEW ev \in SUBSET Evidence, NEW live,
         Phase(s, rest, known, R, L, I, D, N, Q, S, ev, live), AutoSo(M, ev, live),
         \A l \in L : Linked(Ends(l), M),
         Foreign(x) => Linked(<<Shorten(x.a), Shorten(x.b)>>, M),
         x.b = NoPort => Issued("unknown_device", NoRow, x.a, NoPort, T),
         \A i \in T \ S : /\ i.run = R
                          /\ \/ i.code = "confirmed"
                             \/ /\ i.code = "unknown_device" /\ i.def = NoRow /\ i.b = NoPort
                                /\ x.b = NoPort /\ i.a = x.a
  PROVE  Phase(s, rest \ {x}, known, R, M, I, D, N, Q, T, ev, live)
<1>1. /\ s \in Loops /\ Rank[s] >= 8 /\ Rank[s] >= 7 /\ Rank[s] <= 11 /\ Rank[s] <= 15
      /\ s \notin {"subnet", "description"} /\ ~(Rank[s] <= 7)
  BY LoopNames, RankOf
<1>2. x \in ev
  <2>1. x \in FoundIn(s, L, I, D, N, ev, live)
    BY DEF Phase, RestSo
  <2> QED  BY <2>1, FoundIs
<1>3. LinksSo(s, rest, L, ev, live)
  BY DEF Phase
<1>4. LinksSo(s, rest \ {x}, M, ev, live)
  BY <1>1, <1>3, LinksRow
<1>5. ReasonsSo(s, R, T, M, ev, live)
  <2>1. ReasonsSo(s, R, S, M, ev, live)
    BY <1>1, ReasonsEarly DEF Phase
  <2>2. \A i \in T \ S : Reason(i, R, M, ev, live) /\ i.code \in {"unknown_device", "confirmed"}
    BY <1>2 DEF Reason
  <2> QED  BY <1>1, <2>1, <2>2 DEF ReasonsSo
<1>6. UnknownSo(s, rest \ {x}, T, ev)
  <2> SUFFICES ASSUME NEW e \in ev, e.b = NoPort, Past(e.kind, e, s, rest \ {x})
               PROVE  Issued("unknown_device", NoRow, e.a, NoPort, T)
    BY DEF UnknownSo
  <2>1. CASE Past(e.kind, e, s, rest)
    <3>1. Issued("unknown_device", NoRow, e.a, NoPort, S)
      BY <1>1, <2>1 DEF Phase, UnknownSo
    <3> QED  BY <3>1, IssuedMore
  <2>2. CASE e = x
    BY <2>2
  <2> QED  BY <2>1, <2>2, PastRow
<1> QED  BY <1>1, <1>4, <1>5, <1>6, EarlyPhase

\* The same links, some of another method or confidence.
LEMMA SameEnds ==
  ASSUME NEW L, NEW o \in L, NEW t, Ends(t) = Ends(o), t.method = "manual" <=> o.method = "manual",
         NEW ev, NEW live, AutoSo(L, ev, live)
  PROVE  /\ AutoSo((L \ {o}) \cup {t}, ev, live)
         /\ \A l \in L : Linked(Ends(l), (L \ {o}) \cup {t})
<1> DEFINE M == (L \ {o}) \cup {t}
<1>1. \A m \in M : \E l \in L : Ends(l) = Ends(m) /\ (l.method = "manual" <=> m.method = "manual")
  OBVIOUS
<1>2. \A l \in L : \E m \in M : Ends(m) = Ends(l)
  OBVIOUS
<1> HIDE DEF M
<1>3. AutoSo(M, ev, live)
  BY <1>1, AutoSame
<1> QED  BY <1>2, <1>3 DEF Linked, M

\* What a row of evidence between two ports does to the links and issues.
LEMMA UpsertDoes ==
  ASSUME TypeOK, NEW p \in Procs, NEW e, NEW a, NEW b, Upsert(p, e, a, b), NEW ev, NEW live,
         AutoSo(links, ev, live), a[1] # b[1] => <<a, b>> \in Due(ev, live)
  PROVE  /\ AutoSo(links', ev, live)
         /\ \A l \in links : Linked(Ends(l), links')
         /\ a[1] # b[1] => Linked(<<a, b>>, links')
         /\ issues \subseteq issues'
         /\ \A i \in issues' \ issues : i.run = mem[p].run /\ i.code = "confirmed"
<1>1. CASE a[1] = b[1] /\ UNCHANGED <<links, issues>>
  BY <1>1 DEF Linked
<1>2. CASE /\ a[1] # b[1] /\ LinksAt(a, b) = {} /\ UNCHANGED issues
           /\ links' = links \cup
              {NewLink(p, e.run, a, b, "lldp", IF e.kind = "csv" THEN e.confidence ELSE "medium")}
  <2> DEFINE n == NewLink(p, e.run, a, b, "lldp", IF e.kind = "csv" THEN e.confidence ELSE "medium")
  <2>1. Ends(n) = <<a, b>> /\ n.method # "manual"
    BY DEF NewLink, Ends
  <2>2. links' = links \cup {n}
    BY <1>2
  <2> HIDE DEF n
  <2>3. \A l \in links : Ends(l) # Ends(n)
    BY <1>2, <2>1 DEF LinksAt, Ends
  <2>4. AutoSo(links', ev, live)
    BY <1>2, <2>1, <2>2, <2>3, AutoNew
  <2> QED  BY <1>2, <2>1, <2>2, <2>4 DEF Linked
<1>3. ASSUME NEW o \in LinksAt(a, b), NEW raised, raised = (e.method = "lldp" /\ o.method = "subnet"),
             a[1] # b[1],
             links' = (links \ {o}) \cup
                  {[o EXCEPT !.method = IF raised THEN "lldp" ELSE @,
                             !.confidence = IF raised THEN "high"
                                            ELSE IF e.kind = "csv" THEN e.confidence ELSE @]},
             issues' = IF raised THEN issues \cup {NewIssue(p, "confirmed", NoRow, a, b)}
                                 ELSE issues
      PROVE  /\ AutoSo(links', ev, live)
             /\ \A l \in links : Linked(Ends(l), links')
             /\ Linked(<<a, b>>, links')
             /\ issues \subseteq issues'
             /\ \A i \in issues' \ issues : i.run = mem[p].run /\ i.code = "confirmed"
  <2> DEFINE confidence == IF raised THEN "high"
                           ELSE IF e.kind = "csv" THEN e.confidence ELSE o.confidence
             method == IF raised THEN "lldp" ELSE o.method
             new == [o EXCEPT !.method = method, !.confidence = confidence]
  <2>1. o \in Link /\ o \in links /\ links' = (links \ {o}) \cup {new}
    BY <1>3 DEF LinksAt, TypeOK, RowsOK, Link
  <2>2. new.a = o.a /\ new.b = o.b /\ new.method = method
    BY <2>1 DEF Link
  <2>3. method = "manual" <=> o.method = "manual"
    BY <1>3
  <2>4. Ends(o) = <<a, b>>
    BY DEF LinksAt, Ends
  <2>5. issues \subseteq issues' /\ \A i \in issues' \ issues : i.run = mem[p].run /\ i.code = "confirmed"
    BY <1>3 DEF NewIssue
  <2> HIDE DEF new, method
  <2>6. Ends(new) = Ends(o) /\ (new.method = "manual" <=> o.method = "manual")
    BY <2>2, <2>3 DEF Ends
  <2>7. AutoSo(links', ev, live) /\ \A l \in links : Linked(Ends(l), links')
    BY <2>1, <2>6, SameEnds
  <2> QED  BY <2>1, <2>4, <2>5, <2>7
<1> QED  BY <1>1, <1>2, <1>3 DEF Upsert

-----------------------------------------------------------------------------
(* The loops over devices, VLANs and definitions.                          *)

LEMMA IfacesRow ==
  ASSUME NEW rest, NEW x \in rest, NEW known, NEW R, NEW L, NEW I, NEW new, NEW D, NEW N, NEW Q,
         NEW S, NEW ev \in SUBSET Evidence, NEW live,
         Phase("ifaces", rest, known, R, L, I, D, N, Q, S, ev, live),
         \A r \in new : r.run = R /\ <<r.port, r.vid, r.mode>> \in Rows(live),
         \A c \in Config[x] : \E r \in new : r.port = <<x, c.name>> /\ r.vid = c.vid /\ r.mode = c.mode
  PROVE  Phase("ifaces", rest \ {x}, known, R, L, I \cup new, D, N, Q, S, ev, live)
<1> DEFINE s == "ifaces"
           J == I \cup new
<1>1. /\ s \in Loops /\ Rank[s] >= 12 /\ Rank[s] <= 15 /\ Rank[s] <= 16 /\ ~(Rank[s] <= 11)
      /\ s \notin {"defs", "used", "counts", "lldp", "csv"} /\ s # "endpoints"
  BY LoopNames, RankOf
<1>2. RestSo(s, rest \ {x}, L, J, D, N, ev, live)
  <2>1. rest \subseteq FoundIn(s, L, I, D, N, ev, live)
    BY DEF Phase, RestSo
  <2>2. FoundIn(s, L, I, D, N, ev, live) = live
    BY FoundIs
  <2>3. FoundIn(s, L, J, D, N, ev, live) = live
    BY FoundIs
  <2> QED  BY <2>1, <2>2, <2>3 DEF RestSo
<1>3. IfacesSo(s, rest, R, I, live)
  BY DEF Phase
<1>4. ASSUME NEW d \in live, Past("ifaces", d, s, rest \ {x}), NEW c \in Config[d]
      PROVE  \E r \in J : r.port = <<d, c.name>> /\ r.vid = c.vid /\ r.mode = c.mode
  <2>1. CASE Past("ifaces", d, s, rest)
    <3>1. \E r \in I : r.port = <<d, c.name>> /\ r.vid = c.vid /\ r.mode = c.mode
      BY <1>1, <1>3, <2>1 DEF IfacesSo
    <3> QED  BY <3>1
  <2>2. CASE d = x
    BY <2>2
  <2>3. Past("ifaces", d, s, rest) \/ d = x
    BY <1>4, PastRow
  <2> QED  BY <2>1, <2>2, <2>3
<1>5. \A r \in J : r.run = R /\ <<r.port, r.vid, r.mode>> \in Rows(live)
  BY <1>1, <1>3 DEF IfacesSo
<1> HIDE DEF J, s
<1>6. IfacesSo(s, rest \ {x}, R, J, live)
  BY <1>1, <1>4, <1>5 DEF IfacesSo
<1>7. Phase(s, rest, known, R, L, I, D, N, Q, S, ev, live)
  BY DEF s
<1>8. LinksSo(s, rest \ {x}, L, ev, live)
  BY <1>1, <1>7, LinksFrame DEF Phase
<1>9. DefsSo(s, rest \ {x}, known, R, D, live) /\ EndsSo(s, rest \ {x}, R, N, live)
  BY <1>1, <1>7, DefsFrame, EndsFrame DEF Phase
<1>10. PathsSo(s, rest \ {x}, R, Q, L, live) /\ ReasonsSo(s, R, S, L, ev, live)
  BY <1>1, <1>7, PathsEarly DEF Phase
<1>11. UnknownSo(s, rest \ {x}, S, ev)
  BY <1>1, <1>7, UnknownFrame DEF Phase
<1>12. LostSo(s, rest \ {x}, R, S, L, live) /\ AloneSo(s, rest \ {x}, R, S, L, live)
  BY <1>1, LostEarly, AloneEarly
<1>13. Phase(s, rest \ {x}, known, R, L, J, D, N, Q, S, ev, live)
  BY <1>2, <1>6, <1>8, <1>9, <1>10, <1>11, <1>12 DEF Phase
<1> QED  BY <1>13 DEF s, J

LEMMA DefsRow ==
  ASSUME NEW s \in {"defs", "used"}, NEW rest, NEW v \in rest, NEW known, NEW kept, NEW R, NEW L,
         NEW I, NEW D, NEW E, NEW N, NEW Q, NEW S, NEW ev \in SUBSET Evidence, NEW live,
         Phase(s, rest, known, R, L, I, D, N, Q, S, ev, live),
         \/ E = D /\ kept = known /\ HasDef(v, D)
         \/ /\ ~HasDef(v, D) /\ kept = known \cup {v}
            /\ \E d : E = D \cup {d} /\ d.run = R /\ d.vid = v
  PROVE  Phase(s, rest \ {v}, kept, R, L, I, E, N, Q, S, ev, live)
<1>1. /\ s \in Loops /\ Rank[s] >= 12 /\ Rank[s] >= 13 /\ Rank[s] <= 15 /\ Rank[s] <= 16
      /\ ~(Rank[s] <= 12)
      /\ s \notin {"ifaces", "counts", "lldp", "csv", "endpoints"}
  BY LoopNames, RankOf
<1>2. v \in FoundIn(s, L, I, D, N, ev, live) /\ rest \subseteq FoundIn(s, L, I, D, N, ev, live)
  BY DEF Phase, RestSo
<1>3. FoundIn(s, L, I, D, N, ev, live) = FoundIn(s, L, I, E, N, ev, live)
  <2>1. CASE s = "defs"
    BY <2>1 DEF FoundIn
  <2>2. CASE s = "used"
    BY <2>2 DEF FoundIn
  <2> QED  BY <2>1, <2>2
<1>4. RestSo(s, rest \ {v}, L, I, E, N, ev, live)
  BY <1>2, <1>3 DEF RestSo
<1>5. v \in Vids(live)
  <2>1. CASE s = "defs"
    BY <1>2, <2>1, FoundIs DEF Vids
  <2>2. CASE s = "used"
    <3>1. v \in {r.vid : r \in I} \ {0}
      BY <1>2, <2>2, FoundIs
    <3>2. PICK r \in I : r.vid = v
      BY <3>1
    <3>3. <<r.port, r.vid, r.mode>> \in Rows(live)
      BY <1>1, RowsKnown DEF Phase
    <3>4. <<r.port, r.vid, r.mode>>[2] = v
      BY <3>2
    <3> QED  BY <3>1, <3>3, <3>4 DEF Vids
  <2> QED  BY <2>1, <2>2
<1>6. DefsSo(s, rest, known, R, D, live)
  BY DEF Phase
<1>7. /\ \A d \in D : d.run = R /\ d.vid \in Vids(live)
      /\ \A d, e \in D : d.vid = e.vid => d = e
      /\ \A u \in UNION {Defined[d] : d \in live} : Past("defs", u, s, rest) => HasDef(u, D)
      /\ \A c \in Rows(live) : c[2] # 0 /\ Past("used", c[2], s, rest) => HasDef(c[2], D)
      /\ known = {d.vid : d \in D}
  BY <1>1, <1>6 DEF DefsSo
<1>8. HasDef(v, E) /\ \A u : HasDef(u, D) => HasDef(u, E)
  BY DEF HasDef
<1>9. /\ \A d \in E : d.run = R /\ d.vid \in Vids(live)
      /\ \A d, e \in E : d.vid = e.vid => d = e
      /\ kept = {d.vid : d \in E}
  <2>1. CASE E = D /\ kept = known
    BY <1>7, <2>1
  <2>2. ASSUME ~HasDef(v, D), kept = known \cup {v}, NEW d, E = D \cup {d}, d.run = R, d.vid = v
        PROVE  /\ \A e \in E : e.run = R /\ e.vid \in Vids(live)
               /\ \A e, f \in E : e.vid = f.vid => e = f
               /\ kept = {e.vid : e \in E}
    <3>1. \A e \in D : e.vid # v
      BY <2>2 DEF HasDef
    <3> QED  BY <1>5, <1>7, <2>2, <3>1
  <2> QED  BY <2>1, <2>2
<1>10. ASSUME NEW u \in UNION {Defined[d] : d \in live}, Past("defs", u, s, rest \ {v})
       PROVE  HasDef(u, E)
  BY <1>7, <1>8, <1>10, PastRow
<1>11. ASSUME NEW c \in Rows(live), c[2] # 0, Past("used", c[2], s, rest \ {v})
       PROVE  HasDef(c[2], E)
  <2>1. CASE Past("used", c[2], s, rest)
    BY <1>7, <1>8, <1>11, <2>1
  <2>2. CASE c[2] = v
    BY <1>8, <2>2
  <2> QED  BY <1>11, <2>1, <2>2, PastRow
<1>12. DefsSo(s, rest \ {v}, kept, R, E, live)
  BY <1>1, <1>9, <1>10, <1>11 DEF DefsSo
<1>13. LinksSo(s, rest \ {v}, L, ev, live) /\ UnknownSo(s, rest \ {v}, S, ev)
  BY <1>1, LinksFrame, UnknownFrame DEF Phase
<1>14. IfacesSo(s, rest \ {v}, R, I, live) /\ EndsSo(s, rest \ {v}, R, N, live)
  BY <1>1, IfacesFrame, EndsFrame DEF Phase
<1>15. PathsSo(s, rest \ {v}, R, Q, L, live) /\ ReasonsSo(s, R, S, L, ev, live)
  BY <1>1, PathsEarly DEF Phase
<1>16. LostSo(s, rest \ {v}, R, S, L, live) /\ AloneSo(s, rest \ {v}, R, S, L, live)
  BY <1>1, LostEarly, AloneEarly
<1> QED  BY <1>4, <1>12, <1>13, <1>14, <1>15, <1>16 DEF Phase

LEMMA VidsNotZero ==
  ASSUME NEW live \in SUBSET Devices
  PROVE  \A v \in Vids(live) : v # 0
<1>1. \A d \in live : 0 \notin Defined[d]
  BY VlanAssumption
<1>2. 0 \notin UNION {Defined[d] : d \in live}
  BY <1>1
<1> QED  BY <1>2 DEF Vids

LEMMA EndsRow ==
  ASSUME NEW rest, NEW x \in rest, NEW known, NEW R, NEW L, NEW I, NEW D, NEW N, NEW new, NEW Q,
         NEW S, NEW ev \in SUBSET Evidence, NEW live \in SUBSET Devices,
         Phase("endpoints", rest, known, R, L, I, D, N, Q, S, ev, live),
         \A n \in new : \E r \in I :
            /\ r.vid = x.vid /\ r.mode # "trunk"
            /\ n.run = R /\ n.def = Pk(x) /\ n.port = r.port /\ n.mode = r.mode,
         \A r \in I : r.vid = x.vid /\ r.mode # "trunk" =>
            \E n \in new : n.run = R /\ n.def = Pk(x) /\ n.port = r.port /\ n.mode = r.mode
  PROVE  Phase("endpoints", rest \ {x}, known, R, L, I, D, N \cup new, Q, S, ev, live)
<1> DEFINE s == "endpoints"
           O == N \cup new
<1>1. /\ s \in Loops /\ Rank[s] >= 12 /\ Rank[s] >= 13 /\ Rank[s] >= 15 /\ Rank[s] <= 15 /\ Rank[s] <= 16
      /\ ~(Rank[s] <= 14) /\ s \notin {"defs", "used", "counts", "lldp", "csv"} /\ s # "ifaces"
  BY LoopNames, RankOf
<1>2. FoundIn(s, L, I, D, N, ev, live) = D /\ FoundIn(s, L, I, D, O, ev, live) = D
  BY DEF FoundIn
<1>3. Phase(s, rest, known, R, L, I, D, N, Q, S, ev, live)
  OBVIOUS
<1> HIDE DEF s
<1>4. rest \subseteq D
  BY <1>2, <1>3 DEF s, Phase, RestSo
<1>5. RestSo(s, rest \ {x}, L, I, D, O, ev, live)
  BY <1>2, <1>4 DEF RestSo
<1>6. x.run = R /\ x.vid \in Vids(live) /\ x.vid # 0
  BY <1>1, <1>3, <1>4, VidsKnown, VidsNotZero DEF Phase
<1>7. Pk(x) = <<R, x.vid>>
  BY <1>6 DEF Pk
<1>8. /\ \A r \in I : r.run = R /\ <<r.port, r.vid, r.mode>> \in Rows(live)
      /\ \A c \in Rows(live) : \E r \in I : r.port = c[1] /\ r.vid = c[2] /\ r.mode = c[3]
  BY <1>1, <1>3, RowsKnown DEF Phase
<1>9. EndsSo(s, rest, R, N, live)
  BY <1>3 DEF Phase
<1>10. ASSUME NEW n \in new PROVE \E c \in Edges(live) : IsEnd(n, c, R)
  <2>1. PICK r \in I : /\ r.vid = x.vid /\ r.mode # "trunk"
                       /\ n.run = R /\ n.def = Pk(x) /\ n.port = r.port /\ n.mode = r.mode
    OBVIOUS
  <2> DEFINE c == <<r.port, r.vid, r.mode>>
  <2>2. c[1] = r.port /\ c[2] = r.vid /\ c[3] = r.mode
    OBVIOUS
  <2>3. c \in Rows(live)
    BY <1>8
  <2> HIDE DEF c
  <2>4. c \in Edges(live)
    BY <1>6, <2>1, <2>2, <2>3 DEF Edges
  <2>5. IsEnd(n, c, R)
    BY <1>7, <2>1, <2>2 DEF IsEnd
  <2> QED  BY <2>4, <2>5
<1>11. ASSUME NEW c \in Edges(live), c[2] = x.vid PROVE \E n \in new : IsEnd(n, c, R)
  <2>1. c \in Rows(live) /\ c[3] # "trunk"
    BY DEF Edges
  <2>2. PICK r \in I : r.port = c[1] /\ r.vid = c[2] /\ r.mode = c[3]
    BY <1>8, <2>1
  <2>3. PICK n \in new : n.run = R /\ n.def = Pk(x) /\ n.port = r.port /\ n.mode = r.mode
    BY <1>11, <2>1, <2>2
  <2>4. IsEnd(n, c, R)
    BY <1>7, <1>11, <2>2, <2>3 DEF IsEnd
  <2> QED  BY <2>4
<1>12. EndsSo(s, rest \ {x}, R, O, live)
  <2>1. \A n \in O : \E c \in Edges(live) : IsEnd(n, c, R)
    BY <1>1, <1>9, <1>10 DEF EndsSo
  <2>2. ASSUME NEW c \in Edges(live)
        PROVE  \/ \E n \in O : IsEnd(n, c, R)
               \/ s = "endpoints" /\ \E d \in rest \ {x} : d.vid = c[2]
    <3>1. \/ \E n \in N : IsEnd(n, c, R)
          \/ s = "endpoints" /\ \E d \in rest : d.vid = c[2]
      BY <1>1, <1>9 DEF EndsSo
    <3>2. CASE c[2] = x.vid
      BY <1>11, <3>2
    <3> QED  BY <3>1, <3>2
  <2> HIDE DEF O
  <2> QED  BY <1>1, <2>1, <2>2 DEF EndsSo
<1>13. LinksSo(s, rest \ {x}, L, ev, live) /\ UnknownSo(s, rest \ {x}, S, ev)
  BY <1>1, <1>3, LinksFrame, UnknownFrame DEF Phase
<1>14. IfacesSo(s, rest \ {x}, R, I, live) /\ DefsSo(s, rest \ {x}, known, R, D, live)
  BY <1>1, <1>3, IfacesFrame, DefsFrame DEF Phase
<1>15. PathsSo(s, rest \ {x}, R, Q, L, live) /\ ReasonsSo(s, R, S, L, ev, live)
  BY <1>1, <1>3, PathsEarly DEF Phase
<1>16. LostSo(s, rest \ {x}, R, S, L, live) /\ AloneSo(s, rest \ {x}, R, S, L, live)
  BY <1>1, LostEarly, AloneEarly
<1> HIDE DEF O
<1>17. Phase(s, rest \ {x}, known, R, L, I, D, O, Q, S, ev, live)
  BY <1>5, <1>12, <1>13, <1>14, <1>15, <1>16 DEF Phase
<1> QED  BY <1>17 DEF s, O

\* The issues the row of the link l makes.
LostIssued(l, R, T, live) ==
    /\ l.confidence = "low" => \A v \in CommonOf(l, live) :
          Issued("low_confidence", <<R, v>>, l.a, l.b, T)
    /\ \A v \in CarryOf(l.a, live) \ CarryOf(l.b, live) :
          Issued("missing", Known(v, R, live), l.a, l.b, T)
    /\ \A v \in CarryOf(l.b, live) \ CarryOf(l.a, live) :
          Issued("missing", Known(v, R, live), l.b, l.a, T)

LEMMA PathsRow ==
  ASSUME NEW rest, NEW x \in rest, NEW known, NEW R, NEW L, NEW I, NEW D, NEW N, NEW Q, NEW new,
         NEW S, NEW T, S \subseteq T, NEW ev \in SUBSET Evidence, NEW live,
         Phase("paths", rest, known, R, L, I, D, N, Q, S, ev, live),
         \A q \in new : \E v \in CommonOf(x, live) : IsPath(q, v, x, R),
         \A v \in CommonOf(x, live) : \E q \in new : IsPath(q, v, x, R),
         \A i \in T \ S : Reason(i, R, L, ev, live), LostIssued(x, R, T, live)
  PROVE  Phase("paths", rest \ {x}, known, R, L, I, D, N, Q \cup new, T, ev, live)
<1> DEFINE s == "paths"
           P == Q \cup new
<1>1. /\ s \in Loops /\ Rank[s] >= 12 /\ Rank[s] >= 16 /\ Rank[s] >= 8 /\ Rank[s] <= 16 /\ ~(Rank[s] <= 15)
      /\ ~(Rank[s] <= 7) /\ s \notin {"defs", "used", "counts", "lldp", "csv"} /\ s # "ifaces" /\ s # "endpoints"
  BY LoopNames, RankOf
<1>2. Phase(s, rest, known, R, L, I, D, N, Q, S, ev, live) /\ s = "paths"
  OBVIOUS
<1>3. FoundIn(s, L, I, D, N, ev, live) = L
  BY DEF FoundIn
<1> HIDE DEF s, P
<1>4. rest \subseteq L
  BY <1>2, <1>3 DEF s, Phase, RestSo
<1>5. RestSo(s, rest \ {x}, L, I, D, N, ev, live)
  BY <1>3, <1>4 DEF RestSo
<1>6. PathsSo(s, rest, R, Q, L, live) /\ LostSo(s, rest, R, S, L, live) /\ ReasonsSo(s, R, S, L, ev, live)
  BY <1>2 DEF Phase
<1>7. \A l \in L : Past("paths", l, s, rest \ {x}) => Past("paths", l, s, rest) \/ l = x
  BY PastRow
<1>8. PathsSo(s, rest \ {x}, R, P, L, live)
  <2>1. ASSUME NEW q \in P PROVE \E l \in L : \E v \in CommonOf(l, live) : IsPath(q, v, l, R)
    <3>1. CASE q \in Q
      BY <1>1, <1>6, <3>1 DEF PathsSo
    <3>2. CASE q \in new
      BY <1>4, <3>2
    <3> QED  BY <3>1, <3>2 DEF P
  <2>2. ASSUME NEW l \in L, Past("paths", l, s, rest \ {x}), NEW v \in CommonOf(l, live)
        PROVE  \E q \in P : IsPath(q, v, l, R)
    <3>1. CASE Past("paths", l, s, rest)
      <4>1. \E q \in Q : IsPath(q, v, l, R)
        BY <1>1, <1>6, <3>1 DEF PathsSo
      <4> QED  BY <4>1 DEF P
    <3>2. CASE l = x
      BY <3>2 DEF P
    <3> QED  BY <1>7, <2>2, <3>1, <3>2
  <2> QED  BY <1>1, <2>1, <2>2 DEF PathsSo
<1>9. ReasonsSo(s, R, T, L, ev, live)
  BY <1>1, <1>6 DEF ReasonsSo
<1>10. LostSo(s, rest \ {x}, R, T, L, live)
  <2> SUFFICES ASSUME NEW l \in L, Past("paths", l, s, rest \ {x}) PROVE LostIssued(l, R, T, live)
    BY DEF LostSo, LostIssued
  <2>1. CASE Past("paths", l, s, rest)
    BY <1>6, <2>1, IssuedMore DEF LostSo, LostIssued
  <2>2. CASE l = x
    BY <2>2
  <2> QED  BY <1>7, <2>1, <2>2
<1>11. LinksSo(s, rest \ {x}, L, ev, live) /\ UnknownSo(s, rest \ {x}, T, ev)
  BY <1>1, <1>2, LinksFrame, UnknownFrame DEF Phase
<1>12. IfacesSo(s, rest \ {x}, R, I, live) /\ DefsSo(s, rest \ {x}, known, R, D, live)
  BY <1>1, <1>2, IfacesFrame, DefsFrame DEF Phase
<1>13. EndsSo(s, rest \ {x}, R, N, live)
  BY <1>1, <1>2, EndsFrame DEF Phase
<1>14. AloneSo(s, rest \ {x}, R, T, L, live)
  BY <1>1, AloneEarly
<1>15. Phase(s, rest \ {x}, known, R, L, I, D, N, P, T, ev, live)
  BY <1>5, <1>8, <1>9, <1>10, <1>11, <1>12, <1>13, <1>14 DEF Phase
<1> QED  BY <1>15 DEF s, P

-----------------------------------------------------------------------------
(* The counts of a definition.                                             *)

Row(r) == <<r.port, r.vid, r.mode>>

LEMMA CountRows ==
  ASSUME NEW A \in SUBSET Interface, IsFiniteSet(A), NEW R, \A r \in A : r.run = R
  PROVE  Cardinality({Row(r) : r \in A}) = Cardinality(A) /\ IsFiniteSet({Row(r) : r \in A})
<1> DEFINE K == {Row(r) : r \in A}
           f == [r \in A |-> Row(r)]
<1>1. \A r, q \in A : Row(r) = Row(q) => r = q
  <2> SUFFICES ASSUME NEW r \in A, NEW q \in A, Row(r) = Row(q) PROVE r = q
    OBVIOUS
  <2>1. r.port = q.port /\ r.vid = q.vid /\ r.mode = q.mode /\ r.run = q.run
    BY DEF Row
  <2>2. r \in Interface /\ q \in Interface
    OBVIOUS
  <2> QED  BY <2>1, <2>2 DEF Interface
<1>2. f \in Surjection(A, K)
  BY DEF Surjection
<1>3. f \in Injection(A, K)
  BY <1>1 DEF Injection, IsInjective
<1> HIDE DEF f
<1> QED  BY <1>2, <1>3, FS_Surjection

RowCount(v, I)    == Cardinality({r \in I : r.vid = v})
DeviceCount(v, I) == Cardinality({r.port[1] : r \in {x \in I : x.vid = v}})

LEMMA CountedRows ==
  ASSUME NEW I \in SUBSET Interface, IsFiniteSet(I), NEW R, NEW live,
         \A r \in I : r.run = R /\ <<r.port, r.vid, r.mode>> \in Rows(live),
         \A c \in Rows(live) : \E r \in I : r.port = c[1] /\ r.vid = c[2] /\ r.mode = c[3]
  PROVE  \A d : d.interfaces = RowCount(d.vid, I) /\ d.devices = DeviceCount(d.vid, I)
               => Counted(d, live)
<1> SUFFICES ASSUME NEW d, d.interfaces = RowCount(d.vid, I), d.devices = DeviceCount(d.vid, I)
             PROVE  Counted(d, live)
  OBVIOUS
<1> DEFINE v == d.vid
           A == {r \in I : r.vid = v}
           K == {c \in Rows(live) : c[2] = v}
<1>1. \A c \in Rows(live) : c = <<c[1], c[2], c[3]>>
  BY RowsElement
<1>2. ASSUME NEW c \in K PROVE \E r \in A : Row(r) = c
  <2>1. PICK r \in I : r.port = c[1] /\ r.vid = c[2] /\ r.mode = c[3]
    OBVIOUS
  <2>2. Row(r) = <<c[1], c[2], c[3]>>
    BY <2>1 DEF Row
  <2> QED  BY <1>1, <2>1, <2>2
<1>3. ASSUME NEW r \in A PROVE Row(r) \in K /\ Row(r)[1] = r.port
  <2>1. Row(r) \in Rows(live) /\ Row(r)[2] = v /\ Row(r)[1] = r.port
    BY DEF Row
  <2> QED  BY <2>1
<1>4. A \in SUBSET Interface /\ IsFiniteSet(A) /\ \A r \in A : r.run = R
  BY FS_Subset
<1> HIDE DEF A, K
<1>5. {Row(r) : r \in A} = K
  BY <1>2, <1>3
<1>6. Cardinality({Row(r) : r \in A}) = Cardinality(A)
  BY <1>4, CountRows
<1>7. \A r \in A : r.port[1] \in {c[1][1] : c \in K}
  BY <1>3
<1>8. \A c \in K : c[1][1] \in {r.port[1] : r \in A}
  BY <1>2, <1>3
<1>9. {r.port[1] : r \in A} = {c[1][1] : c \in K}
  BY <1>7, <1>8
<1>10. RowCount(v, I) = Cardinality(A) /\ DeviceCount(v, I) = Cardinality({r.port[1] : r \in A})
  BY DEF RowCount, DeviceCount, A
<1>11. d.interfaces = Cardinality(K) /\ d.devices = Cardinality({c[1][1] : c \in K})
  BY <1>5, <1>6, <1>9, <1>10
<1> QED  BY <1>11 DEF K, Counted

LEMMA CountedIfaces ==
  ASSUME NEW rest, NEW R, NEW I \in SUBSET Interface, IsFiniteSet(I), NEW live,
         IfacesSo("counts", rest, R, I, live)
  PROVE  \A d : d.interfaces = RowCount(d.vid, I) /\ d.devices = DeviceCount(d.vid, I)
               => Counted(d, live)
<1>1. "counts" \in Loops /\ Rank["counts"] >= 13
  BY LoopNames, RankOf
<1>2. /\ \A r \in I : r.run = R /\ <<r.port, r.vid, r.mode>> \in Rows(live)
      /\ \A c \in Rows(live) : \E r \in I : r.port = c[1] /\ r.vid = c[2] /\ r.mode = c[3]
  BY <1>1, RowsKnown
<1> QED  BY <1>2, CountedRows

LEMMA CountsDefs ==
  ASSUME NEW rest, NEW x, NEW known, NEW R, NEW D, NEW E, NEW live,
         DefsSo("counts", rest, known, R, D, live), \A v : HasDef(v, D) => HasDef(v, E),
         \A d \in E : d.run = R /\ d.vid \in Vids(live),
         \A d, e \in E : d.vid = e.vid => d = e,
         \A d \in E : Counted(d, live) \/ \E t \in rest \ {x} : Pk(t) = Pk(d)
  PROVE  DefsSo("counts", rest \ {x}, known, R, E, live)
<1>1. ~(Rank["counts"] <= 12) /\ Rank["counts"] >= 13
  BY LoopNames, RankOf
<1>2. \A v : /\ Past("defs", v, "counts", rest \ {x}) => Past("defs", v, "counts", rest)
             /\ Past("used", v, "counts", rest \ {x}) => Past("used", v, "counts", rest)
  BY PastRow
<1>3. \A v \in UNION {Defined[d] : d \in live} :
         Past("defs", v, "counts", rest \ {x}) => HasDef(v, E)
  BY <1>1, <1>2 DEF DefsSo
<1>4. \A c \in Rows(live) : c[2] # 0 /\ Past("used", c[2], "counts", rest \ {x}) => HasDef(c[2], E)
  BY <1>1, <1>2 DEF DefsSo
<1> QED  BY <1>1, <1>3, <1>4 DEF DefsSo

LEMMA CountsRow ==
  ASSUME NEW rest, NEW x \in rest, NEW known, NEW R, NEW L, NEW I \in SUBSET Interface, IsFiniteSet(I),
         NEW D, NEW E, NEW N, NEW Q, NEW S, NEW ev \in SUBSET Evidence, NEW live,
         NEW g, Phase("counts", rest, known, R, L, I, D, N, Q, S, ev, live),
         E = {g[y] : y \in D}, \A y \in D : g[y].run = y.run /\ g[y].vid = y.vid,
         \A y \in D : Pk(y) # Pk(x) => g[y] = y,
         \A y \in D : Pk(y) = Pk(x) =>
            g[y].interfaces = RowCount(x.vid, I) /\ g[y].devices = DeviceCount(x.vid, I)
  PROVE  Phase("counts", rest \ {x}, known, R, L, I, E, N, Q, S, ev, live)
<1> DEFINE s == "counts"
<1>1. /\ s \in Loops /\ Rank[s] >= 12 /\ Rank[s] >= 13 /\ ~(Rank[s] <= 12)
      /\ s \notin {"defs", "used", "lldp", "csv"} /\ s # "ifaces" /\ s # "endpoints" /\ s # "paths"
      /\ s \notin {"isolated", "unused", "routed"}
  BY LoopNames, RankOf
<1>2. Phase(s, rest, known, R, L, I, D, N, Q, S, ev, live) /\ s = "counts"
  OBVIOUS
<1> HIDE DEF s
<1>3. RestSo(s, rest \ {x}, L, I, E, N, ev, live)
  BY <1>2 DEF RestSo
<1>4. /\ \A d \in D : d.run = R /\ d.vid \in Vids(live)
      /\ \A d, e \in D : d.vid = e.vid => d = e
      /\ \A v \in UNION {Defined[d] : d \in live} : Past("defs", v, s, rest) => HasDef(v, D)
      /\ \A c \in Rows(live) : c[2] # 0 /\ Past("used", c[2], s, rest) => HasDef(c[2], D)
      /\ \A d \in D : Counted(d, live) \/ \E t \in rest : Pk(t) = Pk(d)
  BY <1>1, <1>2 DEF Phase, DefsSo
<1>5. \A d : d.interfaces = RowCount(d.vid, I) /\ d.devices = DeviceCount(d.vid, I)
            => Counted(d, live)
  <2>1. IfacesSo("counts", rest, R, I, live)
    BY DEF Phase
  <2> QED  BY <2>1, CountedIfaces
<1>6. \A v : HasDef(v, D) => HasDef(v, E)
  BY DEF HasDef
<1>7. \A v : /\ Past("defs", v, s, rest \ {x}) => Past("defs", v, s, rest)
             /\ Past("used", v, s, rest \ {x}) => Past("used", v, s, rest)
  BY <1>1, PastRow
<1>8. ASSUME NEW y \in D
       PROVE  Counted(g[y], live) \/ \E t \in rest \ {x} : Pk(t) = Pk(g[y])
  <2>1. Pk(g[y]) = Pk(y)
    BY DEF Pk
  <2>2. CASE Pk(y) = Pk(x)
    <3>1. g[y].vid = x.vid
      BY <2>2 DEF Pk
    <3>2. g[y].interfaces = RowCount(g[y].vid, I) /\ g[y].devices = DeviceCount(g[y].vid, I)
      BY <2>2, <3>1
    <3>3. Counted(g[y], live)
      BY <1>5, <3>2
    <3> QED  BY <3>3
  <2>3. CASE Pk(y) # Pk(x)
    BY <1>4, <2>3
  <2> QED  BY <2>2, <2>3
<1>9. /\ \A d \in E : d.run = R /\ d.vid \in Vids(live)
      /\ \A d, e \in E : d.vid = e.vid => d = e
      /\ \A d \in E : Counted(d, live) \/ \E t \in rest \ {x} : Pk(t) = Pk(d)
  <2>1. \A d \in E : d.run = R /\ d.vid \in Vids(live)
    BY <1>4
  <2>2. \A d, e \in E : d.vid = e.vid => d = e
    BY <1>4
  <2>3. \A d \in E : Counted(d, live) \/ \E t \in rest \ {x} : Pk(t) = Pk(d)
    BY <1>8
  <2> QED  BY <2>1, <2>2, <2>3
<1>10. DefsSo(s, rest \ {x}, known, R, E, live)
  <2>1. DefsSo(s, rest, known, R, D, live)
    BY <1>2 DEF Phase
  <2> QED  BY <1>2, <1>6, <1>9, <2>1, CountsDefs
<1>11. LinksSo(s, rest \ {x}, L, ev, live) /\ UnknownSo(s, rest \ {x}, S, ev)
  BY <1>1, <1>2, LinksFrame, UnknownFrame DEF Phase
<1>12. IfacesSo(s, rest \ {x}, R, I, live) /\ EndsSo(s, rest \ {x}, R, N, live)
  BY <1>1, <1>2, IfacesFrame, EndsFrame DEF Phase
<1>13. PathsSo(s, rest \ {x}, R, Q, L, live) /\ ReasonsSo(s, R, S, L, ev, live)
  BY <1>1, <1>2, PathsFrame DEF Phase
<1>14. LostSo(s, rest \ {x}, R, S, L, live) /\ AloneSo(s, rest \ {x}, R, S, L, live)
  BY <1>1, <1>2, LostFrame, AloneFrame DEF Phase
<1>15. Phase(s, rest \ {x}, known, R, L, I, E, N, Q, S, ev, live)
  BY <1>3, <1>10, <1>11, <1>12, <1>13, <1>14 DEF Phase
<1> QED  BY <1>15 DEF s

-----------------------------------------------------------------------------
(* The loops over what is left without a path or an interface.             *)

LEMMA LatePhase ==
  ASSUME NEW s \in {"isolated", "unused", "routed"}, NEW rest, NEW x, NEW known, NEW R, NEW L, NEW I,
         NEW D, NEW N, NEW Q, NEW S, NEW T, S \subseteq T, NEW ev \in SUBSET Evidence, NEW live,
         Phase(s, rest, known, R, L, I, D, N, Q, S, ev, live),
         \A i \in T \ S : Reason(i, R, L, ev, live), AloneSo(s, rest \ {x}, R, T, L, live)
  PROVE  Phase(s, rest \ {x}, known, R, L, I, D, N, Q, T, ev, live)
<1>1. /\ s \in Loops /\ Rank[s] >= 12 /\ Rank[s] >= 8 /\ ~(Rank[s] <= 15) /\ ~(Rank[s] <= 7)
      /\ s \notin {"defs", "used", "counts", "lldp", "csv"} /\ s # "ifaces" /\ s # "endpoints" /\ s # "paths"
  BY LoopNames, RankOf
<1>2. RestSo(s, rest \ {x}, L, I, D, N, ev, live)
  BY <1>1 DEF Phase, RestSo
<1>3. LinksSo(s, rest \ {x}, L, ev, live) /\ UnknownSo(s, rest \ {x}, T, ev)
  BY <1>1, LinksFrame, UnknownFrame DEF Phase
<1>4. /\ IfacesSo(s, rest \ {x}, R, I, live) /\ EndsSo(s, rest \ {x}, R, N, live)
      /\ DefsSo(s, rest \ {x}, known, R, D, live)
  BY <1>1, IfacesFrame, EndsFrame, DefsFrame DEF Phase
<1>5. PathsSo(s, rest \ {x}, R, Q, L, live) /\ LostSo(s, rest \ {x}, R, T, L, live)
  BY <1>1, PathsFrame, LostFrame DEF Phase
<1>6. ReasonsSo(s, R, T, L, ev, live)
  <2>1. ReasonsSo(s, R, S, L, ev, live)
    BY DEF Phase
  <2> QED  BY <1>1, <2>1 DEF ReasonsSo
<1> QED  BY <1>2, <1>3, <1>4, <1>5, <1>6 DEF Phase

LEMMA IsolatedRow ==
  ASSUME NEW rest, NEW x \in rest, NEW known, NEW R, NEW L, NEW I, NEW D, NEW N, NEW Q, NEW S, NEW T,
         NEW ev \in SUBSET Evidence, NEW live,
         Phase("isolated", rest, known, R, L, I, D, N, Q, S, ev, live), S \subseteq T,
         (\E q \in Q : q.def = x.def) => T = S,
         (\A q \in Q : q.def # x.def) => Issued("isolated", x.def, x.port, NoPort, T),
         \A i \in T \ S : i.run = R /\ i.code = "isolated" /\ i.def = x.def /\ i.a = x.port /\ i.b = NoPort
  PROVE  Phase("isolated", rest \ {x}, known, R, L, I, D, N, Q, T, ev, live)
<1> DEFINE s == "isolated"
<1>1. s \in Loops /\ Rank[s] >= 15 /\ Rank[s] >= 17 /\ ~(Rank[s] >= 18) /\ ~(Rank[s] >= 19)
  BY LoopNames, RankOf
<1>2. Phase(s, rest, known, R, L, I, D, N, Q, S, ev, live) /\ s = "isolated"
  OBVIOUS
<1>3. FoundIn(s, L, I, D, N, ev, live) = N
  BY DEF FoundIn
<1> HIDE DEF s
<1>4. x \in N
  BY <1>2, <1>3 DEF Phase, RestSo
<1>5. PICK c \in Edges(live) : IsEnd(x, c, R)
  BY <1>1, <1>2, <1>4 DEF Phase, EndsSo
<1>6. x.def = <<R, c[2]>> /\ x.port = c[1]
  BY <1>5 DEF IsEnd
<1>7. \A v : (\E q \in Q : q.def = <<R, v>>) <=> Bridged(v, L, live)
  BY <1>1, <1>2, PathsKnown DEF Phase
<1>8. \A i \in T \ S : Reason(i, R, L, ev, live)
  <2> SUFFICES ASSUME NEW i \in T \ S PROVE Reason(i, R, L, ev, live)
    OBVIOUS
  <2>1. ~Bridged(c[2], L, live)
    BY <1>6, <1>7
  <2> QED  BY <1>6, <2>1 DEF Reason
<1>9. AloneSo(s, rest \ {x}, R, T, L, live)
  <2> SUFFICES ASSUME NEW e \in Edges(live), ~Bridged(e[2], L, live)
               PROVE  \/ Issued("isolated", <<R, e[2]>>, e[1], NoPort, T)
                      \/ s = "isolated" /\ \E n \in rest \ {x} : n.def = <<R, e[2]>> /\ n.port = e[1]
    BY <1>1 DEF AloneSo
  <2>1. \/ Issued("isolated", <<R, e[2]>>, e[1], NoPort, S)
        \/ s = "isolated" /\ \E n \in rest : n.def = <<R, e[2]>> /\ n.port = e[1]
    BY <1>1, <1>2 DEF Phase, AloneSo
  <2>2. CASE Issued("isolated", <<R, e[2]>>, e[1], NoPort, S)
    BY <2>2, IssuedMore
  <2>3. CASE x.def = <<R, e[2]>> /\ x.port = e[1]
    <3>1. \A q \in Q : q.def # x.def
      BY <1>7, <2>3
    <3>2. Issued("isolated", x.def, x.port, NoPort, T)
      BY <3>1
    <3> QED  BY <2>3, <3>2
  <2> QED  BY <2>1, <2>2, <2>3
<1>10. Phase(s, rest \ {x}, known, R, L, I, D, N, Q, T, ev, live)
  BY <1>2, <1>8, <1>9, LatePhase
<1> QED  BY <1>10 DEF s

LEMMA UnusedRow ==
  ASSUME NEW rest, NEW x \in rest, NEW known, NEW R, NEW L, NEW I, NEW D, NEW N, NEW Q, NEW S, NEW T,
         NEW ev \in SUBSET Evidence, NEW live,
         Phase("unused", rest, known, R, L, I, D, N, Q, S, ev, live), S \subseteq T,
         (\E r \in I : r.vid = x.vid) => T = S,
         (\A r \in I : r.vid # x.vid) => Issued("unused", Pk(x), NoPort, NoPort, T),
         \A i \in T \ S : i.run = R /\ i.code = "unused" /\ i.def = Pk(x) /\ i.a = NoPort /\ i.b = NoPort
  PROVE  Phase("unused", rest \ {x}, known, R, L, I, D, N, Q, T, ev, live)
<1> DEFINE s == "unused"
<1>1. s \in Loops /\ Rank[s] >= 13 /\ Rank[s] >= 15 /\ Rank[s] >= 17 /\ Rank[s] >= 18 /\ ~(Rank[s] >= 19)
  BY LoopNames, RankOf
<1>2. Phase(s, rest, known, R, L, I, D, N, Q, S, ev, live) /\ s = "unused"
  OBVIOUS
<1>3. FoundIn(s, L, I, D, N, ev, live) = D
  BY DEF FoundIn
<1> HIDE DEF s
<1>4. x \in D
  BY <1>2, <1>3 DEF Phase, RestSo
<1>5. x.run = R /\ x.vid \in Vids(live)
  BY <1>1, <1>2, <1>4, VidsKnown DEF Phase
<1>6. Pk(x) = <<R, x.vid>>
  BY <1>5 DEF Pk
<1>7. /\ \A r \in I : r.run = R /\ <<r.port, r.vid, r.mode>> \in Rows(live)
      /\ \A c \in Rows(live) : \E r \in I : r.port = c[1] /\ r.vid = c[2] /\ r.mode = c[3]
  BY <1>1, <1>2, RowsKnown DEF Phase
<1>8. \A v \in Vids(live) : v \in Idles(live) <=> \A r \in I : r.vid # v
  <2> SUFFICES ASSUME NEW v \in Vids(live)
               PROVE  (\A c \in Rows(live) : c[2] # v) <=> \A r \in I : r.vid # v
    BY DEF Idles
  <2>1. ASSUME NEW r \in I, r.vid = v PROVE \E c \in Rows(live) : c[2] = v
    <3>1. <<r.port, r.vid, r.mode>>[2] = v
      BY <2>1
    <3> QED  BY <1>7, <3>1
  <2> QED  BY <1>7, <2>1
<1>9. \A i \in T \ S : Reason(i, R, L, ev, live)
  <2> SUFFICES ASSUME NEW i \in T \ S PROVE Reason(i, R, L, ev, live)
    OBVIOUS
  <2>1. x.vid \in Idles(live)
    BY <1>5, <1>8
  <2> QED  BY <1>6, <2>1 DEF Reason
<1>10. AloneSo(s, rest \ {x}, R, T, L, live)
  <2>1. AloneSo(s, rest, R, S, L, live)
    BY <1>2 DEF Phase
  <2>2. \A e \in Edges(live) : ~Bridged(e[2], L, live) =>
           Issued("isolated", <<R, e[2]>>, e[1], NoPort, T)
    BY <1>1, <1>2, <2>1, IssuedMore DEF AloneSo
  <2>3. ASSUME NEW v \in Idles(live)
        PROVE  \/ Issued("unused", <<R, v>>, NoPort, NoPort, T)
               \/ s = "unused" /\ \E d \in rest \ {x} : d.vid = v
    <3>1. \/ Issued("unused", <<R, v>>, NoPort, NoPort, S)
          \/ s = "unused" /\ \E d \in rest : d.vid = v
      BY <1>1, <2>1 DEF AloneSo
    <3>2. CASE Issued("unused", <<R, v>>, NoPort, NoPort, S)
      BY <3>2, IssuedMore
    <3>3. CASE x.vid = v
      <4>1. Issued("unused", Pk(x), NoPort, NoPort, T)
        BY <1>5, <1>8, <3>3
      <4> QED  BY <1>6, <3>3, <4>1
    <3> QED  BY <3>1, <3>2, <3>3
  <2> QED  BY <1>1, <2>2, <2>3 DEF AloneSo
<1>11. Phase(s, rest \ {x}, known, R, L, I, D, N, Q, T, ev, live)
  BY <1>2, <1>9, <1>10, LatePhase
<1> QED  BY <1>11 DEF s

LEMMA RoutedRow ==
  ASSUME NEW rest, NEW x \in rest, NEW known, NEW R, NEW L, NEW I, NEW D, NEW N, NEW Q, NEW S, NEW T,
         NEW ev \in SUBSET Evidence, NEW live \in SUBSET Devices,
         Phase("routed", rest, known, R, L, I, D, N, Q, S, ev, live), S \subseteq T,
         \A i \in T \ S : \E d \in D :
            /\ d.vid = x.vid /\ \A q \in Q : q.def # Pk(d)
            /\ i.run = R /\ i.code = "routed" /\ i.def = Pk(d) /\ i.a = x.port /\ i.b = NoPort,
         \A d \in D : d.vid = x.vid /\ (\A q \in Q : q.def # Pk(d)) =>
            Issued("routed", Pk(d), x.port, NoPort, T)
  PROVE  Phase("routed", rest \ {x}, known, R, L, I, D, N, Q, T, ev, live)
<1> DEFINE s == "routed"
<1>1. s \in Loops /\ Rank[s] >= 13 /\ Rank[s] >= 15 /\ Rank[s] >= 17 /\ Rank[s] >= 18 /\ Rank[s] >= 19
  BY LoopNames, RankOf
<1>2. Phase(s, rest, known, R, L, I, D, N, Q, S, ev, live) /\ s = "routed"
  OBVIOUS
<1>3. FoundIn(s, L, I, D, N, ev, live) = {r \in I : r.mode = "subinterface"}
  BY DEF FoundIn
<1> HIDE DEF s
<1>4. x \in I /\ x.mode = "subinterface"
  BY <1>2, <1>3 DEF Phase, RestSo
<1>5. \A r \in I : r.run = R /\ <<r.port, r.vid, r.mode>> \in Rows(live)
  BY <1>1, <1>2, RowsKnown DEF Phase
<1>6. /\ \A d \in D : d.run = R /\ d.vid \in Vids(live)
      /\ \A v \in Vids(live) : HasDef(v, D)
  BY <1>1, <1>2, VidsKnown DEF Phase
<1>7. \A d \in D : Pk(d) = <<R, d.vid>> /\ d.vid # 0
  BY <1>6, VidsNotZero DEF Pk
<1>8. \A v : (\E q \in Q : q.def = <<R, v>>) <=> Bridged(v, L, live)
  BY <1>1, <1>2, PathsKnown DEF Phase
<1>9. \A i \in T \ S : Reason(i, R, L, ev, live)
  <2> SUFFICES ASSUME NEW i \in T \ S PROVE Reason(i, R, L, ev, live)
    OBVIOUS
  <2>1. PICK d \in D : /\ d.vid = x.vid /\ \A q \in Q : q.def # Pk(d)
                       /\ i.run = R /\ i.code = "routed" /\ i.def = Pk(d) /\ i.a = x.port /\ i.b = NoPort
    OBVIOUS
  <2>2. ~Bridged(d.vid, L, live)
    BY <1>7, <1>8, <2>1
  <2> DEFINE c == <<x.port, x.vid, x.mode>>
  <2>3. c \in Rows(live) /\ c[1] = x.port /\ c[2] = d.vid /\ c[3] = "subinterface"
    BY <1>4, <1>5, <2>1
  <2> HIDE DEF c
  <2>4. c \in Routes(live)
    BY <1>7, <2>3 DEF Routes
  <2>5. ~Bridged(c[2], L, live) /\ i.def = <<R, c[2]>> /\ i.a = c[1]
    BY <1>7, <2>1, <2>2, <2>3
  <2> QED  BY <2>1, <2>4, <2>5 DEF Reason
<1>10. AloneSo(s, rest \ {x}, R, T, L, live)
  <2>1. AloneSo(s, rest, R, S, L, live)
    BY <1>2 DEF Phase
  <2>2. \A e \in Edges(live) : ~Bridged(e[2], L, live) =>
           Issued("isolated", <<R, e[2]>>, e[1], NoPort, T)
    BY <1>1, <1>2, <2>1, IssuedMore DEF AloneSo
  <2>3. \A v \in Idles(live) : Issued("unused", <<R, v>>, NoPort, NoPort, T)
    BY <1>1, <1>2, <2>1, IssuedMore DEF AloneSo
  <2>4. ASSUME NEW c \in Routes(live), ~Bridged(c[2], L, live)
        PROVE  \/ Issued("routed", <<R, c[2]>>, c[1], NoPort, T)
               \/ s = "routed" /\ \E r \in rest \ {x} : r.vid = c[2] /\ r.port = c[1]
    <3>1. \/ Issued("routed", <<R, c[2]>>, c[1], NoPort, S)
          \/ s = "routed" /\ \E r \in rest : r.vid = c[2] /\ r.port = c[1]
      BY <1>1, <2>1, <2>4 DEF AloneSo
    <3>2. CASE Issued("routed", <<R, c[2]>>, c[1], NoPort, S)
      BY <3>2, IssuedMore
    <3>3. CASE x.vid = c[2] /\ x.port = c[1]
      <4>1. c[2] \in Vids(live)
        BY DEF Routes, Vids
      <4>2. PICK d \in D : d.vid = c[2]
        BY <1>6, <4>1 DEF HasDef
      <4>3. \A q \in Q : q.def # Pk(d)
        BY <1>7, <1>8, <2>4, <4>2
      <4>4. Issued("routed", Pk(d), x.port, NoPort, T)
        BY <3>3, <4>2, <4>3
      <4> QED  BY <1>7, <3>3, <4>2, <4>4
    <3> QED  BY <3>1, <3>2, <3>3
  <2> QED  BY <1>1, <2>2, <2>3, <2>4 DEF AloneSo
<1>11. Phase(s, rest \ {x}, known, R, L, I, D, N, Q, T, ev, live)
  BY <1>2, <1>9, <1>10, LatePhase
<1> QED  BY <1>11 DEF s

-----------------------------------------------------------------------------
(* The steps of a correlation.                                             *)

\* Where p is, and where its step leaves it at the loop s.
Now(p) == Phase(pc[p], Rest(p), mem[p].known, mem[p].run, links, ifaces, defs, endpoints,
                paths, issues, evidence, Live)
After(p, s, rest, known) ==
    Phase(s, rest, known, mem[p].run, links', ifaces', defs', endpoints', paths', issues',
          evidence', Live')
Progress(p) ==
    \/ Abort(p)
    \/ /\ pc[p] \in Cleans /\ Advance(p, {})
       /\ After(p, Follow[pc[p]],
                FoundIn(Follow[pc[p]], links', ifaces', defs', endpoints', evidence', Live'), {})
    \/ /\ pc[p] \in Loops \ Cleans
       /\ \E todo, known : Continue(p, todo, known) /\ After(p, pc[p], todo, known)

LEMMA LiveDevices == Live \in SUBSET Devices
  BY DEF Live

LEMMA FoundNow ==
  ASSUME NEW loop \in Loops \ Cleans
  PROVE  Found(loop) = FoundIn(loop, links, ifaces, defs, endpoints, evidence, Live)
<1>1. CASE loop = "normalize" \/ loop = "paths" \/ loop = "used"
  BY <1>1 DEF Found, FoundIn
<1>2. CASE loop = "lldp" \/ loop = "csv"
  BY <1>2 DEF Found, FoundIn
<1>3. CASE loop = "subnet" \/ loop = "description" \/ loop = "ifaces" \/ loop = "defs"
  BY <1>3 DEF Found, FoundIn, Suggested, Told
<1>4. CASE loop = "endpoints" \/ loop = "unused" \/ loop = "counts"
  BY <1>4 DEF Found, FoundIn
<1>5. CASE loop = "isolated" \/ loop = "routed"
  BY <1>5 DEF Found, FoundIn
<1> QED  BY <1>1, <1>2, <1>3, <1>4, <1>5 DEF Loops, Follow, Cleans

LEMMA VisitRest ==
  ASSUME NEW p, NEW x \in mem[p].todo, mem[p].open
  PROVE  Rest(p) = mem[p].todo /\ x \in Rest(p)
  BY DEF Rest

LEMMA DoneProgress ==
  ASSUME NEW p, NEW x, mem[p].open, pc[p] \in Loops \ Cleans, Done(p, x),
         After(p, pc[p], Rest(p) \ {x}, mem[p].known)
  PROVE  Progress(p)
<1>1. Rest(p) = mem[p].todo
  BY DEF Rest
<1>2. Continue(p, mem[p].todo \ {x}, mem[p].known)
  BY DEF Done
<1>3. After(p, pc[p], mem[p].todo \ {x}, mem[p].known)
  BY <1>1
<1> QED  BY <1>2, <1>3 DEF Progress

LEMMA NoCleans ==
  {"normalize", "lldp", "csv", "subnet", "description", "ifaces", "defs", "used", "endpoints",
   "paths", "isolated", "unused", "routed", "counts"} \subseteq Loops \ Cleans
  BY DEF Loops, Follow, Cleans

LEMMA CleanProgress ==
  ASSUME NEW p \in Procs, Now(p), CleanDefinitions(p) \/ CleanRows(p) \/ CleanLinks(p)
  PROVE  Progress(p)
<1>1. pc[p] \in Cleans /\ Advance(p, {})
  BY DEF CleanDefinitions, CleanRows, CleanLinks, Cleans
<1>2. After(p, Follow[pc[p]],
            FoundIn(Follow[pc[p]], links', ifaces', defs', endpoints', evidence', Live'), {})
  BY CleanDefinitionsPhase, CleanRowsPhase, CleanLinksPhase DEF Now, After
<1> QED  BY <1>1, <1>2 DEF Progress

LEMMA QueryProgress ==
  ASSUME TypeOK, NEW p \in Procs, Now(p), Query(p)
  PROVE  Progress(p)
<1> DEFINE known == IF pc[p] = "defs" THEN {d.vid : d \in defs} ELSE mem[p].known
<1>1. /\ pc[p] \in Loops \ Cleans /\ ~mem[p].open /\ Continue(p, Found(pc[p]), known)
      /\ UNCHANGED <<inputs, links, derived>>
  BY DEF Query, TypeOK, ControlOK
<1>2. Rest(p) = Found(pc[p])
  BY <1>1, FoundNow DEF Rest
<1>3. known = mem[p].known
  <2>1. pc[p] = "defs" => mem[p].known = {d.vid : d \in defs}
    BY DEF Now, Phase, DefsSo
  <2> QED  BY <2>1
<1> HIDE DEF known
<1>4. UNCHANGED <<links, ifaces, defs, endpoints, paths, issues, evidence, Live>>
  BY <1>1 DEF inputs, derived, Live
<1>5. After(p, pc[p], Found(pc[p]), known)
  BY <1>2, <1>3, <1>4 DEF Now, After
<1> QED  BY <1>1, <1>5 DEF Progress

LEMMA NormalizeProgress ==
  ASSUME TypeOK, NEW p \in Procs, Now(p), Normalize(p)
  PROVE  Progress(p)
<1>1. PICK c \in mem[p].todo :
          /\ Visit(p, "normalize", c)
          /\ \/ Abort(p)
             \/ /\ links' = {m \in links : m.pk # c.pk} \cup {[c EXCEPT !.a = c.b, !.b = c.a]}
                /\ Done(p, c)
                /\ UNCHANGED <<inputs, derived>>
  BY DEF Normalize
<1> DEFINE s == "normalize"
           turned == [c EXCEPT !.a = c.b, !.b = c.a]
<1>2. pc[p] = s /\ mem[p].open /\ s \in Loops \ Cleans
  BY <1>1, NoCleans DEF Visit
<1>3. c \in Link
  <2>1. pc[p] = "normalize" /\ c \in Visits(pc[p])
    BY <1>1, VisitType DEF Visit
  <2> QED  BY <2>1 DEF Visits
<1>4. turned.method = c.method
  BY <1>3 DEF Link
<1>5. CASE Abort(p)
  BY <1>5 DEF Progress
<1>6. CASE /\ links' = {m \in links : m.pk # c.pk} \cup {turned}
           /\ Done(p, c) /\ UNCHANGED <<inputs, derived>>
  <2>1. UNCHANGED <<ifaces, defs, endpoints, paths, issues, evidence, Live>>
    BY <1>6 DEF inputs, derived, Live
  <2>2. Rest(p) = mem[p].todo /\ c \in Rest(p)
    BY <1>2, VisitRest
  <2> HIDE DEF turned
  <2>3. \A l \in links \cup Rest(p) : l.method = "manual"
    BY <1>2 DEF Now, Phase, LinksSo
  <2>4. \A l \in links' \cup (Rest(p) \ {c}) : l.method = "manual"
    BY <1>4, <1>6, <2>2, <2>3
  <2>5. /\ Rank[s] >= 7 /\ Rank[s] <= 11 /\ ~(Rank[s] >= 8) /\ Rank[s] <= 15
    BY NoCleans, RankOf
  <2>6. LinksSo(s, Rest(p) \ {c}, links', evidence, Live)
    BY <2>4, <2>5 DEF LinksSo
  <2>7. /\ ReasonsSo(s, mem[p].run, issues, links', evidence, Live)
        /\ UnknownSo(s, Rest(p) \ {c}, issues, evidence)
    BY <1>2, <2>5, ReasonsEarly DEF Now, Phase, UnknownSo
  <2>8. Phase(s, Rest(p) \ {c}, mem[p].known, mem[p].run, links', ifaces, defs, endpoints, paths,
              issues, evidence, Live)
    BY <1>2, <2>5, <2>6, <2>7, EarlyPhase DEF Now
  <2>9. After(p, pc[p], Rest(p) \ {c}, mem[p].known)
    BY <1>2, <2>1, <2>8 DEF After
  <2> QED  BY <1>2, <1>6, <2>9, DoneProgress
<1> QED  BY <1>1, <1>5, <1>6

LEMMA EvidenceProgress ==
  ASSUME TypeOK, NEW p \in Procs, Now(p), ReadEvidence(p)
  PROVE  Progress(p)
<1>1. PICK e \in mem[p].todo :
          /\ pc[p] \in {"lldp", "csv"} /\ mem[p].open
          /\ \/ /\ e.b = NoPort
                /\ issues' = issues \cup {NewIssue(p, "unknown_device", NoRow, e.a, NoPort)}
                /\ UNCHANGED links
             \/ e.b # NoPort /\ Upsert(p, e, Shorten(e.a), Shorten(e.b))
          /\ Done(p, e)
          /\ UNCHANGED <<inputs, ifaces, defs, endpoints, paths, served>>
  BY DEF ReadEvidence
<1> DEFINE s == pc[p]
           R == mem[p].run
           rest == Rest(p)
<1>2. /\ s \in {"lldp", "csv"} /\ s \in Loops \ Cleans /\ rest = mem[p].todo /\ e \in rest
      /\ s \in Loops
  BY <1>1, NoCleans, VisitRest
<1>3. UNCHANGED <<ifaces, defs, endpoints, paths, evidence, Live>>
  BY <1>1 DEF inputs, Live
<1>4. evidence \in SUBSET Evidence
  BY DEF TypeOK, RowsOK
<1>5. Phase(s, rest, mem[p].known, R, links, ifaces, defs, endpoints, paths, issues, evidence, Live)
  BY DEF Now
<1> HIDE DEF s, R, rest
<1>6. /\ Rank[s] >= 8
      /\ FoundIn(s, links, ifaces, defs, endpoints, evidence, Live) = {f \in evidence : f.kind = s}
  BY <1>2, RankOf, FoundIs
<1>7. e \in evidence /\ AutoSo(links, evidence, Live)
  BY <1>2, <1>5, <1>6 DEF Phase, RestSo, LinksSo
<1>8. /\ AutoSo(links', evidence, Live)
      /\ \A l \in links : Linked(Ends(l), links')
      /\ Foreign(e) => Linked(<<Shorten(e.a), Shorten(e.b)>>, links')
      /\ issues \subseteq issues'
      /\ e.b = NoPort => Issued("unknown_device", NoRow, e.a, NoPort, issues')
      /\ \A i \in issues' \ issues :
            /\ i.run = R
            /\ \/ i.code = "confirmed"
               \/ /\ i.code = "unknown_device" /\ i.def = NoRow /\ i.b = NoPort
                  /\ e.b = NoPort /\ i.a = e.a
  <2>1. CASE /\ e.b = NoPort
             /\ issues' = issues \cup {NewIssue(p, "unknown_device", NoRow, e.a, NoPort)}
             /\ UNCHANGED links
    <3>1. \A l \in links : Linked(Ends(l), links')
      BY <2>1 DEF Linked
    <3> DEFINE i == NewIssue(p, "unknown_device", NoRow, e.a, NoPort)
    <3>3. /\ i \in issues' /\ i.run = mem[p].run /\ i.code = "unknown_device" /\ i.def = NoRow
          /\ i.a = e.a /\ i.b = NoPort
      BY <2>1 DEF NewIssue
    <3>4. issues' = issues \cup {i}
      BY <2>1
    <3> HIDE DEF i
    <3>2. Issued("unknown_device", NoRow, e.a, NoPort, issues')
      BY <3>3 DEF Issued
    <3> QED  BY <1>7, <2>1, <3>1, <3>2, <3>3, <3>4 DEF Foreign, R
  <2>2. CASE e.b # NoPort /\ Upsert(p, e, Shorten(e.a), Shorten(e.b))
    <3> DEFINE a == Shorten(e.a)
               b == Shorten(e.b)
    <3>1. a[1] = e.a[1] /\ b[1] = e.b[1]
      BY DEF Shorten
    <3>2. Foreign(e) => <<a, b>> \in Due(evidence, Live)
      BY <1>7 DEF Due
    <3> HIDE DEF a, b
    <3>3. Upsert(p, e, a, b) /\ (a[1] # b[1] <=> Foreign(e))
      BY <2>2, <3>1 DEF a, b, Foreign
    <3>4. /\ AutoSo(links', evidence, Live)
          /\ \A l \in links : Linked(Ends(l), links')
          /\ a[1] # b[1] => Linked(<<a, b>>, links')
          /\ issues \subseteq issues'
          /\ \A i \in issues' \ issues : i.run = mem[p].run /\ i.code = "confirmed"
      BY <1>7, <3>2, <3>3, UpsertDoes
    <3> QED  BY <2>2, <3>3, <3>4 DEF a, b, R
  <2> QED  BY <1>1, <2>1, <2>2
<1>9. Phase(s, rest \ {e}, mem[p].known, R, links', ifaces, defs, endpoints, paths, issues',
            evidence, Live)
  BY <1>2, <1>4, <1>5, <1>8, EvidenceRow
<1>10. After(p, pc[p], Rest(p) \ {e}, mem[p].known)
  BY <1>3, <1>9 DEF After, s, R, rest
<1> QED  BY <1>1, <1>2, <1>10, DoneProgress DEF s

LEMMA SuggestProgress ==
  ASSUME TypeOK, NEW p \in Procs, Now(p), SuggestLink(p)
  PROVE  Progress(p)
<1>1. PICK l \in mem[p].todo :
          /\ pc[p] \in {"subnet", "description"} /\ mem[p].open
          /\ links' = IF LinksAt(l.a, l.b) # {} THEN links
                      ELSE links \cup {NewLink(p, 0, l.a, l.b, pc[p],
                                               IF pc[p] = "subnet" THEN l.confidence
                                                                   ELSE "medium")}
          /\ Done(p, l)
          /\ UNCHANGED <<inputs, derived, served>>
  BY DEF SuggestLink
<1> DEFINE s == pc[p]
           R == mem[p].run
           rest == Rest(p)
           confidence == IF pc[p] = "subnet" THEN l.confidence ELSE "medium"
           n == NewLink(p, 0, l.a, l.b, pc[p], confidence)
<1>2. /\ s \in {"subnet", "description"} /\ s \in Loops \ Cleans /\ rest = mem[p].todo /\ l \in rest
  BY <1>1, NoCleans, VisitRest
<1>3. UNCHANGED <<ifaces, defs, endpoints, paths, issues, evidence, Live>>
  BY <1>1 DEF inputs, derived, Live
<1>4. evidence \in SUBSET Evidence
  BY DEF TypeOK, RowsOK
<1>5. Phase(s, rest, mem[p].known, R, links, ifaces, defs, endpoints, paths, issues, evidence, Live)
  BY DEF Now
<1>6. n.method # "manual" /\ Ends(n) = Ends(l)
  BY <1>1 DEF NewLink, Ends
<1>7. links' = IF LinksAt(l.a, l.b) # {} THEN links ELSE links \cup {n}
  BY <1>1
<1> HIDE DEF s, R, rest, n, confidence
<1>8. \/ links' = links /\ \E m \in links : Ends(m) = Ends(l)
      \/ /\ \A m \in links : Ends(m) # Ends(l)
         /\ \E m : links' = links \cup {m} /\ m.method # "manual" /\ Ends(m) = Ends(l)
  <2>1. LinksAt(l.a, l.b) = {m \in links : Ends(m) = Ends(l)}
    BY DEF LinksAt, Ends
  <2>2. CASE LinksAt(l.a, l.b) = {}
    BY <1>6, <1>7, <2>1, <2>2
  <2>3. CASE LinksAt(l.a, l.b) # {}
    BY <1>7, <2>1, <2>3
  <2> QED  BY <2>2, <2>3
<1>9. Phase(s, rest \ {l}, mem[p].known, R, links', ifaces, defs, endpoints, paths, issues,
            evidence, Live)
  BY <1>2, <1>4, <1>5, <1>8, SuggestRow
<1>10. After(p, pc[p], Rest(p) \ {l}, mem[p].known)
  BY <1>3, <1>9 DEF After, s, R, rest
<1> QED  BY <1>1, <1>2, <1>10, DoneProgress DEF s

LEMMA InterfacesProgress ==
  ASSUME TypeOK, NEW p \in Procs, Now(p), BuildInterfaces(p)
  PROVE  Progress(p)
<1> DEFINE row(d, r) == [run |-> mem[p].run, port |-> <<d, r.name>>, vid |-> r.vid, mode |-> r.mode]
           new(d) == {row(d, r) : r \in Config[d]}
<1>1. PICK d \in mem[p].todo :
          /\ Visit(p, "ifaces", d)
          /\ ifaces' = ifaces \cup new(d)
          /\ Done(p, d)
          /\ UNCHANGED <<inputs, links, defs, endpoints, paths, issues, served>>
  BY DEF BuildInterfaces
<1> DEFINE R == mem[p].run
           rest == Rest(p)
<1>2. /\ pc[p] = "ifaces" /\ "ifaces" \in Loops \ Cleans /\ mem[p].open /\ d \in rest
  BY <1>1, NoCleans, VisitRest DEF Visit
<1>3. UNCHANGED <<links, defs, endpoints, paths, issues, evidence, Live>>
  BY <1>1 DEF inputs, Live
<1>4. evidence \in SUBSET Evidence
  BY DEF TypeOK, RowsOK
<1>5. Phase("ifaces", rest, mem[p].known, R, links, ifaces, defs, endpoints, paths, issues,
            evidence, Live)
  BY <1>2 DEF Now
<1>6. d \in Live
  <2>1. rest \subseteq FoundIn("ifaces", links, ifaces, defs, endpoints, evidence, Live)
    BY <1>5 DEF Phase, RestSo
  <2> QED  BY <1>2, <2>1, FoundIs
<1>7. \A r \in new(d) : r.run = R /\ <<r.port, r.vid, r.mode>> \in Rows(Live)
  BY <1>6, RowsElement
<1>8. \A c \in Config[d] : \E r \in new(d) :
         r.port = <<d, c.name>> /\ r.vid = c.vid /\ r.mode = c.mode
  <2> SUFFICES ASSUME NEW c \in Config[d]
               PROVE  \E r \in new(d) : r.port = <<d, c.name>> /\ r.vid = c.vid /\ r.mode = c.mode
    OBVIOUS
  <2>1. row(d, c) \in new(d)
    OBVIOUS
  <2> QED  BY <2>1
<1> HIDE DEF new, R, rest
<1>9. Phase("ifaces", rest \ {d}, mem[p].known, R, links, ifaces \cup new(d), defs, endpoints, paths,
            issues, evidence, Live)
  BY <1>2, <1>4, <1>5, <1>7, <1>8, IfacesRow
<1>10. After(p, pc[p], Rest(p) \ {d}, mem[p].known)
  BY <1>1, <1>2, <1>3, <1>9 DEF After, R, rest
<1> QED  BY <1>1, <1>2, <1>10, DoneProgress

LEMMA DefinitionProgress ==
  ASSUME TypeOK, NEW p \in Procs, Now(p), BuildDefinition(p)
  PROVE  Progress(p)
<1> DEFINE row(v) == [run |-> mem[p].run, vid |-> v, interfaces |-> 0, devices |-> 0]
<1>1. PICK v \in mem[p].todo :
          /\ pc[p] \in {"defs", "used"} /\ mem[p].open
          /\ \/ /\ v \in mem[p].known
                /\ Done(p, v)
                /\ UNCHANGED <<inputs, links, derived, served>>
             \/ Abort(p)
             \/ /\ \A d \in defs : d.vid # v
                /\ defs' = defs \cup {row(v)}
                /\ Continue(p, mem[p].todo \ {v}, mem[p].known \cup {v})
                /\ UNCHANGED <<inputs, links, ifaces, endpoints, paths, issues, served>>
  BY DEF BuildDefinition
<1> DEFINE s == pc[p]
           R == mem[p].run
           rest == Rest(p)
           known == mem[p].known
<1>2. /\ s \in {"defs", "used"} /\ s \in Loops \ Cleans /\ v \in rest /\ rest = mem[p].todo
  BY <1>1, NoCleans, VisitRest
<1>3. evidence \in SUBSET Evidence
  BY DEF TypeOK, RowsOK
<1>4. Phase(s, rest, known, R, links, ifaces, defs, endpoints, paths, issues, evidence, Live)
  BY DEF Now
<1>5. known = {d.vid : d \in defs}
  BY <1>2, <1>4 DEF Phase, DefsSo
<1>6. CASE Abort(p)
  BY <1>6 DEF Progress
<1>7. CASE v \in mem[p].known /\ Done(p, v) /\ UNCHANGED <<inputs, links, derived, served>>
  <2>1. HasDef(v, defs)
    BY <1>5, <1>7 DEF HasDef
  <2>2. UNCHANGED <<links, ifaces, defs, endpoints, paths, issues, evidence, Live>>
    BY <1>7 DEF inputs, derived, Live
  <2> HIDE DEF s, R, rest, known
  <2>3. Phase(s, rest \ {v}, known, R, links, ifaces, defs, endpoints, paths, issues, evidence, Live)
    BY <1>2, <1>3, <1>4, <2>1, DefsRow
  <2>4. After(p, pc[p], Rest(p) \ {v}, mem[p].known)
    BY <2>2, <2>3 DEF After, s, R, rest, known
  <2> QED  BY <1>1, <1>2, <1>7, <2>4, DoneProgress DEF s
<1>8. CASE /\ \A d \in defs : d.vid # v
           /\ defs' = defs \cup {row(v)}
           /\ Continue(p, mem[p].todo \ {v}, mem[p].known \cup {v})
           /\ UNCHANGED <<inputs, links, ifaces, endpoints, paths, issues, served>>
  <2>1. ~HasDef(v, defs) /\ row(v).run = R /\ row(v).vid = v
    BY <1>8 DEF HasDef
  <2>2. UNCHANGED <<links, ifaces, endpoints, paths, issues, evidence, Live>>
    BY <1>8 DEF inputs, Live
  <2> HIDE DEF s, R, rest, known, row
  <2>3. \E d : defs' = defs \cup {d} /\ d.run = R /\ d.vid = v
    BY <1>8, <2>1
  <2>4. Phase(s, rest \ {v}, known \cup {v}, R, links, ifaces, defs', endpoints, paths, issues,
              evidence, Live)
    BY <1>2, <1>3, <1>4, <2>1, <2>3, DefsRow
  <2>5. After(p, s, mem[p].todo \ {v}, mem[p].known \cup {v})
    BY <1>2, <2>2, <2>4 DEF After, R, rest, known
  <2> QED  BY <1>2, <1>8, <2>5 DEF Progress, s
<1> QED  BY <1>1, <1>6, <1>7, <1>8

LEMMA EndpointsProgress ==
  ASSUME TypeOK, NEW p \in Procs, Now(p), BuildEndpoints(p)
  PROVE  Progress(p)
<1> DEFINE row(d, r) == [run |-> mem[p].run, def |-> Pk(d), port |-> r.port, mode |-> r.mode]
           new(d) == {row(d, r) : r \in {x \in ifaces : x.vid = d.vid /\ x.mode # "trunk"}}
<1>1. PICK d \in mem[p].todo :
          /\ Visit(p, "endpoints", d)
          /\ \/ Abort(p)
             \/ /\ endpoints' = endpoints \cup new(d)
                /\ Done(p, d)
                /\ UNCHANGED <<inputs, links, ifaces, defs, paths, issues, served>>
  BY DEF BuildEndpoints
<1> DEFINE R == mem[p].run
           rest == Rest(p)
<1>2. /\ pc[p] = "endpoints" /\ "endpoints" \in Loops \ Cleans /\ mem[p].open /\ d \in rest
  BY <1>1, NoCleans, VisitRest DEF Visit
<1>3. evidence \in SUBSET Evidence /\ Live \in SUBSET Devices
  BY LiveDevices DEF TypeOK, RowsOK
<1>4. Phase("endpoints", rest, mem[p].known, R, links, ifaces, defs, endpoints, paths, issues,
            evidence, Live)
  BY <1>2 DEF Now
<1>5. CASE Abort(p)
  BY <1>5 DEF Progress
<1>6. CASE /\ endpoints' = endpoints \cup new(d)
           /\ Done(p, d)
           /\ UNCHANGED <<inputs, links, ifaces, defs, paths, issues, served>>
  <2>1. UNCHANGED <<links, ifaces, defs, paths, issues, evidence, Live>>
    BY <1>6 DEF inputs, Live
  <2>2. \A n \in new(d) : \E r \in ifaces :
            /\ r.vid = d.vid /\ r.mode # "trunk"
            /\ n.run = R /\ n.def = Pk(d) /\ n.port = r.port /\ n.mode = r.mode
    OBVIOUS
  <2>3. \A r \in ifaces : r.vid = d.vid /\ r.mode # "trunk" =>
            \E n \in new(d) : n.run = R /\ n.def = Pk(d) /\ n.port = r.port /\ n.mode = r.mode
    <3> SUFFICES ASSUME NEW r \in ifaces, r.vid = d.vid, r.mode # "trunk"
                 PROVE  \E n \in new(d) : n.run = R /\ n.def = Pk(d) /\ n.port = r.port /\ n.mode = r.mode
      OBVIOUS
    <3>1. row(d, r) \in new(d)
      OBVIOUS
    <3> QED  BY <3>1
  <2> HIDE DEF new, R, rest
  <2>4. Phase("endpoints", rest \ {d}, mem[p].known, R, links, ifaces, defs, endpoints \cup new(d),
              paths, issues, evidence, Live)
    BY <1>2, <1>3, <1>4, <2>2, <2>3, EndsRow
  <2>5. After(p, pc[p], Rest(p) \ {d}, mem[p].known)
    BY <1>2, <1>6, <2>1, <2>4 DEF After, R, rest
  <2> QED  BY <1>2, <1>6, <2>5, DoneProgress
<1> QED  BY <1>1, <1>5, <1>6

\* The rows of a correlation say what the configurations do.
LEMMA OnIs ==
  ASSUME NEW s \in Loops, Rank[s] >= 13, NEW rest, NEW R, NEW live,
         IfacesSo(s, rest, R, ifaces, live)
  PROVE  \A q : On(q) = CarryOf(q, live)
<1>1. /\ \A r \in ifaces : r.run = R /\ <<r.port, r.vid, r.mode>> \in Rows(live)
      /\ \A c \in Rows(live) : \E r \in ifaces : r.port = c[1] /\ r.vid = c[2] /\ r.mode = c[3]
  BY RowsKnown
<1> SUFFICES ASSUME NEW q PROVE On(q) = CarryOf(q, live)
  OBVIOUS
<1>2. ASSUME NEW v \in On(q) PROVE v \in CarryOf(q, live)
  <2>1. PICK r \in ifaces : r.port = q /\ r.vid = v
    BY DEF On
  <2> DEFINE c == <<r.port, r.vid, r.mode>>
  <2>2. c \in Rows(live) /\ c[1] = q /\ c[2] = v
    BY <1>1, <2>1
  <2> HIDE DEF c
  <2> QED  BY <2>2 DEF CarryOf
<1>3. ASSUME NEW v \in CarryOf(q, live) PROVE v \in On(q)
  <2>1. PICK c \in Rows(live) : c[1] = q /\ c[2] = v
    BY DEF CarryOf
  <2>2. PICK r \in ifaces : r.port = c[1] /\ r.vid = c[2]
    BY <1>1
  <2> QED  BY <2>1, <2>2 DEF On
<1> QED  BY <1>2, <1>3

LEMMA DefIs ==
  ASSUME NEW s \in Loops, Rank[s] >= 15, NEW rest, NEW known, NEW R, NEW live,
         DefsSo(s, rest, known, R, defs, live)
  PROVE  /\ \A d \in defs : Pk(d) = <<R, d.vid>> /\ d.vid \in Vids(live)
         /\ \A v : DefOf(v) = Known(v, R, live)
         /\ \A v \in Vids(live) : \E d \in defs : d.vid = v
<1>1. /\ \A d \in defs : d.run = R /\ d.vid \in Vids(live)
      /\ \A v \in Vids(live) : HasDef(v, defs)
  BY VidsKnown
<1>2. \A d \in defs : Pk(d) = <<R, d.vid>>
  BY <1>1 DEF Pk
<1>3. ASSUME NEW v PROVE DefOf(v) = Known(v, R, live)
  <2>1. CASE v \in Vids(live)
    <3>1. \E d \in defs : d.vid = v
      BY <1>1, <2>1 DEF HasDef
    <3> DEFINE e == CHOOSE d \in defs : d.vid = v
    <3>2. e \in defs /\ e.vid = v
      BY <3>1
    <3>3. DefOf(v) = Pk(e)
      BY <3>1 DEF DefOf
    <3> HIDE DEF e
    <3> QED  BY <1>2, <2>1, <3>2, <3>3 DEF Known
  <2>2. CASE v \notin Vids(live)
    <3>1. \A d \in defs : d.vid # v
      BY <1>1, <2>2
    <3> QED  BY <2>2, <3>1 DEF DefOf, Known
  <2> QED  BY <2>1, <2>2
<1> QED  BY <1>1, <1>2, <1>3 DEF HasDef

LEMMA PathsProgress ==
  ASSUME TypeOK, NEW p \in Procs, Now(p), BuildPaths(p)
  PROVE  Progress(p)
<1> DEFINE common(l) == On(l.a) \cap On(l.b)
           path(l, d) == [run |-> mem[p].run, def |-> Pk(d), a |-> l.a, b |-> l.b, via |-> l.pk]
           new(l) == {path(l, d) : d \in {x \in defs : x.vid \in common(l)}}
           low(l) == {NewIssue(p, "low_confidence", q.def, l.a, l.b) :
                        q \in {x \in new(l) : l.confidence = "low"}}
           lost(q, r) == {NewIssue(p, "missing", DefOf(v), q, r) : v \in On(q) \ On(r)}
<1>1. PICK l \in mem[p].todo :
          /\ Visit(p, "paths", l)
          /\ \/ Abort(p)
             \/ /\ paths' = paths \cup new(l)
                /\ issues' = issues \cup low(l) \cup lost(l.a, l.b) \cup lost(l.b, l.a)
                /\ Done(p, l)
                /\ UNCHANGED <<inputs, links, ifaces, defs, endpoints, served>>
  BY DEF BuildPaths
<1> DEFINE R == mem[p].run
           rest == Rest(p)
<1>2. /\ pc[p] = "paths" /\ "paths" \in Loops \ Cleans /\ mem[p].open /\ l \in rest
      /\ "paths" \in Loops /\ Rank["paths"] >= 13 /\ Rank["paths"] >= 15
  BY <1>1, NoCleans, VisitRest, RankOf DEF Visit
<1>3. evidence \in SUBSET Evidence
  BY DEF TypeOK, RowsOK
<1>4. Phase("paths", rest, mem[p].known, R, links, ifaces, defs, endpoints, paths, issues,
            evidence, Live)
  BY <1>2 DEF Now
<1>5. CASE Abort(p)
  BY <1>5 DEF Progress
<1>6. CASE /\ paths' = paths \cup new(l)
           /\ issues' = issues \cup low(l) \cup lost(l.a, l.b) \cup lost(l.b, l.a)
           /\ Done(p, l)
           /\ UNCHANGED <<inputs, links, ifaces, defs, endpoints, served>>
  <2>1. UNCHANGED <<links, ifaces, defs, endpoints, evidence, Live>>
    BY <1>6 DEF inputs, Live
  <2>2. \A q : On(q) = CarryOf(q, Live)
    BY <1>2, <1>4, OnIs DEF Phase
  <2>3. /\ \A d \in defs : Pk(d) = <<R, d.vid>> /\ d.vid \in Vids(Live)
        /\ \A v : DefOf(v) = Known(v, R, Live)
        /\ \A v \in Vids(Live) : \E d \in defs : d.vid = v
    BY <1>2, <1>4, DefIs DEF Phase
  <2>4. l \in links
    <3>1. rest \subseteq FoundIn("paths", links, ifaces, defs, endpoints, evidence, Live)
      BY <1>4 DEF Phase, RestSo
    <3> QED  BY <1>2, <3>1, FoundIs
  <2>5. CommonOf(l, Live) = common(l) \cap Vids(Live)
    BY <2>2 DEF CommonOf
  <2>6. ASSUME NEW q \in new(l) PROVE \E v \in CommonOf(l, Live) : IsPath(q, v, l, R)
    <3>1. PICK d \in defs : d.vid \in common(l) /\ q = path(l, d)
      OBVIOUS
    <3>2. d.vid \in CommonOf(l, Live)
      BY <2>3, <2>5, <3>1
    <3>3. IsPath(q, d.vid, l, R)
      BY <2>3, <3>1 DEF IsPath
    <3> QED  BY <3>2, <3>3
  <2>7. ASSUME NEW v \in CommonOf(l, Live) PROVE \E q \in new(l) : IsPath(q, v, l, R)
    <3>1. PICK d \in defs : d.vid = v
      BY <2>3, <2>5
    <3>2. path(l, d) \in new(l)
      BY <2>5, <3>1
    <3>3. IsPath(path(l, d), v, l, R)
      BY <2>3, <3>1 DEF IsPath
    <3> QED  BY <3>2, <3>3
  <2>8. ASSUME NEW i \in low(l)
        PROVE  /\ l.confidence = "low" /\ i.run = R /\ i.code = "low_confidence"
               /\ i.a = l.a /\ i.b = l.b
               /\ \E v \in CommonOf(l, Live) : i.def = <<R, v>>
    <3>1. PICK q \in new(l) :
              l.confidence = "low" /\ i = NewIssue(p, "low_confidence", q.def, l.a, l.b)
      OBVIOUS
    <3>2. PICK v \in CommonOf(l, Live) : IsPath(q, v, l, R)
      BY <2>6
    <3> QED  BY <3>1, <3>2 DEF NewIssue, IsPath
  <2>9. ASSUME NEW a, NEW b, NEW i \in lost(a, b)
        PROVE  /\ i.run = R /\ i.code = "missing" /\ i.a = a /\ i.b = b
               /\ \E v \in CarryOf(a, Live) \ CarryOf(b, Live) : i.def = Known(v, R, Live)
    <3>1. PICK v \in On(a) \ On(b) : i = NewIssue(p, "missing", DefOf(v), a, b)
      OBVIOUS
    <3>2. v \in CarryOf(a, Live) \ CarryOf(b, Live) /\ DefOf(v) = Known(v, R, Live)
      BY <2>2, <2>3
    <3> QED  BY <3>1, <3>2 DEF NewIssue
  <2>10. ASSUME l.confidence = "low", NEW v \in CommonOf(l, Live)
         PROVE  Issued("low_confidence", <<R, v>>, l.a, l.b, issues')
    <3>1. PICK q \in new(l) : IsPath(q, v, l, R)
      BY <2>7
    <3> DEFINE i == NewIssue(p, "low_confidence", q.def, l.a, l.b)
    <3>2. i \in low(l)
      BY <2>10
    <3>3. i.code = "low_confidence" /\ i.def = <<R, v>> /\ i.a = l.a /\ i.b = l.b
      BY <3>1 DEF NewIssue, IsPath
    <3>4. i \in issues'
      BY <1>6, <3>2
    <3> HIDE DEF i
    <3> QED  BY <3>3, <3>4 DEF Issued
  <2>11. ASSUME NEW a, NEW b, lost(a, b) \subseteq issues',
                NEW v \in CarryOf(a, Live) \ CarryOf(b, Live)
         PROVE  Issued("missing", Known(v, R, Live), a, b, issues')
    <3> DEFINE i == NewIssue(p, "missing", DefOf(v), a, b)
    <3>1. v \in On(a) \ On(b)
      BY <2>2
    <3>2. i \in lost(a, b)
      BY <3>1
    <3>3. i.code = "missing" /\ i.def = Known(v, R, Live) /\ i.a = a /\ i.b = b
      BY <2>3 DEF NewIssue
    <3> HIDE DEF i
    <3> QED  BY <2>11, <3>2, <3>3 DEF Issued
  <2> HIDE DEF new, low, lost, common, path, R, rest
  <2>12. /\ issues \subseteq issues' /\ lost(l.a, l.b) \subseteq issues'
         /\ lost(l.b, l.a) \subseteq issues'
         /\ \A i \in issues' \ issues : i \in low(l) \cup lost(l.a, l.b) \cup lost(l.b, l.a)
    BY <1>6
  <2>13. LostIssued(l, R, issues', Live)
    BY <2>10, <2>11, <2>12 DEF LostIssued
  <2>14. \A i \in issues' \ issues : Reason(i, R, links, evidence, Live)
    <3>1. ASSUME NEW i \in low(l) PROVE Reason(i, R, links, evidence, Live)
      BY <2>4, <2>8 DEF Reason
    <3>2. ASSUME NEW i \in lost(l.a, l.b) \cup lost(l.b, l.a)
          PROVE  Reason(i, R, links, evidence, Live)
      <4>1. /\ i.run = R /\ i.code = "missing"
            /\ (i.a = l.a /\ i.b = l.b) \/ (i.a = l.b /\ i.b = l.a)
            /\ \E v \in CarryOf(i.a, Live) \ CarryOf(i.b, Live) : i.def = Known(v, R, Live)
        BY <2>9
      <4> QED  BY <2>4, <4>1 DEF Reason
    <3> QED  BY <2>12, <3>1, <3>2
  <2>15. Phase("paths", rest \ {l}, mem[p].known, R, links, ifaces, defs, endpoints,
               paths \cup new(l), issues', evidence, Live)
    BY <1>2, <1>3, <1>4, <2>6, <2>7, <2>12, <2>13, <2>14, PathsRow
  <2>16. After(p, pc[p], Rest(p) \ {l}, mem[p].known)
    BY <1>2, <1>6, <2>1, <2>15 DEF After, R, rest
  <2> QED  BY <1>2, <1>6, <2>16, DoneProgress
<1> QED  BY <1>1, <1>5, <1>6

LEMMA IsolatedProgress ==
  ASSUME TypeOK, NEW p \in Procs, Now(p), IsolatedEndpoint(p)
  PROVE  Progress(p)
<1>1. PICK n \in mem[p].todo :
          /\ Visit(p, "isolated", n)
          /\ \/ Abort(p)
             \/ /\ issues' = IF \E q \in paths : q.def = n.def THEN issues
                             ELSE issues \cup {NewIssue(p, "isolated", n.def, n.port, NoPort)}
                /\ Done(p, n)
                /\ UNCHANGED <<inputs, links, ifaces, defs, endpoints, paths, served>>
  BY DEF IsolatedEndpoint
<1> DEFINE R == mem[p].run
           rest == Rest(p)
           i == NewIssue(p, "isolated", n.def, n.port, NoPort)
<1>2. /\ pc[p] = "isolated" /\ "isolated" \in Loops \ Cleans /\ mem[p].open /\ n \in rest
  BY <1>1, NoCleans, VisitRest DEF Visit
<1>3. evidence \in SUBSET Evidence
  BY DEF TypeOK, RowsOK
<1>4. Phase("isolated", rest, mem[p].known, R, links, ifaces, defs, endpoints, paths, issues,
            evidence, Live)
  BY <1>2 DEF Now
<1>5. CASE Abort(p)
  BY <1>5 DEF Progress
<1>6. CASE /\ issues' = IF \E q \in paths : q.def = n.def THEN issues ELSE issues \cup {i}
           /\ Done(p, n)
           /\ UNCHANGED <<inputs, links, ifaces, defs, endpoints, paths, served>>
  <2>1. UNCHANGED <<links, ifaces, defs, endpoints, paths, evidence, Live>>
    BY <1>6 DEF inputs, Live
  <2>2. i.run = R /\ i.code = "isolated" /\ i.def = n.def /\ i.a = n.port /\ i.b = NoPort
    BY DEF NewIssue
  <2> HIDE DEF i, R, rest
  <2>3. /\ issues \subseteq issues'
        /\ (\E q \in paths : q.def = n.def) => issues' = issues
        /\ (\A q \in paths : q.def # n.def) => Issued("isolated", n.def, n.port, NoPort, issues')
        /\ \A j \in issues' \ issues : j = i
    BY <1>6, <2>2 DEF Issued
  <2>4. Phase("isolated", rest \ {n}, mem[p].known, R, links, ifaces, defs, endpoints, paths, issues',
              evidence, Live)
    BY <1>2, <1>3, <1>4, <2>2, <2>3, IsolatedRow
  <2>5. After(p, pc[p], Rest(p) \ {n}, mem[p].known)
    BY <1>2, <2>1, <2>4 DEF After, R, rest
  <2> QED  BY <1>2, <1>6, <2>5, DoneProgress
<1> QED  BY <1>1, <1>5, <1>6

LEMMA UnusedProgress ==
  ASSUME TypeOK, NEW p \in Procs, Now(p), UnusedVlan(p)
  PROVE  Progress(p)
<1> DEFINE R == mem[p].run
           rest == Rest(p)
           unused(d) == \A r \in ifaces : r.vid # d.vid
           new(d) == NewIssue(p, "unused", Pk(d), NoPort, NoPort)
<1>1. PICK d \in mem[p].todo :
          /\ Visit(p, "unused", d)
          /\ \/ Abort(p)
             \/ /\ issues' = IF unused(d) THEN issues \cup {new(d)} ELSE issues
                /\ Done(p, d)
                /\ UNCHANGED <<inputs, links, ifaces, defs, endpoints, paths, served>>
  BY DEF UnusedVlan
<1> DEFINE i == NewIssue(p, "unused", Pk(d), NoPort, NoPort)
<1>2. /\ pc[p] = "unused" /\ "unused" \in Loops \ Cleans /\ mem[p].open /\ d \in rest
  BY <1>1, NoCleans, VisitRest DEF Visit
<1>3. evidence \in SUBSET Evidence
  BY DEF TypeOK, RowsOK
<1>4. Phase("unused", rest, mem[p].known, R, links, ifaces, defs, endpoints, paths, issues,
            evidence, Live)
  BY <1>2 DEF Now
<1>5. CASE Abort(p)
  BY <1>5 DEF Progress
<1>6. CASE /\ issues' = IF unused(d) THEN issues \cup {new(d)} ELSE issues
           /\ Done(p, d)
           /\ UNCHANGED <<inputs, links, ifaces, defs, endpoints, paths, served>>
  <2>1. UNCHANGED <<links, ifaces, defs, endpoints, paths, evidence, Live>>
    BY <1>6 DEF inputs, Live
  <2>2. i.run = R /\ i.code = "unused" /\ i.def = Pk(d) /\ i.a = NoPort /\ i.b = NoPort
    BY DEF NewIssue
  <2>3. issues' = IF \A r \in ifaces : r.vid # d.vid THEN issues \cup {i} ELSE issues
    BY <1>6
  <2> HIDE DEF i, R, rest, unused, new
  <2>4. /\ issues \subseteq issues'
        /\ (\E r \in ifaces : r.vid = d.vid) => issues' = issues
        /\ (\A r \in ifaces : r.vid # d.vid) => Issued("unused", Pk(d), NoPort, NoPort, issues')
        /\ \A j \in issues' \ issues : j = i
    BY <2>2, <2>3 DEF Issued
  <2>5. Phase("unused", rest \ {d}, mem[p].known, R, links, ifaces, defs, endpoints, paths, issues',
              evidence, Live)
    BY <1>2, <1>3, <1>4, <2>2, <2>4, UnusedRow
  <2>6. After(p, pc[p], Rest(p) \ {d}, mem[p].known)
    BY <1>2, <2>1, <2>5 DEF After, R, rest
  <2> QED  BY <1>2, <1>6, <2>6, DoneProgress
<1> QED  BY <1>1, <1>5, <1>6

LEMMA RoutedProgress ==
  ASSUME TypeOK, NEW p \in Procs, Now(p), RoutedVlan(p)
  PROVE  Progress(p)
<1> DEFINE R == mem[p].run
           rest == Rest(p)
           lost(r) == {x \in defs : x.vid = r.vid /\ \A q \in paths : q.def # Pk(x)}
           new(r) == {NewIssue(p, "routed", Pk(d), r.port, NoPort) : d \in lost(r)}
<1>1. PICK r \in mem[p].todo :
          /\ Visit(p, "routed", r)
          /\ issues' = issues \cup new(r)
          /\ Done(p, r)
          /\ UNCHANGED <<inputs, links, ifaces, defs, endpoints, paths, served>>
  BY DEF RoutedVlan
<1>2. /\ pc[p] = "routed" /\ "routed" \in Loops \ Cleans /\ mem[p].open /\ r \in rest
  BY <1>1, NoCleans, VisitRest DEF Visit
<1>3. evidence \in SUBSET Evidence /\ Live \in SUBSET Devices
  BY LiveDevices DEF TypeOK, RowsOK
<1>4. Phase("routed", rest, mem[p].known, R, links, ifaces, defs, endpoints, paths, issues,
            evidence, Live)
  BY <1>2 DEF Now
<1>5. UNCHANGED <<links, ifaces, defs, endpoints, paths, evidence, Live>>
  BY <1>1 DEF inputs, Live
<1>6. \A i \in new(r) : \E d \in defs :
          /\ d.vid = r.vid /\ \A q \in paths : q.def # Pk(d)
          /\ i.run = R /\ i.code = "routed" /\ i.def = Pk(d) /\ i.a = r.port /\ i.b = NoPort
  BY DEF NewIssue
<1>7. ASSUME NEW d \in defs, d.vid = r.vid, \A q \in paths : q.def # Pk(d)
      PROVE  Issued("routed", Pk(d), r.port, NoPort, issues')
  <2> DEFINE i == NewIssue(p, "routed", Pk(d), r.port, NoPort)
  <2>1. i \in new(r)
    BY <1>7
  <2>2. i.code = "routed" /\ i.def = Pk(d) /\ i.a = r.port /\ i.b = NoPort
    BY DEF NewIssue
  <2> HIDE DEF i
  <2> QED  BY <1>1, <2>1, <2>2 DEF Issued
<1> HIDE DEF new, R, rest
<1>8. issues \subseteq issues' /\ \A i \in issues' \ issues : i \in new(r)
  BY <1>1
<1>9. Phase("routed", rest \ {r}, mem[p].known, R, links, ifaces, defs, endpoints, paths, issues',
            evidence, Live)
  BY <1>2, <1>3, <1>4, <1>6, <1>7, <1>8, RoutedRow
<1>10. After(p, pc[p], Rest(p) \ {r}, mem[p].known)
  BY <1>2, <1>5, <1>9 DEF After, R, rest
<1> QED  BY <1>1, <1>2, <1>10, DoneProgress

LEMMA CountsProgress ==
  ASSUME TypeOK, NEW p \in Procs, Now(p), UpdateCounts(p)
  PROVE  Progress(p)
<1> DEFINE rows(d) == {r \in ifaces : r.vid = d.vid}
           count(d, x) == IF Pk(x) = Pk(d)
                          THEN [x EXCEPT !.interfaces = Cardinality(rows(d)),
                                         !.devices = Cardinality({r.port[1] : r \in rows(d)})]
                          ELSE x
<1>1. PICK d \in mem[p].todo :
          /\ Visit(p, "counts", d)
          /\ \/ Abort(p)
             \/ /\ defs' = {count(d, x) : x \in defs}
                /\ Done(p, d)
                /\ UNCHANGED <<inputs, links, ifaces, endpoints, paths, issues, served>>
  BY DEF UpdateCounts
<1> DEFINE R == mem[p].run
           rest == Rest(p)
           g == [x \in defs |-> count(d, x)]
<1>2. /\ pc[p] = "counts" /\ "counts" \in Loops \ Cleans /\ mem[p].open /\ d \in rest
  BY <1>1, NoCleans, VisitRest DEF Visit
<1>3. /\ evidence \in SUBSET Evidence /\ ifaces \in SUBSET Interface /\ IsFiniteSet(ifaces)
      /\ defs \subseteq Definition
  BY DEF TypeOK, RowsOK
<1>4. Phase("counts", rest, mem[p].known, R, links, ifaces, defs, endpoints, paths, issues,
            evidence, Live)
  BY <1>2 DEF Now
<1>5. CASE Abort(p)
  BY <1>5 DEF Progress
<1>6. CASE /\ defs' = {count(d, x) : x \in defs}
           /\ Done(p, d)
           /\ UNCHANGED <<inputs, links, ifaces, endpoints, paths, issues, served>>
  <2>1. UNCHANGED <<links, ifaces, endpoints, paths, issues, evidence, Live>>
    BY <1>6 DEF inputs, Live
  <2>2. ASSUME NEW y \in defs
        PROVE  /\ g[y].run = y.run /\ g[y].vid = y.vid
               /\ Pk(y) # Pk(d) => g[y] = y
               /\ Pk(y) = Pk(d) => /\ g[y].interfaces = Cardinality(rows(d))
                                   /\ g[y].devices = Cardinality({r.port[1] : r \in rows(d)})
    <3> DEFINE m == Cardinality(rows(d))
               n == Cardinality({r.port[1] : r \in rows(d)})
    <3>1. y \in Definition
      BY <1>3
    <3>2. g[y] = IF Pk(y) = Pk(d) THEN [y EXCEPT !.interfaces = m, !.devices = n] ELSE y
      OBVIOUS
    <3> HIDE DEF g, m, n
    <3>3. /\ g[y].run = y.run /\ g[y].vid = y.vid
          /\ Pk(y) # Pk(d) => g[y] = y
          /\ Pk(y) = Pk(d) => g[y].interfaces = m /\ g[y].devices = n
      BY <3>1, <3>2 DEF Definition
    <3> QED  BY <3>3 DEF m, n
  <2>3. \A y \in defs : g[y] = count(d, y)
    OBVIOUS
  <2> HIDE DEF g, count
  <2>4. defs' = {g[y] : y \in defs}
    BY <1>6, <2>3
  <2>5. \A y \in defs : Pk(y) = Pk(d) =>
            g[y].interfaces = RowCount(d.vid, ifaces) /\ g[y].devices = DeviceCount(d.vid, ifaces)
    BY <2>2 DEF RowCount, DeviceCount
  <2>6. \A y \in defs : /\ g[y].run = y.run /\ g[y].vid = y.vid
                        /\ Pk(y) # Pk(d) => g[y] = y
    BY <2>2
  <2> HIDE DEF rows, R, rest
  <2>7. Phase("counts", rest \ {d}, mem[p].known, R, links, ifaces, defs', endpoints, paths, issues,
              evidence, Live)
    BY <1>2, <1>3, <1>4, <2>4, <2>5, <2>6, CountsRow
  <2>8. After(p, pc[p], Rest(p) \ {d}, mem[p].known)
    BY <1>2, <2>1, <2>7 DEF After, R, rest
  <2> QED  BY <1>2, <1>6, <2>8, DoneProgress
<1> QED  BY <1>1, <1>5, <1>6

LEMMA StepProgress ==
  ASSUME TypeOK, NEW p \in Procs, Now(p), Step(p)
  PROVE  Progress(p)
BY CleanProgress, QueryProgress, NormalizeProgress, EvidenceProgress, SuggestProgress,
   InterfacesProgress, DefinitionProgress, EndpointsProgress, PathsProgress, IsolatedProgress,
   UnusedProgress, RoutedProgress, CountsProgress DEF Step

-----------------------------------------------------------------------------
(* What the last loop leaves, in the words of SettledSession.              *)

LEMMA RowIs ==
  ASSUME NEW R, NEW v
  PROVE  <<R, v>> # NoRow /\ VidOf(<<R, v>>) = v /\ VidOf(NoRow) = 0
<1>1. <<R, v>> # <<>>
  OBVIOUS
<1> QED  BY <1>1 DEF NoRow, VidOf

LEMMA KnownIs ==
  ASSUME NEW v, NEW R
  PROVE  VidOf(Known(v, R, Live)) = IF v \in Vids(Live) THEN v ELSE 0
  BY RowIs DEF Known

LEMMA CarriedIs ==
  /\ \A c \in Rows(Live) : <<c[1], c[2]>> \in Carried
  /\ \A x \in Carried : \E c \in Rows(Live) : x = <<c[1], c[2]>>
<1>1. ASSUME NEW c \in Rows(Live) PROVE <<c[1], c[2]>> \in Carried
  <2>1. PICK d \in Live : \E r \in Config[d] : c = <<<<d, r.name>>, r.vid, r.mode>>
    BY RowsElement
  <2>2. PICK r \in Config[d] : c = <<<<d, r.name>>, r.vid, r.mode>>
    BY <2>1
  <2>3. <<c[1], c[2]>> = <<<<d, r.name>>, r.vid>>
    BY <2>2
  <2> QED  BY <2>3 DEF Carried
<1>2. ASSUME NEW x \in Carried PROVE \E c \in Rows(Live) : x = <<c[1], c[2]>>
  <2>1. PICK d \in Live : x \in {<<<<d, r.name>>, r.vid>> : r \in Config[d]}
    BY DEF Carried
  <2>2. PICK r \in Config[d] : x = <<<<d, r.name>>, r.vid>>
    BY <2>1
  <2> DEFINE c == <<<<d, r.name>>, r.vid, r.mode>>
  <2>3. c \in Rows(Live) /\ x = <<c[1], c[2]>>
    BY <2>2, RowsElement
  <2> HIDE DEF c
  <2> QED  BY <2>3
<1> QED  BY <1>1, <1>2

LEMMA CarryIs == \A q : Carry(q) = CarryOf(q, Live)
<1> SUFFICES ASSUME NEW q PROVE Carry(q) = CarryOf(q, Live)
  OBVIOUS
<1>1. ASSUME NEW v \in Carry(q) PROVE v \in CarryOf(q, Live)
  <2>1. PICK x \in Carried : x[1] = q /\ x[2] = v
    BY DEF Carry
  <2>2. PICK c \in Rows(Live) : x = <<c[1], c[2]>>
    BY CarriedIs
  <2>3. c[1] = q /\ c[2] = v
    BY <2>1, <2>2
  <2> QED  BY <2>3 DEF CarryOf
<1>2. ASSUME NEW v \in CarryOf(q, Live) PROVE v \in Carry(q)
  <2>1. PICK c \in Rows(Live) : c[1] = q /\ c[2] = v
    BY DEF CarryOf
  <2> DEFINE x == <<c[1], c[2]>>
  <2>2. x \in Carried /\ x[1] = q /\ x[2] = v
    BY <2>1, CarriedIs
  <2> HIDE DEF x
  <2> QED  BY <2>2 DEF Carry
<1> QED  BY <1>1, <1>2

LEMMA VidsIs ==
  /\ ConfigRows = Rows(Live) /\ ExpectedVids = Vids(Live)
  /\ \A l : Common(l) = CommonOf(l, Live)
  /\ \A v : Joined(v) <=> Bridged(v, links, Live)
  /\ \A v : (\A c \in Carried : c[2] # v) <=> (\A c \in Rows(Live) : c[2] # v)
<1>1. ConfigRows = Rows(Live)
  BY DEF ConfigRows, Rows
<1>2. ASSUME NEW c \in Rows(Live) PROVE \E x \in Carried : x[1] = c[1] /\ x[2] = c[2]
  <2> DEFINE x == <<c[1], c[2]>>
  <2>1. x \in Carried /\ x[1] = c[1] /\ x[2] = c[2]
    BY CarriedIs
  <2> HIDE DEF x
  <2> QED  BY <2>1
<1>3. ASSUME NEW x \in Carried PROVE \E c \in Rows(Live) : x[1] = c[1] /\ x[2] = c[2]
  <2>1. PICK c \in Rows(Live) : x = <<c[1], c[2]>>
    BY CarriedIs
  <2>2. x[1] = c[1] /\ x[2] = c[2]
    BY <2>1
  <2> QED  BY <2>2
<1>4. {c[2] : c \in Carried} = {c[2] : c \in Rows(Live)}
  BY <1>2, <1>3
<1>5. ExpectedVids = Vids(Live)
  BY <1>4 DEF ExpectedVids, Vids
<1>6. \A l : Common(l) = CommonOf(l, Live)
  BY <1>5, CarryIs DEF Common, CommonOf
<1>7. \A v : Joined(v) <=> Bridged(v, links, Live)
  BY <1>6 DEF Joined, Bridged
<1>8. \A v : (\A c \in Carried : c[2] # v) <=> (\A c \in Rows(Live) : c[2] # v)
  BY <1>2, <1>3
<1> QED  BY <1>1, <1>5, <1>6, <1>7, <1>8

LEMMA CarriedDevices ==
  ASSUME NEW v
  PROVE  {c[1][1] : c \in {x \in Carried : x[2] = v}}
         = {c[1][1] : c \in {x \in Rows(Live) : x[2] = v}}
<1>1. ASSUME NEW c \in Rows(Live) PROVE \E x \in Carried : x[1] = c[1] /\ x[2] = c[2]
  <2> DEFINE x == <<c[1], c[2]>>
  <2>1. x \in Carried /\ x[1] = c[1] /\ x[2] = c[2]
    BY CarriedIs
  <2> HIDE DEF x
  <2> QED  BY <2>1
<1>2. ASSUME NEW x \in Carried PROVE \E c \in Rows(Live) : x[1] = c[1] /\ x[2] = c[2]
  <2>1. PICK c \in Rows(Live) : x = <<c[1], c[2]>>
    BY CarriedIs
  <2>2. x[1] = c[1] /\ x[2] = c[2]
    BY <2>1
  <2> QED  BY <2>2
<1> QED  BY <1>1, <1>2

LEMMA DueIs == Justified = Due(evidence, Live)
<1> DEFINE told == {<<Shorten(e.a), Shorten(e.b)>> : e \in {x \in evidence : Foreign(x)}}
<1>1. \A q : Shorten(q)[1] = q[1]
  BY DEF Shorten
<1>2. ASSUME NEW y \in {x \in Reported : x[1][1] # x[2][1]} PROVE y \in told
  <2>1. PICK e \in evidence : e.b # NoPort /\ y = <<Shorten(e.a), Shorten(e.b)>>
    BY DEF Reported
  <2>2. y[1] = Shorten(e.a) /\ y[2] = Shorten(e.b)
    BY <2>1
  <2>3. Foreign(e)
    BY <1>1, <2>1, <2>2 DEF Foreign
  <2> QED  BY <2>1, <2>3
<1>3. ASSUME NEW y \in told PROVE y \in {x \in Reported : x[1][1] # x[2][1]}
  <2>1. PICK e \in evidence : Foreign(e) /\ y = <<Shorten(e.a), Shorten(e.b)>>
    OBVIOUS
  <2>2. y[1][1] = e.a[1] /\ y[2][1] = e.b[1]
    BY <1>1, <2>1
  <2>3. e.b # NoPort /\ e.a[1] # e.b[1]
    BY <2>1 DEF Foreign
  <2>4. y \in Reported
    BY <2>1, <2>3 DEF Reported
  <2> QED  BY <2>2, <2>3, <2>4
<1> HIDE DEF told
<1>4. {x \in Reported : x[1][1] # x[2][1]} = told
  BY <1>2, <1>3
<1>5. /\ {x \in Adjacent : {x.a[1], x.b[1]} \subseteq Live} = Suggested(Live)
      /\ {x \in Described : x.a[1] \in Live} = Told(Live)
  BY DEF Suggested, Told
<1>6. Due(evidence, Live) = told \cup {Ends(l) : l \in Suggested(Live)} \cup {Ends(l) : l \in Told(Live)}
  BY DEF Due, told
<1> QED  BY <1>4, <1>5, <1>6 DEF Justified

LEMMA CountsLast ==
  /\ "counts" \in Loops /\ Rank["counts"] = 20
  /\ \A loop \in Loops \ {"counts"} : \A i : Past(loop, i, "counts", {})
  BY LoopNames, RankOf DEF Past

LEMMA SettledLinks ==
  ASSUME TypeOK, NEW R, Final(R)
  PROVE  {Ends(l) : l \in links \ Manual} = Justified \ {Ends(l) : l \in Manual}
<1>1. /\ AutoSo(links, evidence, Live)
      /\ \A e \in evidence : Foreign(e) /\ Past(e.kind, e, "counts", {}) =>
            Linked(<<Shorten(e.a), Shorten(e.b)>>, links)
      /\ \A l \in Suggested(Live) : Past("subnet", l, "counts", {}) => Linked(Ends(l), links)
      /\ \A l \in Told(Live) : Past("description", l, "counts", {}) => Linked(Ends(l), links)
  BY CountsLast DEF Final, Phase, LinksSo
<1>2. \A e \in evidence : e.kind \in Loops \ {"counts"}
  <2>1. \A e \in evidence : e.kind \in {"lldp", "csv"}
    BY DEF TypeOK, RowsOK, Evidence
  <2> QED  BY <2>1, LoopNames
<1>3. \A y \in Due(evidence, Live) : Linked(y, links)
  <2>1. \A e \in evidence : Foreign(e) => Linked(<<Shorten(e.a), Shorten(e.b)>>, links)
    BY <1>1, <1>2, CountsLast
  <2>2. \A l \in Suggested(Live) \cup Told(Live) : Linked(Ends(l), links)
    BY <1>1, LoopNames, CountsLast
  <2> QED  BY <2>1, <2>2 DEF Due
<1>4. Manual = {l \in links : l.method = "manual"}
  BY DEF Manual
<1>5. ASSUME NEW l \in links \ Manual
      PROVE  Ends(l) \in Justified \ {Ends(m) : m \in Manual}
  BY <1>1, <1>4, DueIs DEF AutoSo
<1>6. ASSUME NEW y \in Justified \ {Ends(m) : m \in Manual}
      PROVE  \E l \in links \ Manual : Ends(l) = y
  <2>1. PICK l \in links : Ends(l) = y
    BY <1>3, DueIs DEF Linked
  <2> QED  BY <2>1
<1> QED  BY <1>5, <1>6

LEMMA SettledIfaces ==
  ASSUME TypeOK, NEW R, Final(R)
  PROVE  /\ {<<r.port, r.vid, r.mode>> : r \in ifaces} = ConfigRows
         /\ Cardinality(ifaces) = Cardinality(ConfigRows)
<1>1. /\ \A r \in ifaces : r.run = R /\ <<r.port, r.vid, r.mode>> \in Rows(Live)
      /\ \A c \in Rows(Live) : \E r \in ifaces : r.port = c[1] /\ r.vid = c[2] /\ r.mode = c[3]
  BY CountsLast, RowsKnown DEF Final, Phase
<1>2. \A c \in Rows(Live) : c = <<c[1], c[2], c[3]>>
  BY RowsElement
<1>3. {<<r.port, r.vid, r.mode>> : r \in ifaces} = ConfigRows
  BY <1>1, <1>2, VidsIs
<1>4. Cardinality({Row(r) : r \in ifaces}) = Cardinality(ifaces)
  BY <1>1, CountRows DEF TypeOK, RowsOK
<1>5. {Row(r) : r \in ifaces} = ConfigRows
  BY <1>3 DEF Row
<1> QED  BY <1>3, <1>4, <1>5

LEMMA SettledDefs ==
  ASSUME TypeOK, IsFiniteSet(defs), NEW R, Final(R)
  PROVE  /\ {d.vid : d \in defs} = ExpectedVids
         /\ Cardinality(defs) = Cardinality(ExpectedVids)
         /\ \A d \in defs :
              /\ d.interfaces = Cardinality({c \in ConfigRows : c[2] = d.vid})
              /\ d.devices = Cardinality({c[1][1] : c \in {x \in Carried : x[2] = d.vid}})
<1>1. /\ \A d \in defs : d.run = R /\ d.vid \in Vids(Live)
      /\ \A d, e \in defs : d.vid = e.vid => d = e
      /\ \A v \in Vids(Live) : HasDef(v, defs)
  BY CountsLast, VidsKnown DEF Final, Phase
<1> DEFINE V == {d.vid : d \in defs}
           f == [d \in defs |-> d.vid]
<1>2. V = ExpectedVids
  BY <1>1, VidsIs DEF HasDef
<1>3. f \in Surjection(defs, V)
  BY DEF Surjection
<1>4. f \in Injection(defs, V)
  BY <1>1 DEF Injection, IsInjective
<1> HIDE DEF f, V
<1>5. Cardinality(defs) = Cardinality(V)
  BY <1>3, <1>4, FS_Surjection
<1>6. \A d \in defs : Counted(d, Live)
  BY CountsLast DEF Final, Phase, DefsSo
<1>7. \A d \in defs :
         /\ d.interfaces = Cardinality({c \in ConfigRows : c[2] = d.vid})
         /\ d.devices = Cardinality({c[1][1] : c \in {x \in Carried : x[2] = d.vid}})
  <2> SUFFICES ASSUME NEW d \in defs
               PROVE  /\ d.interfaces = Cardinality({c \in ConfigRows : c[2] = d.vid})
                      /\ d.devices = Cardinality({c[1][1] : c \in {x \in Carried : x[2] = d.vid}})
    OBVIOUS
  <2>1. {c \in ConfigRows : c[2] = d.vid} = {c \in Rows(Live) : c[2] = d.vid}
    BY VidsIs
  <2>2. {c[1][1] : c \in {x \in Carried : x[2] = d.vid}}
        = {c[1][1] : c \in {x \in Rows(Live) : x[2] = d.vid}}
    BY CarriedDevices
  <2>3. Counted(d, Live)
    BY <1>6
  <2> QED  BY <2>1, <2>2, <2>3 DEF Counted
<1> QED  BY <1>2, <1>5, <1>7 DEF V

LEMMA SettledEnds ==
  ASSUME TypeOK, NEW R, Final(R)
  PROVE  /\ {<<n.port, VidOf(n.def), n.mode>> : n \in endpoints} =
               {c \in ConfigRows : c[2] # 0 /\ c[3] # "trunk"}
         /\ \A n \in endpoints : n.run = R
<1>1. /\ \A n \in endpoints : \E c \in Edges(Live) : IsEnd(n, c, R)
      /\ \A c \in Edges(Live) : \E n \in endpoints : IsEnd(n, c, R)
  BY CountsLast DEF Final, Phase, EndsSo
<1>2. Edges(Live) = {c \in ConfigRows : c[2] # 0 /\ c[3] # "trunk"}
  BY VidsIs DEF Edges
<1>3. \A c \in Edges(Live) : c = <<c[1], c[2], c[3]>>
  BY RowsElement DEF Edges
<1>4. \A n, c : IsEnd(n, c, R) => n.run = R /\ n.port = c[1] /\ VidOf(n.def) = c[2] /\ n.mode = c[3]
  BY RowIs DEF IsEnd
<1>5. {<<n.port, VidOf(n.def), n.mode>> : n \in endpoints} = Edges(Live)
  <2>1. ASSUME NEW n \in endpoints PROVE <<n.port, VidOf(n.def), n.mode>> \in Edges(Live)
    <3>1. PICK c \in Edges(Live) : IsEnd(n, c, R)
      BY <1>1
    <3>2. <<n.port, VidOf(n.def), n.mode>> = c
      BY <1>3, <1>4, <3>1
    <3> QED  BY <3>2
  <2>2. ASSUME NEW c \in Edges(Live)
        PROVE  \E n \in endpoints : <<n.port, VidOf(n.def), n.mode>> = c
    <3>1. PICK n \in endpoints : IsEnd(n, c, R)
      BY <1>1
    <3>2. <<n.port, VidOf(n.def), n.mode>> = c
      BY <1>3, <1>4, <3>1
    <3> QED  BY <3>2
  <2> QED  BY <2>1, <2>2
<1>6. \A n \in endpoints : n.run = R
  BY <1>1, <1>4
<1> QED  BY <1>2, <1>5, <1>6

LEMMA SettledPaths ==
  ASSUME TypeOK, NEW R, Final(R)
  PROVE  /\ {<<VidOf(q.def), q.via>> : q \in paths} =
               UNION {{<<v, l.pk>> : v \in Common(l)} : l \in links}
         /\ \A q \in paths : q.run = R
<1>1. /\ \A q \in paths : \E l \in links : \E v \in CommonOf(l, Live) : IsPath(q, v, l, R)
      /\ \A l \in links : \A v \in CommonOf(l, Live) : \E q \in paths : IsPath(q, v, l, R)
  BY LoopNames, CountsLast DEF Final, Phase, PathsSo
<1>2. \A q, v, l : IsPath(q, v, l, R) => q.run = R /\ VidOf(q.def) = v /\ q.via = l.pk
  BY RowIs DEF IsPath
<1>3. ASSUME NEW q \in paths
      PROVE  \E l \in links : \E v \in Common(l) : <<VidOf(q.def), q.via>> = <<v, l.pk>>
  BY <1>1, <1>2, VidsIs
<1>4. ASSUME NEW l \in links, NEW v \in Common(l)
      PROVE  \E q \in paths : <<VidOf(q.def), q.via>> = <<v, l.pk>>
  BY <1>1, <1>2, VidsIs
<1>5. {<<VidOf(q.def), q.via>> : q \in paths} =
         UNION {{<<v, l.pk>> : v \in Common(l)} : l \in links}
  BY <1>3, <1>4
<1> QED  BY <1>1, <1>2, <1>5

LEMMA AtIs ==
  ASSUME NEW code
  PROVE  /\ \A x \in At(code) : \E i \in issues :
               i.code = code /\ x = <<VidOf(i.def), i.a, i.b>>
         /\ \A k, a, b : Issued(code, k, a, b, issues) => <<VidOf(k), a, b>> \in At(code)
  BY DEF At, Issued

LEMMA FinalReasons ==
  ASSUME NEW R, Final(R)
  PROVE  \A i \in issues : Reason(i, R, links, evidence, Live)
  BY CountsLast DEF Final, Phase, ReasonsSo

LEMMA FinalLost ==
  ASSUME NEW R, Final(R)
  PROVE  \A l \in links : LostIssued(l, R, issues, Live)
<1>1. \A l \in links : Past("paths", l, "counts", {})
  BY CountsLast, LoopNames
<1> QED  BY <1>1 DEF Final, Phase, LostSo, LostIssued

LEMMA FinalAlone ==
  ASSUME NEW R, Final(R)
  PROVE  /\ \A c \in Edges(Live) : ~Bridged(c[2], links, Live) =>
               Issued("isolated", <<R, c[2]>>, c[1], NoPort, issues)
         /\ \A v \in Idles(Live) : Issued("unused", <<R, v>>, NoPort, NoPort, issues)
         /\ \A c \in Routes(Live) : ~Bridged(c[2], links, Live) =>
               Issued("routed", <<R, c[2]>>, c[1], NoPort, issues)
  BY CountsLast DEF Final, Phase, AloneSo

LEMMA SettledLow ==
  ASSUME TypeOK, NEW R, Final(R)
  PROVE  At("low_confidence") =
            UNION {{<<v, l.a, l.b>> : v \in Common(l)} : l \in {x \in links : x.confidence = "low"}}
<1>1. ASSUME NEW y \in At("low_confidence")
      PROVE  \E l \in {x \in links : x.confidence = "low"} : \E v \in Common(l) : y = <<v, l.a, l.b>>
  <2>1. PICK i \in issues : i.code = "low_confidence" /\ y = <<VidOf(i.def), i.a, i.b>>
    BY AtIs
  <2>2. PICK l \in links : /\ l.confidence = "low" /\ i.a = l.a /\ i.b = l.b
                           /\ \E v \in CommonOf(l, Live) : i.def = <<R, v>>
    BY <2>1, FinalReasons DEF Reason
  <2>3. PICK v \in CommonOf(l, Live) : i.def = <<R, v>>
    BY <2>2
  <2>4. v \in Common(l) /\ VidOf(i.def) = v
    BY <2>3, VidsIs, RowIs
  <2> QED  BY <2>1, <2>2, <2>4
<1>2. ASSUME NEW l \in {x \in links : x.confidence = "low"}, NEW v \in Common(l)
      PROVE  <<v, l.a, l.b>> \in At("low_confidence")
  <2>1. Issued("low_confidence", <<R, v>>, l.a, l.b, issues)
    BY FinalLost, VidsIs DEF LostIssued
  <2>2. <<VidOf(<<R, v>>), l.a, l.b>> \in At("low_confidence")
    BY <2>1, AtIs
  <2> QED  BY <2>2, RowIs
<1> QED  BY <1>1, <1>2

LEMMA LostIs ==
  ASSUME NEW a, NEW b, NEW R
  PROVE  Lost(a, b) = {<<VidOf(Known(v, R, Live)), a, b>> : v \in CarryOf(a, Live) \ CarryOf(b, Live)}
  BY KnownIs, VidsIs, CarryIs DEF Lost

LEMMA SettledMissing ==
  ASSUME TypeOK, NEW R, Final(R)
  PROVE  At("missing") = UNION {Lost(l.a, l.b) \cup Lost(l.b, l.a) : l \in links}
<1>1. ASSUME NEW y \in At("missing")
      PROVE  \E l \in links : y \in Lost(l.a, l.b) \cup Lost(l.b, l.a)
  <2>1. PICK i \in issues : i.code = "missing" /\ y = <<VidOf(i.def), i.a, i.b>>
    BY AtIs
  <2>2. /\ \E l \in links : (i.a = l.a /\ i.b = l.b) \/ (i.a = l.b /\ i.b = l.a)
        /\ \E v \in CarryOf(i.a, Live) \ CarryOf(i.b, Live) : i.def = Known(v, R, Live)
    BY <2>1, FinalReasons DEF Reason
  <2>3. y \in Lost(i.a, i.b)
    BY <2>1, <2>2, LostIs
  <2> QED  BY <2>2, <2>3
<1>2. ASSUME NEW a, NEW b, NEW y \in Lost(a, b),
             \A v \in CarryOf(a, Live) \ CarryOf(b, Live) :
                Issued("missing", Known(v, R, Live), a, b, issues)
      PROVE  y \in At("missing")
  <2>1. PICK v \in CarryOf(a, Live) \ CarryOf(b, Live) : y = <<VidOf(Known(v, R, Live)), a, b>>
    BY LostIs
  <2> QED  BY <1>2, <2>1, AtIs
<1>3. ASSUME NEW l \in links, NEW y \in Lost(l.a, l.b) \cup Lost(l.b, l.a)
      PROVE  y \in At("missing")
  BY <1>2, FinalLost DEF LostIssued
<1> QED  BY <1>1, <1>3

LEMMA SettledIsolated ==
  ASSUME TypeOK, NEW R, Final(R)
  PROVE  At("isolated") = {<<c[2], c[1], NoPort>> :
            c \in {x \in ConfigRows : x[2] # 0 /\ x[3] # "trunk" /\ ~Joined(x[2])}}
<1>1. \A c : c \in Edges(Live) /\ ~Bridged(c[2], links, Live)
             <=> c \in {x \in ConfigRows : x[2] # 0 /\ x[3] # "trunk" /\ ~Joined(x[2])}
  BY VidsIs DEF Edges
<1>2. ASSUME NEW y \in At("isolated")
      PROVE  \E c \in Edges(Live) : ~Bridged(c[2], links, Live) /\ y = <<c[2], c[1], NoPort>>
  <2>1. PICK i \in issues : i.code = "isolated" /\ y = <<VidOf(i.def), i.a, i.b>>
    BY AtIs
  <2>2. PICK c \in Edges(Live) : /\ ~Bridged(c[2], links, Live)
                                 /\ i.def = <<R, c[2]>> /\ i.a = c[1] /\ i.b = NoPort
    BY <2>1, FinalReasons DEF Reason
  <2> QED  BY <2>1, <2>2, RowIs
<1>3. ASSUME NEW c \in Edges(Live), ~Bridged(c[2], links, Live)
      PROVE  <<c[2], c[1], NoPort>> \in At("isolated")
  <2>1. Issued("isolated", <<R, c[2]>>, c[1], NoPort, issues)
    BY <1>3, FinalAlone
  <2>2. <<VidOf(<<R, c[2]>>), c[1], NoPort>> \in At("isolated")
    BY <2>1, AtIs
  <2> QED  BY <2>2, RowIs
<1> QED  BY <1>1, <1>2, <1>3

LEMMA SettledRouted ==
  ASSUME TypeOK, NEW R, Final(R)
  PROVE  At("routed") = {<<c[2], c[1], NoPort>> :
            c \in {x \in ConfigRows : x[2] # 0 /\ x[3] = "subinterface" /\ ~Joined(x[2])}}
<1>1. \A c : c \in Routes(Live) /\ ~Bridged(c[2], links, Live)
             <=> c \in {x \in ConfigRows : x[2] # 0 /\ x[3] = "subinterface" /\ ~Joined(x[2])}
  BY VidsIs DEF Routes
<1>2. ASSUME NEW y \in At("routed")
      PROVE  \E c \in Routes(Live) : ~Bridged(c[2], links, Live) /\ y = <<c[2], c[1], NoPort>>
  <2>1. PICK i \in issues : i.code = "routed" /\ y = <<VidOf(i.def), i.a, i.b>>
    BY AtIs
  <2>2. PICK c \in Routes(Live) : /\ ~Bridged(c[2], links, Live)
                                  /\ i.def = <<R, c[2]>> /\ i.a = c[1] /\ i.b = NoPort
    BY <2>1, FinalReasons DEF Reason
  <2> QED  BY <2>1, <2>2, RowIs
<1>3. ASSUME NEW c \in Routes(Live), ~Bridged(c[2], links, Live)
      PROVE  <<c[2], c[1], NoPort>> \in At("routed")
  <2>1. Issued("routed", <<R, c[2]>>, c[1], NoPort, issues)
    BY <1>3, FinalAlone
  <2>2. <<VidOf(<<R, c[2]>>), c[1], NoPort>> \in At("routed")
    BY <2>1, AtIs
  <2> QED  BY <2>2, RowIs
<1> QED  BY <1>1, <1>2, <1>3

LEMMA SettledUnused ==
  ASSUME TypeOK, NEW R, Final(R)
  PROVE  At("unused") = {<<v, NoPort, NoPort>> :
            v \in {x \in ExpectedVids : \A c \in Carried : c[2] # x}}
<1>1. {x \in ExpectedVids : \A c \in Carried : c[2] # x} = Idles(Live)
  BY VidsIs DEF Idles
<1>2. ASSUME NEW y \in At("unused")
      PROVE  \E v \in Idles(Live) : y = <<v, NoPort, NoPort>>
  <2>1. PICK i \in issues : i.code = "unused" /\ y = <<VidOf(i.def), i.a, i.b>>
    BY AtIs
  <2>2. PICK v \in Idles(Live) : i.def = <<R, v>> /\ i.a = NoPort /\ i.b = NoPort
    BY <2>1, FinalReasons DEF Reason
  <2> QED  BY <2>1, <2>2, RowIs
<1>3. ASSUME NEW v \in Idles(Live) PROVE <<v, NoPort, NoPort>> \in At("unused")
  <2>1. <<VidOf(<<R, v>>), NoPort, NoPort>> \in At("unused")
    BY FinalAlone, AtIs
  <2> QED  BY <2>1, RowIs
<1> QED  BY <1>1, <1>2, <1>3

LEMMA SettledUnknown ==
  ASSUME TypeOK, NEW R, Final(R)
  PROVE  At("unknown_device") = {<<0, e.a, NoPort>> : e \in {x \in evidence : x.b = NoPort}}
<1>1. ASSUME NEW y \in At("unknown_device")
      PROVE  \E e \in evidence : e.b = NoPort /\ y = <<0, e.a, NoPort>>
  <2>1. PICK i \in issues : i.code = "unknown_device" /\ y = <<VidOf(i.def), i.a, i.b>>
    BY AtIs
  <2>2. i.def = NoRow /\ i.b = NoPort /\ \E e \in evidence : e.b = NoPort /\ i.a = e.a
    BY <2>1, FinalReasons DEF Reason
  <2> QED  BY <2>1, <2>2, RowIs
<1>2. ASSUME NEW e \in evidence, e.b = NoPort PROVE <<0, e.a, NoPort>> \in At("unknown_device")
  <2>1. e.kind \in {"lldp", "csv"}
    BY DEF TypeOK, RowsOK, Evidence
  <2>2. Past(e.kind, e, "counts", {})
    BY <2>1, CountsLast, LoopNames
  <2>3. Issued("unknown_device", NoRow, e.a, NoPort, issues)
    BY <1>2, <2>2, CountsLast DEF Final, Phase, UnknownSo
  <2>4. <<VidOf(NoRow), e.a, NoPort>> \in At("unknown_device")
    BY <2>3, AtIs
  <2> QED  BY <2>4, RowIs
<1> QED  BY <1>1, <1>2

LEMMA FinalSettles ==
  ASSUME TypeOK, IsFiniteSet(defs), NEW R, Final(R)
  PROVE  SettledSession
<1>1. \A i \in issues : i.run = R
  BY FinalReasons DEF Reason
<1>2. \A x, y \in issues \cup endpoints \cup paths : x.run = y.run
  BY <1>1, SettledEnds, SettledPaths
<1> QED
  BY <1>2, SettledLinks, SettledIfaces, SettledDefs, SettledEnds, SettledPaths, SettledLow,
     SettledMissing, SettledIsolated, SettledRouted, SettledUnused, SettledUnknown
  DEF SettledSession

-----------------------------------------------------------------------------
(* How a step of a process leaves the processes and what they know.        *)

\* A request fails, goes on in its loop or goes on to the next.
Moves(p) == Abort(p) \/ (pc[p] \in Loops /\ \E todo, known : Continue(p, todo, known))

LEMMA AdvanceMoves ==
  ASSUME NEW p, NEW known, pc[p] \in Loops, Advance(p, known)
  PROVE  Moves(p)
<1>1. Continue(p, {}, known)
  BY DEF Continue
<1> QED  BY <1>1 DEF Moves

LEMMA DoneMoves ==
  ASSUME NEW p, NEW x, pc[p] \in Loops, Done(p, x)
  PROVE  Moves(p)
  BY DEF Done, Moves

LEMMA StepMoves ==
  ASSUME TypeOK, NEW p \in Procs, Step(p)
  PROVE  Moves(p)
<1>1. CASE CleanDefinitions(p) \/ CleanRows(p) \/ CleanLinks(p)
  <2>1. pc[p] \in Loops /\ Advance(p, {})
    BY <1>1, LoopNames DEF CleanDefinitions, CleanRows, CleanLinks, Cleans
  <2> QED  BY <2>1, AdvanceMoves
<1>2. CASE Query(p)
  <2>1. pc[p] \in Loops
    BY <1>2 DEF Query, TypeOK, ControlOK
  <2>2. \E todo, known : Continue(p, todo, known)
    BY <1>2 DEF Query
  <2> QED  BY <2>1, <2>2 DEF Moves
<1>3. CASE Normalize(p)
  <2>1. pc[p] = "normalize" /\ (Abort(p) \/ \E x : Done(p, x))
    BY <1>3 DEF Normalize, Visit
  <2> QED  BY <2>1, LoopNames, DoneMoves DEF Moves
<1>4. CASE ReadEvidence(p) \/ SuggestLink(p)
  <2>1. pc[p] \in {"lldp", "csv", "subnet", "description"} /\ \E x : Done(p, x)
    BY <1>4 DEF ReadEvidence, SuggestLink
  <2> QED  BY <2>1, LoopNames, DoneMoves
<1>5. CASE BuildInterfaces(p)
  <2>1. pc[p] = "ifaces" /\ \E x : Done(p, x)
    BY <1>5 DEF BuildInterfaces, Visit
  <2> QED  BY <2>1, LoopNames, DoneMoves
<1>6. CASE BuildDefinition(p)
  <2>1. /\ pc[p] \in {"defs", "used"}
        /\ Abort(p) \/ (\E x : Done(p, x)) \/ \E todo, known : Continue(p, todo, known)
    BY <1>6 DEF BuildDefinition
  <2> QED  BY <2>1, LoopNames, DoneMoves DEF Moves
<1>7. CASE BuildEndpoints(p) \/ BuildPaths(p)
  <2>1. pc[p] \in {"endpoints", "paths"} /\ (Abort(p) \/ \E x : Done(p, x))
    BY <1>7 DEF BuildEndpoints, BuildPaths, Visit
  <2> QED  BY <2>1, LoopNames, DoneMoves DEF Moves
<1>8. CASE IsolatedEndpoint(p) \/ UnusedVlan(p) \/ RoutedVlan(p) \/ UpdateCounts(p)
  <2>1. /\ pc[p] \in {"isolated", "unused", "routed", "counts"}
        /\ Abort(p) \/ \E x : Done(p, x)
    BY <1>8 DEF IsolatedEndpoint, UnusedVlan, RoutedVlan, UpdateCounts, Visit
  <2> QED  BY <2>1, LoopNames, DoneMoves DEF Moves
<1> QED  BY <1>1, <1>2, <1>3, <1>4, <1>5, <1>6, <1>7, <1>8 DEF Step

LEMMA StepBusy ==
  ASSUME NEW p, Step(p) \/ Crash(p)
  PROVE  pc[p] # "idle"
  BY DEF Step, Crash, CleanDefinitions, CleanRows, CleanLinks, Cleans, Query, Normalize, ReadEvidence,
     SuggestLink, BuildInterfaces, BuildDefinition, BuildEndpoints, BuildPaths, IsolatedEndpoint,
     UnusedVlan, RoutedVlan, UpdateCounts, Visit

LEMMA ContinueLeaves ==
  ASSUME TypeOK, NEW p \in Procs, pc[p] \in Loops, NEW todo, NEW known, Continue(p, todo, known)
  PROVE  /\ \A q \in Procs \ {p} : pc'[q] = pc[q] /\ mem'[q] = mem[q]
         /\ mem'[p].alone => mem[p].alone /\ mem'[p].single = mem[p].single
         /\ settled' => settled \/ (mem[p].alone /\ ~mem[p].single)
<1>1. /\ pc \in [Procs -> Loops \cup {"idle"}] /\ mem = [q \in Procs |-> mem[q]]
      /\ mem[p] \in Memory(pc[p])
  BY DEF TypeOK, ControlOK, MemoryOK, Memory
<1>2. CASE todo # {}
  <2>1. /\ mem' = [mem EXCEPT ![p].todo = todo, ![p].known = known, ![p].open = TRUE]
        /\ UNCHANGED <<pc, settled>>
    BY <1>2 DEF Continue
  <2>2. mem'[p].alone = mem[p].alone /\ mem'[p].single = mem[p].single
    BY <1>1, <2>1 DEF Memory
  <2> QED  BY <1>1, <2>1, <2>2
<1>3. CASE todo = {}
  <2> DEFINE next == IF mem[p].single THEN "idle" ELSE Follow[pc[p]]
             m == IF next = "idle" THEN Idle
                  ELSE [mem[p] EXCEPT !.todo = {}, !.open = FALSE,
                                      !.known = IF next = "used" THEN known ELSE {}]
  <2>1. /\ pc' = [pc EXCEPT ![p] = next] /\ mem' = [mem EXCEPT ![p] = m]
        /\ settled' = (next = "idle" /\ mem[p].alone /\ ~mem[p].single)
    BY <1>1, <1>3 DEF Continue, Advance
  <2>2. m.alone => mem[p].alone /\ m.single = mem[p].single
    <3>1. CASE next = "idle"
      BY <3>1 DEF Idle
    <3>2. CASE next # "idle"
      BY <1>1, <3>2 DEF Memory
    <3> QED  BY <3>1, <3>2
  <2> HIDE DEF m, next
  <2> QED  BY <1>1, <2>1, <2>2
<1> QED  BY <1>2, <1>3

LEMMA AbortLeaves ==
  ASSUME TypeOK, NEW p \in Procs, Abort(p)
  PROVE  /\ \A q \in Procs \ {p} : pc'[q] = pc[q] /\ mem'[q] = mem[q]
         /\ ~mem'[p].alone /\ settled' = settled
<1>1. pc \in [Procs -> Loops \cup {"idle"}] /\ mem = [q \in Procs |-> mem[q]]
  BY DEF TypeOK, ControlOK
<1> QED  BY <1>1 DEF Abort, Idle

\* An undisturbed correlation that goes on.
LEMMA ContinuePhase ==
  ASSUME TypeOK, NEW p \in Procs, pc[p] \in Loops \ Cleans, NEW todo, todo # {}, NEW known,
         Continue(p, todo, known), After(p, pc[p], todo, known)
  PROVE  Now(p)'
<1>1. /\ pc \in [Procs -> Loops \cup {"idle"}] /\ mem = [q \in Procs |-> mem[q]]
      /\ mem[p] \in Memory(pc[p])
  BY DEF TypeOK, ControlOK, MemoryOK, Memory
<1>2. /\ mem' = [mem EXCEPT ![p].todo = todo, ![p].known = known, ![p].open = TRUE]
      /\ UNCHANGED <<pc, settled>>
  BY DEF Continue
<1>3. mem'[p].open /\ mem'[p].todo = todo /\ mem'[p].known = known /\ mem'[p].run = mem[p].run
  BY <1>1, <1>2 DEF Memory
<1>4. Rest(p)' = todo
  BY <1>3 DEF Rest
<1> QED  BY <1>2, <1>3, <1>4 DEF After, Now

LEMMA AdvancePhase ==
  ASSUME TypeOK, NEW p \in Procs, pc[p] \in Loops, pc[p] # "counts", ~mem[p].single,
         NEW known, Advance(p, known),
         After(p, Follow[pc[p]],
               FoundIn(Follow[pc[p]], links', ifaces', defs', endpoints', evidence', Live'),
               IF Follow[pc[p]] = "used" THEN known ELSE {})
  PROVE  Now(p)' /\ ~settled'
<1>1. /\ pc \in [Procs -> Loops \cup {"idle"}] /\ mem = [q \in Procs |-> mem[q]]
      /\ mem[p] \in Memory(pc[p])
  BY DEF TypeOK, ControlOK, MemoryOK, Memory
<1> DEFINE next == Follow[pc[p]]
           kept == IF next = "used" THEN known ELSE {}
<1>2. next \in Loops /\ next # "idle"
  BY RankFollow, LoopsNotIdle
<1>3. /\ pc' = [pc EXCEPT ![p] = next]
      /\ mem' = [mem EXCEPT ![p] = [mem[p] EXCEPT !.todo = {}, !.open = FALSE, !.known = kept]]
      /\ ~settled'
  BY <1>1, <1>2 DEF Advance
<1> HIDE DEF next, kept
<1>4. /\ pc'[p] = next /\ ~mem'[p].open /\ mem'[p].known = kept /\ mem'[p].run = mem[p].run
  BY <1>1, <1>3 DEF Memory
<1>5. Rest(p)' = FoundIn(next, links', ifaces', defs', endpoints', evidence', Live')
  BY <1>4 DEF Rest
<1>6. After(p, next, FoundIn(next, links', ifaces', defs', endpoints', evidence', Live'), kept)
  BY DEF next, kept
<1> QED  BY <1>3, <1>4, <1>5, <1>6 DEF After, Now

LEMMA DefsFinite ==
  ASSUME TypeOK, IsFiniteSet(defs), NEW p \in Procs, Step(p)
  PROVE  IsFiniteSet(defs')
<1>1. CASE CleanDefinitions(p)
  BY <1>1, FS_EmptySet DEF CleanDefinitions
<1>2. CASE CleanRows(p) \/ CleanLinks(p) \/ Query(p) \/ Normalize(p) \/ ReadEvidence(p)
           \/ SuggestLink(p) \/ BuildInterfaces(p)
  BY <1>2 DEF CleanRows, CleanLinks, Query, Normalize, ReadEvidence, SuggestLink, BuildInterfaces,
              Abort, derived
<1>3. CASE BuildDefinition(p)
  <2>1. defs' = defs \/ \E d : defs' = defs \cup {d}
    BY <1>3 DEF BuildDefinition, Abort, derived
  <2> QED  BY <2>1, FS_AddElement
<1>4. CASE BuildEndpoints(p) \/ BuildPaths(p) \/ IsolatedEndpoint(p) \/ UnusedVlan(p) \/ RoutedVlan(p)
  BY <1>4 DEF BuildEndpoints, BuildPaths, IsolatedEndpoint, UnusedVlan, RoutedVlan, Abort, derived
<1>5. CASE UpdateCounts(p)
  <2> DEFINE rows(d) == {r \in ifaces : r.vid = d.vid}
             count(d, x) == IF Pk(x) = Pk(d)
                            THEN [x EXCEPT !.interfaces = Cardinality(rows(d)),
                                           !.devices = Cardinality({r.port[1] : r \in rows(d)})]
                            ELSE x
  <2>1. PICK d \in mem[p].todo : Abort(p) \/ defs' = {count(d, x) : x \in defs}
    BY <1>5 DEF UpdateCounts
  <2> DEFINE g == [x \in defs |-> count(d, x)]
  <2>2. CASE Abort(p)
    BY <2>2 DEF Abort, derived
  <2>3. CASE defs' = {count(d, x) : x \in defs}
    <3>1. \A x \in defs : g[x] = count(d, x)
      OBVIOUS
    <3>2. g = [x \in defs |-> g[x]]
      OBVIOUS
    <3> HIDE DEF g, count
    <3>3. defs' = {g[x] : x \in defs}
      BY <2>3, <3>1
    <3> QED  BY <3>2, <3>3, FiniteImage
  <2> QED  BY <2>1, <2>2, <2>3
<1> QED  BY <1>1, <1>2, <1>3, <1>4, <1>5 DEF Step

LEMMA StepServes ==
  ASSUME NEW p \in Procs, Step(p)
  PROVE  served' = served
  BY DEF Step, CleanDefinitions, CleanRows, CleanLinks, Query, Normalize, ReadEvidence,
     SuggestLink, BuildInterfaces, BuildDefinition, BuildEndpoints, BuildPaths, IsolatedEndpoint,
     UnusedVlan, RoutedVlan, UpdateCounts, Abort

\* What an undisturbed correlation has done, it has done in every state on
\* its way, and its end is the end of the loops.
LEMMA ProgressKeeps ==
  ASSUME TypeOK, TypeOK', NEW p \in Procs, ~mem[p].single, ~settled, served' = served, Progress(p)
  PROVE  /\ mem'[p].alone => Now(p)'
         /\ settled' => (\E R \in 0..served : Final(R)') /\ pc'[p] = "idle"
<1>1. CASE Abort(p)
  BY <1>1, AbortLeaves
<1>2. ASSUME NEW known, pc[p] \in Loops, pc[p] # "counts", Advance(p, known),
             After(p, Follow[pc[p]],
                   FoundIn(Follow[pc[p]], links', ifaces', defs', endpoints', evidence', Live'),
                   IF Follow[pc[p]] = "used" THEN known ELSE {})
      PROVE  Now(p)' /\ ~settled'
  BY <1>2, AdvancePhase
<1>3. CASE /\ pc[p] \in Cleans /\ Advance(p, {})
           /\ After(p, Follow[pc[p]],
                FoundIn(Follow[pc[p]], links', ifaces', defs', endpoints', evidence', Live'), {})
  <2>1. pc[p] \in Loops /\ pc[p] # "counts" /\ Follow[pc[p]] # "used"
    BY <1>3 DEF Cleans, Loops, Follow
  <2> QED  BY <1>2, <1>3, <2>1
<1>4. ASSUME pc[p] \in Loops \ Cleans, NEW todo, NEW known, Continue(p, todo, known),
             After(p, pc[p], todo, known)
      PROVE  /\ mem'[p].alone => Now(p)'
             /\ settled' => (\E R \in 0..served : Final(R)') /\ pc'[p] = "idle"
  <2>1. CASE todo # {}
    <3>1. Now(p)'
      BY <1>4, <2>1, ContinuePhase
    <3>2. settled' = settled
      BY <1>4, <2>1 DEF Continue
    <3> QED  BY <3>1, <3>2
  <2>2. CASE todo = {} /\ pc[p] # "counts"
    <3>1. Advance(p, known)
      BY <1>4, <2>2 DEF Continue
    <3>2. After(p, pc[p], {}, known)
      BY <1>4, <2>2
    <3> DEFINE s == pc[p]
               next == Follow[s]
               kept == IF next = "used" THEN known ELSE {}
    <3>3. evidence' \in SUBSET Evidence
      BY DEF TypeOK, RowsOK
    <3>4. Phase(s, {}, known, mem[p].run, links', ifaces', defs', endpoints', paths', issues',
                evidence', Live')
      BY <3>2 DEF After
    <3>5. s \in Loops \ Cleans /\ s # "counts"
      BY <1>4, <2>2
    <3> HIDE DEF s
    <3>6. Phase(Follow[s], FoundIn(Follow[s], links', ifaces', defs', endpoints', evidence', Live'),
                IF Follow[s] = "used" THEN known ELSE {}, mem[p].run, links', ifaces', defs',
                endpoints', paths', issues', evidence', Live')
      BY <3>3, <3>4, <3>5, PhaseHandover
    <3>7. After(p, Follow[s],
                FoundIn(Follow[s], links', ifaces', defs', endpoints', evidence', Live'),
                IF Follow[s] = "used" THEN known ELSE {})
      BY <3>6 DEF After
    <3> QED  BY <1>2, <1>4, <2>2, <3>1, <3>7 DEF s
  <2>3. CASE todo = {} /\ pc[p] = "counts"
    <3>0. PICK R : R = mem[p].run
      OBVIOUS
    <3>1. Phase("counts", {}, known, R, links', ifaces', defs', endpoints', paths', issues',
                evidence', Live')
      BY <1>4, <2>3, <3>0 DEF After
    <3>2. Phase("counts", {}, {}, R, links', ifaces', defs', endpoints', paths', issues',
                evidence', Live')
      BY <3>1 DEF Phase, DefsSo
    <3>3. R \in 0..served
      BY <3>0 DEF TypeOK, RowsOK, ControlOK, MemoryOK
    <3>4. Advance(p, known) /\ Follow["counts"] = "idle"
      BY <1>4, <2>3, RankFollow DEF Continue
    <3>5. pc \in [Procs -> Loops \cup {"idle"}] /\ mem = [q \in Procs |-> mem[q]]
      BY DEF TypeOK, ControlOK
    <3>6. pc'[p] = "idle" /\ ~mem'[p].alone
      BY <2>3, <3>4, <3>5 DEF Advance, Idle
    <3>7. Final(R)'
      BY <3>2 DEF Final
    <3> QED  BY <3>3, <3>6, <3>7
  <2> QED  BY <2>1, <2>2, <2>3
<1> QED  BY <1>1, <1>3, <1>4 DEF Progress

\* Before the first loop nothing is asked of what is there.
LEMMA FirstPhase ==
  ASSUME NEW R, NEW known, NEW L, NEW I, NEW D, NEW N, NEW Q, NEW S, NEW ev, NEW live
  PROVE  Phase("clean_defs", FoundIn("clean_defs", L, I, D, N, ev, live), known, R, L, I, D, N, Q, S,
               ev, live)
<1> DEFINE s == "clean_defs"
           rest == FoundIn(s, L, I, D, N, ev, live)
<1>1. /\ s \in Loops /\ Rank[s] = 1
      /\ s \notin {"normalize", "counts", "defs", "used", "endpoints", "isolated", "unused", "routed"}
  BY LoopNames, RankOf DEF Cleans
<1> HIDE DEF s, rest
<1>2. RestSo(s, rest, L, I, D, N, ev, live)
  BY DEF RestSo, rest
<1>3. LinksSo(s, rest, L, ev, live) /\ IfacesSo(s, rest, R, I, live)
  BY <1>1 DEF LinksSo, IfacesSo
<1>4. DefsSo(s, rest, known, R, D, live) /\ EndsSo(s, rest, R, N, live)
  BY <1>1 DEF DefsSo, EndsSo
<1>5. PathsSo(s, rest, R, Q, L, live) /\ ReasonsSo(s, R, S, L, ev, live) /\ UnknownSo(s, rest, S, ev)
  BY <1>1 DEF PathsSo, ReasonsSo, UnknownSo
<1>6. LostSo(s, rest, R, S, L, live) /\ AloneSo(s, rest, R, S, L, live)
  BY <1>1, LostEarly, AloneEarly
<1>7. Phase(s, rest, known, R, L, I, D, N, Q, S, ev, live)
  BY <1>2, <1>3, <1>4, <1>5, <1>6 DEF Phase
<1> QED  BY <1>7 DEF s, rest

-----------------------------------------------------------------------------
(* The invariant.                                                          *)

LEMMA InitSettled == Init => SettledInv
<1> SUFFICES ASSUME Init PROVE SettledInv
  OBVIOUS
<1>1. TypeOK
  BY InitType
<1>2. IsFiniteSet(defs) /\ ~settled
  BY FS_EmptySet DEF Init
<1>3. \A p \in Procs : Undisturbed(p)
  BY DEF Init, Idle, Undisturbed
<1> QED  BY <1>1, <1>2, <1>3 DEF SettledInv

\* A process at work has the session to itself or knows that it has not.
LEMMA StepSettled ==
  ASSUME SettledInv, TypeOK', NEW p \in Procs, Step(p)
  PROVE  SettledInv'
<1>1. /\ TypeOK /\ IsFiniteSet(defs) /\ pc[p] # "idle" /\ ~settled /\ Moves(p)
      /\ served' = served
  BY StepBusy, StepMoves, StepServes DEF SettledInv
<1>2. \A q \in Procs \ {p} : ~mem[q].alone
  BY <1>1 DEF SettledInv, Undisturbed
<1>3. /\ \A q \in Procs \ {p} : pc'[q] = pc[q] /\ mem'[q] = mem[q]
      /\ mem'[p].alone => mem[p].alone /\ mem'[p].single = mem[p].single
      /\ settled' => mem[p].alone /\ ~mem[p].single
  <2>1. CASE Abort(p)
    BY <1>1, <2>1, AbortLeaves
  <2>2. CASE pc[p] \in Loops /\ \E todo, known : Continue(p, todo, known)
    BY <1>1, <2>2, ContinueLeaves
  <2> QED  BY <1>1, <2>1, <2>2 DEF Moves
<1>4. mem[p].alone => \A q \in Procs \ {p} : pc'[q] = "idle"
  BY <1>3 DEF SettledInv, Undisturbed
<1>5. ASSUME mem[p].alone, ~mem[p].single
      PROVE  /\ mem'[p].alone => Now(p)'
             /\ settled' => (\E R \in 0..served : Final(R)') /\ pc'[p] = "idle"
  <2>1. Now(p)
    BY <1>5 DEF SettledInv, Undisturbed, Now
  <2> QED  BY <1>1, <1>5, <2>1, StepProgress, ProgressKeeps
<1>6. Undisturbed(p)'
  BY <1>3, <1>4, <1>5 DEF Undisturbed, Now
<1>7. \A q \in Procs \ {p} : Undisturbed(q)'
  BY <1>2, <1>3 DEF Undisturbed
<1>8. IsFiniteSet(defs')
  BY <1>1, DefsFinite
<1>9. settled' => (\E R \in 0..served' : Final(R)') /\ \A q \in Procs : pc'[q] = "idle"
  BY <1>1, <1>3, <1>4, <1>5
<1> QED  BY <1>6, <1>7, <1>8, <1>9 DEF SettledInv

LEMMA StartSettled ==
  ASSUME SettledInv, TypeOK', NEW p \in Procs,
         StartCorrelation(p) \/ \E e \in Reports : SubmitEvidence(p, e)
  PROVE  SettledInv'
<1>1. PICK loop, single :
          /\ Start(p, loop, single)
          /\ single \/ (loop = "clean_defs" /\ single = FALSE)
          /\ defs' = defs
  BY DEF StartCorrelation, SubmitEvidence, derived
<1> DEFINE m == [Idle EXCEPT !.run = served + 1, !.single = single,
                             !.alone = \A q \in Procs : pc[q] = "idle"]
<1>2. /\ pc \in [Procs -> Loops \cup {"idle"}] /\ IsFiniteSet(defs)
  BY DEF SettledInv, TypeOK, ControlOK
<1>3. /\ pc' = [pc EXCEPT ![p] = loop] /\ mem' = [Disturbed(mem) EXCEPT ![p] = m]
      /\ settled' = FALSE
  BY <1>1 DEF Start
<1>4. /\ m.alone => \A q \in Procs : pc[q] = "idle"
      /\ m.single = single /\ m.open = FALSE
  BY DEF Idle
<1> HIDE DEF m
<1>5. mem'[p] = m /\ pc'[p] = loop /\ \A q \in Procs \ {p} : pc'[q] = pc[q]
  BY <1>2, <1>3 DEF Disturbed
<1>6. ASSUME NEW q \in Procs \ {p} PROVE ~mem'[q].alone
  <2>1. mem'[q] = [mem[q] EXCEPT !.alone = FALSE] /\ mem[q] \in Memory(pc[q])
    BY <1>3 DEF Disturbed, SettledInv, TypeOK, ControlOK, MemoryOK, Memory
  <2> QED  BY <2>1 DEF Memory
<1>7. ASSUME ~mem'[p].single PROVE Now(p)'
  <2>1. pc'[p] = "clean_defs" /\ ~mem'[p].open
    BY <1>1, <1>4, <1>5, <1>7
  <2>2. Rest(p)' = FoundIn("clean_defs", links', ifaces', defs', endpoints', evidence', Live')
    BY <2>1 DEF Rest
  <2>3. \A R, known, L, I, D, N, Q, S, ev, live :
           Phase("clean_defs", FoundIn("clean_defs", L, I, D, N, ev, live), known, R, L, I, D, N, Q,
                 S, ev, live)
    BY FirstPhase
  <2> QED  BY <2>1, <2>2, <2>3 DEF Now
<1>8. Undisturbed(p)'
  BY <1>4, <1>5, <1>7 DEF Undisturbed, Now
<1>9. \A q \in Procs \ {p} : Undisturbed(q)'
  BY <1>6 DEF Undisturbed
<1> QED  BY <1>1, <1>2, <1>3, <1>8, <1>9 DEF SettledInv

\* Whoever acts beside the requests disturbs everyone.
LEMMA AsideSettled ==
  ASSUME SettledInv, TypeOK', Aside
  PROVE  SettledInv'
<1>1. ~settled' /\ defs' = defs /\ mem' = Disturbed(mem)
  BY DEF Aside, derived
<1>2. ASSUME NEW q \in Procs PROVE ~mem'[q].alone
  <2>1. mem'[q] = [mem[q] EXCEPT !.alone = FALSE] /\ mem[q] \in Memory(pc[q])
    BY <1>1 DEF Disturbed, SettledInv, TypeOK, ControlOK, MemoryOK, Memory
  <2> QED  BY <2>1 DEF Memory
<1>3. \A q \in Procs : Undisturbed(q)'
  BY <1>2 DEF Undisturbed
<1> QED  BY <1>1, <1>3 DEF SettledInv

LEMMA CrashSettled ==
  ASSUME SettledInv, TypeOK', NEW p \in Procs, Crash(p)
  PROVE  SettledInv'
<1>1. TypeOK /\ pc[p] # "idle" /\ ~settled /\ Abort(p)
  BY StepBusy DEF SettledInv, Crash
<1>2. \A q \in Procs \ {p} : ~mem[q].alone
  BY <1>1 DEF SettledInv, Undisturbed
<1>3. \A q \in Procs : ~mem'[q].alone
  BY <1>1, <1>2, AbortLeaves
<1>4. \A q \in Procs : Undisturbed(q)'
  BY <1>3 DEF Undisturbed
<1>5. ~settled' /\ defs' = defs
  BY <1>1, AbortLeaves DEF Abort, derived
<1> QED  BY <1>4, <1>5 DEF SettledInv

LEMMA SameSettled ==
  ASSUME SettledInv, TypeOK', UNCHANGED vars
  PROVE  SettledInv'
<1>1. /\ UNCHANGED <<links, ifaces, defs, endpoints, paths, issues, evidence, served, pc, mem, settled>>
      /\ UNCHANGED Live
  BY DEF vars, inputs, derived, Live
<1>2. ASSUME NEW q \in Procs PROVE Undisturbed(q)'
  <2>1. Rest(q)' = Rest(q)
    BY <1>1 DEF Rest
  <2> QED  BY <1>1, <2>1 DEF SettledInv, Undisturbed
<1>3. settled' => (\E R \in 0..served' : Final(R)') /\ \A q \in Procs : pc'[q] = "idle"
  BY <1>1 DEF SettledInv, Final
<1> QED  BY <1>1, <1>2, <1>3 DEF SettledInv

LEMMA NextSettled == SettledInv /\ [Next]_vars => SettledInv'
<1> SUFFICES ASSUME SettledInv, [Next]_vars PROVE SettledInv'
  OBVIOUS
<1>1. TypeOK'
  BY NextType DEF SettledInv
<1>2. CASE UNCHANGED vars
  BY <1>1, <1>2, SameSettled
<1>3. ASSUME NEW p \in Procs, StartCorrelation(p) \/ \E e \in Reports : SubmitEvidence(p, e)
      PROVE  SettledInv'
  BY <1>1, <1>3, StartSettled
<1>4. ASSUME NEW p \in Procs, Step(p) PROVE SettledInv'
  BY <1>1, <1>4, StepSettled
<1>5. ASSUME NEW p \in Procs, Crash(p) PROVE SettledInv'
  BY <1>1, <1>5, CrashSettled
<1>6. CASE \/ \E l \in Pairs : EnterLink(l[1], l[2])
           \/ \E e \in evidence : DeleteEvidence(e)
           \/ \E d \in Devices : Reanalyse(d)
  <2>1. Aside
    BY <1>6 DEF EnterLink, DeleteEvidence, Reanalyse
  <2> QED  BY <1>1, <2>1, AsideSettled
<1> QED  BY <1>2, <1>3, <1>4, <1>5, <1>6 DEF Next

LEMMA InvSettles == SettledInv => SettledSession
<1> SUFFICES ASSUME SettledInv, settled PROVE SettledSession
  BY DEF SettledSession
<1>1. TypeOK /\ IsFiniteSet(defs) /\ \E R \in 0..served : Final(R)
  BY DEF SettledInv
<1> QED  BY <1>1, FinalSettles

(* A correlation that ends and ran undisturbed leaves exactly what the     *)
(* session's inputs define, once each, whatever overlapping, failed or     *)
(* killed requests left behind before it: for any devices, configurations, *)
(* evidence, links and number of processes.                                *)
THEOREM Settled == Spec => []SettledSession
<1>1. Init => SettledInv
  BY InitSettled
<1>2. SettledInv /\ [Next]_vars => SettledInv'
  BY NextSettled
<1>3. SettledInv => SettledSession
  BY InvSettles
<1> QED  BY <1>1, <1>2, <1>3, PTL DEF Spec
=============================================================================
