------------------------------ MODULE Traversal ------------------------------
(***************************************************************************)
(* How the analysis answers what a node of an SBOM consists of, or what it *)
(* is a part of, across SBOMs:                                             *)
(*                                                                         *)
(*   modules/analysis/src/service/collector.rs      the walk               *)
(*   modules/analysis/src/service/mod.rs            references between SBOMs *)
(*   modules/analysis/src/service/load/mod.rs       the graph of an SBOM   *)
(*                                                                         *)
(* A walk runs as many futures at a time, which share the set of visited   *)
(* nodes and the ancestors that were looked up before; here it is a set of *)
(* tasks in any order.  Its transaction is READ COMMITTED, so SBOMs may    *)
(* come and go between its queries.                                        *)
(***************************************************************************)
EXTENDS Correlation

CONSTANT Unlimited          \* the depth of a query that gives none, u64::MAX

VARIABLE walk               \* the walk that is under way, or NoWalk

Incoming == "Incoming"
Outgoing == "Outgoing"
NoWalk == [todo |-> {}, from |-> NULL]
NoNode == <<>>

ASSUME TraversalAssumption ==
  /\ Unlimited \notin Nat
  /\ \A s \in Sboms : SbomDoc(s).published \in Int
  /\ \A q \in UNION {c.queries : c \in Corpora} :
       q.dir \in {Incoming, Outgoing} /\ q.from[1] \in Sboms /\ q.depth \in Nat \cup {Unlimited}

-----------------------------------------------------------------------------
(* The graph of an SBOM *)

\* Nodes that nothing is said about are related to what describes the document.
perform_load_graph(rows) ==
  LET nodes == {DOC} \cup rows.nodes \cup DOMAIN rows.externals
      describing == {r[1] : r \in {q \in rows.rels : q[2] = "Describes"}}
  IN  [nodes |-> nodes,
       edges |-> rows.rels \cup (describing \X {"Undefined"} \X (nodes \ Ends(rows.rels)))]

Graph == [s \in Sboms |-> perform_load_graph(SbomRow[s])]

IsPackage(x) == x[2] \in DOMAIN SbomRow[x[1]].packages
IsExternal(x) == ~IsPackage(x) /\ x[2] \in DOMAIN SbomRow[x[1]].externals

\* edges_directed: the relationships of a node and the nodes at their other ends.
edges_directed(dir, x) ==
  {<<e[2], <<x[1], IF dir = Incoming THEN e[1] ELSE e[3]>> >> :
     e \in {f \in Graph[x[1]].edges : x[2] = IF dir = Incoming THEN f[3] ELSE f[1]}}

-----------------------------------------------------------------------------
(* References between SBOMs *)

Published == [s \in Sboms |-> SbomDoc(s).published]
Newest(S) == {s \in S : \A t \in S : Published[t] <= Published[s]}

\* The reference of the main component of a CycloneDX document without one.
IsUuid(node) == Head(node) = "uuid"

\* Mutant of OtherSboms: SbomId.ne is missing.
AnySbom(s) == sboms

\* Where the checksum of a component of s is looked for.
OtherSboms(s) == sboms \ {s}

SumsOf(s, node) == {c[2] : c \in {k \in SbomRow[s].checksums : k[1] = node}}

\* A node of another SBOM that has a checksum of the component: of one of its
\* checksums, and any of the nodes that has it.
resolve_rh_external_sbom_descendants(s, ref) ==
  LET nodes(sum, t) == {n \in {c[1] : c \in {k \in SbomRow[t].checksums : k[2] = sum}} : ~IsUuid(n)}
      matches(sum) == UNION {{t} \X nodes(sum, t) : t \in OtherSboms(s)}
      found(sum) == IF matches(sum) = {} THEN {NoNode} ELSE matches(sum)
      sums == SumsOf(s, ref)
  IN  IF sums = {} THEN {NoNode} ELSE UNION {found(sum) : sum \in sums}

\* The nodes an external node may be resolved to.  It is looked up by its ID
\* alone, in the newest SBOM that has an external node of this ID.
resolve_external_sbom(node) ==
  LET resolved(s) ==
        LET ext == SbomRow[s].externals[node]
            documents == CASE ext.type = "spdx" -> sboms \cap {ext.doc}
                           [] ext.type = "cyclonedx" -> {t \in sboms : SbomDoc(t).id = ext.doc}
                           [] OTHER -> {}
        IN  IF ext.type = "redhat" THEN resolve_rh_external_sbom_descendants(s, ext.ref)
            ELSE IF documents = {} THEN {NoNode}
            ELSE Newest(documents) \X {ext.ref}
      known == {s \in sboms : node \in DOMAIN SbomRow[s].externals}
  IN  IF known = {} THEN {NoNode} ELSE UNION {resolved(s) : s \in Newest(known)}

\* For a package of s, the external nodes of t that stand for it.
StandFor == [p \in Sboms \X Sboms |->
  {ne \in (DOMAIN SbomRow[p[1]].packages) \X (DOMAIN SbomRow[p[2]].externals) :
     SumsOf(p[1], ne[1]) \cap SumsOf(p[2], SbomRow[p[2]].externals[ne[2]].ref) # {}}]

\* For every package of an SBOM, the external nodes that stand for it in the
\* SBOMs it is linked to.
resolve_rh_external_sbom_ancestors(s) ==
  UNION {{<<ne[1], <<p[2], ne[2]>> >> : ne \in StandFor[p]} : p \in {q \in ancestors : q[1] = s}}

-----------------------------------------------------------------------------
(* The walk *)

Less(depth) == IF depth = Unlimited THEN Unlimited ELSE IF depth = 0 THEN 0 ELSE depth - 1

Wanted(rel) == walk.rels = {} \/ rel \in walk.rels

Task(step, at, parent, depth, kept) ==
  [step |-> step, at |-> at, parent |-> parent, depth |-> depth, kept |-> kept]

\* Mutant of visited: nodes are told apart by their ID alone.
visited_id(seen, x) == \E y \in seen : x[2] = y[2]

\* DiscoveredTracker has a set of nodes for each graph.
visited(seen, x) == x \in seen

\* collect_graph: what is related to a node is shown below the parent, which is
\* the node itself or the one that stands for it, unless a filter leaves out a
\* relationship on the way; and it is visited in any case.
collect_graph(t, x) ==
  LET edges == edges_directed(walk.dir, x)
      depth == Less(t.depth)
  IN  [shown |-> IF t.kept THEN {<<t.parent, e[1], e[2]>> : e \in {f \in edges : Wanted(f[1])}} ELSE {},
       tasks |-> {Task("collect", e[2], e[2], depth, t.kept /\ Wanted(e[1])) : e \in edges}]

\* Tasks that are out of depth or have come too late do nothing.
Continue(t, seen, shown, tasks, known) ==
  walk' = [walk EXCEPT
    !.seen = seen, !.known = known, !.shown = @ \cup shown,
    !.todo = {u \in (@ \ {t}) \cup tasks : u.step = "collect" => u.depth # 0 /\ ~visited(seen, u.at)}]

\* run_graph_query, for one of the nodes it finds and one direction.
Query(q) ==
  /\ walk = NoWalk
  /\ q.from[1] \in sboms
  /\ walk' = [dir |-> q.dir, from |-> q.from, depth |-> q.depth, rels |-> q.rels,
              todo |-> IF q.depth = 0 THEN {} ELSE {Task("collect", q.from, q.from, q.depth, TRUE)},
              seen |-> {}, shown |-> {},
              known |-> [s \in {q.from[1]} |-> resolve_rh_external_sbom_ancestors(s)], stable |-> TRUE]
  /\ UNCHANGED vars

\* collect: another SBOM comes in at an external node, and at a package that
\* other SBOMs stand for by an external node.
Collect(t) ==
  /\ t \in walk.todo /\ t.step = "collect"
  /\ LET own == collect_graph(t, t.at)
         climb == {Task("enter", row[2], t.at, Less(t.depth), t.kept) :
                     row \in {r \in walk.known[t.at[1]] : r[1] = t.at[2]}}
     IN  IF IsExternal(t.at)
         THEN Continue(t, walk.seen \cup {t.at}, {}, {[t EXCEPT !.step = "resolve"]}, walk.known)
         ELSE Continue(t, walk.seen \cup {t.at}, own.shown, own.tasks \cup climb, walk.known)
  /\ UNCHANGED vars

Resolve(t) ==
  /\ t \in walk.todo /\ t.step = "resolve"
  /\ \E x \in resolve_external_sbom(t.at[2]) :
       Continue(t, walk.seen, {},
                IF x = NoNode THEN {} ELSE {Task("enter", x, t.at, Less(t.depth), t.kept)}, walk.known)
  /\ UNCHANGED vars

\* The graph of the other SBOM is loaded, the ancestors of its packages are
\* looked up once, and the walk goes on at the node that is meant.  Of an SBOM
\* that has been deleted the graph may still be cached, or it is empty.
Enter(t) ==
  /\ t \in walk.todo /\ t.step = "enter"
  /\ \E loaded \in {TRUE} \cup {t.at[1] \in sboms} :
       LET next == collect_graph(t, t.at)
           rows == IF loaded THEN resolve_rh_external_sbom_ancestors(t.at[1]) ELSE {}
           known == [s \in {t.at[1]} \cup DOMAIN walk.known |->
                       IF s \in DOMAIN walk.known THEN walk.known[s] ELSE rows]
       IN  IF loaded /\ t.at[2] \in Graph[t.at[1]].nodes
           THEN Continue(t, walk.seen, next.shown, next.tasks, known)
           ELSE Continue(t, walk.seen, {}, {}, known)
  /\ UNCHANGED vars

Answer ==
  /\ walk # NoWalk /\ walk.todo = {}
  /\ walk' = NoWalk
  /\ UNCHANGED vars

\* Anything else that happens, and whether it changes what the walk looks up.
Elsewhere ==
  /\ Next
  /\ walk' = IF walk = NoWalk \/ sboms' = sboms THEN walk ELSE [walk EXCEPT !.stable = FALSE]

TraversalInit == Init /\ walk = NoWalk

TraversalNext ==
  \/ Elsewhere
  \/ \E q \in corpus.queries : Query(q)
  \/ \E t \in walk.todo : Collect(t) \/ Resolve(t) \/ Enter(t)
  \/ Answer

TraversalSpec == TraversalInit /\ [][TraversalNext]_<<vars, walk>>

-----------------------------------------------------------------------------
Shown(x) == {<<e[2], e[3]>> : e \in {f \in walk.shown : f[1] = x}}
Reached == {walk.from} \cup {e[3] : e \in walk.shown}

\* What a node may show: its relationships, and as an external node those of the
\* node it stands for, and as a package those of the nodes that stand for it.
Related(dir, x) ==
  IF IsExternal(x)
  THEN {IF y = NoNode THEN {} ELSE edges_directed(dir, y) : y \in resolve_external_sbom(x[2])}
  ELSE {edges_directed(dir, x) \cup
        (IF ~IsPackage(x) THEN {}
         ELSE UNION {edges_directed(dir, r[2]) :
                r \in {q \in resolve_rh_external_sbom_ancestors(x[1]) : q[1] = x[2]}})}

\* However the futures of a walk interleave and wherever SBOMs refer to each
\* other in circles, the answer to a query without limits has everything that is
\* related to what it has: below a node of one SBOM all its relationships, even
\* if SBOMs come and go meanwhile, and as long as none does also those of other
\* SBOMs.  Limits leave out what is not next to the node that was asked for, and
\* nothing is shown that is not related.
WalkComplete ==
  walk # NoWalk /\ walk.todo = {} =>
    \A x \in Reached :
      LET all == (walk.depth = Unlimited /\ walk.rels = {}) \/ (x = walk.from /\ walk.depth # 0)
          shown == Shown(x)
          kept(edges) == {e \in edges : Wanted(e[1])}
      IN  /\ (all /\ ~IsExternal(x)) => kept(edges_directed(walk.dir, x)) \subseteq shown
          /\ walk.stable =>
               \E edges \in Related(walk.dir, x) :
                 IF all THEN shown = kept(edges) ELSE shown \subseteq kept(edges)

\* The way down and the way up agree, although one is found by comparing
\* checksums when it is asked for and the other has been stored: whatever package
\* an external node of a product is resolved to, that external node is found to
\* stand for it; unless a newer SBOM has an external node with the same ID, or
\* the two SBOMs were ingested at the same time.  And the other way round.  Only
\* those of Red Hat's documents: the way up takes any external node whose ref has
\* a checksum, of whatever type, while the way down of the others names a document.
WayBack ==
  \A s \in sboms : \A e \in DOMAIN SbomRow[s].externals :
    /\ SbomRow[s].externals[e].type = "redhat"
    /\ \A t \in sboms \ {s} : e \notin DOMAIN SbomRow[t].externals
    =>
      /\ \A x \in resolve_external_sbom(e) \ {NoNode} :
           IsPackage(x) /\ {s, x[1]} \notin excuse.overlapped =>
             <<x[2], <<s, e>> >> \in resolve_rh_external_sbom_ancestors(x[1])
      /\ \A t \in sboms : \A row \in resolve_rh_external_sbom_ancestors(t) :
           row[2] = <<s, e>> /\ ~IsUuid(row[1]) => resolve_external_sbom(e) # {NoNode}
=============================================================================
