-------------------------------- MODULE Latest --------------------------------
(***************************************************************************)
(* The search for the latest SBOMs: of the SBOMs with a node that matches, *)
(* the newest for each product, given by its CPE, and each name of a node. *)
(*                                                                         *)
(*   modules/analysis/src/service/load/mod.rs     the search               *)
(*   modules/analysis/src/service/load/rank.rs    the ranking              *)
(*                                                                         *)
(* A search is [by, key, query]: a name, a PURL or a CPE, asked for as a   *)
(* component or as the condition of a query.  The node of the document,    *)
(* which has the document's name, is left out, and so is the cut-off by    *)
(* date.                                                                   *)
(***************************************************************************)
EXTENDS Traversal

\* sbom_node.name
NameOf(rows, node) ==
  IF node \in DOMAIN rows.externals THEN rows.externals[node].ref ELSE rows.names[node]

Named(rows) == rows.nodes \cup DOMAIN rows.externals

\* select: what matches in an SBOM.  Queries, PURLs and CPEs are about packages.
Found(search, rows) ==
  LET refs == CASE search.by = "name" -> {<<n, NameOf(rows, n)>> : n \in Named(rows)}
                [] search.by = "purl" -> rows.purls
                [] search.by = "cpe" -> rows.cpes
      about == IF search.by = "name" /\ ~search.query THEN Named(rows) ELSE DOMAIN rows.packages
  IN  about \cap {r[1] : r \in {q \in refs : q[2] = search.key}}

FoundNames(search, rows) == {NameOf(rows, n) : n \in Found(search, rows)}

Rows(search) == UNION {[sbom : {s}, name : FoundNames(search, SbomRow[s])] : s \in sboms}
MatchedSboms(rows) == {r.sbom : r \in rows}
cpe_search(search) == search.query \/ search.by = "cpe"

Ranked(s, name, cpe) == [sbom |-> s, name |-> name, cpe |-> cpe]

-----------------------------------------------------------------------------
(* Phase 1: the products themselves *)

\* The nodes that an external node of a product may name, in whatever SBOM.
Candidates(ref) == {t \in sboms : ref \in Named(SbomRow[t])}

\* external_node_ref: what the external nodes of an SBOM name.
References(externals) == {externals[e].ref : e \in DOMAIN externals}

\* A reference that names no node fails the search, whatever else it finds.
DirectFails(rows) ==
  \E s \in MatchedSboms(rows) :
    Describing[s] # {} /\ \E ref \in References(SbomRow[s].externals) : Candidates(ref) = {}

\* The component's name is taken from an SBOM that is linked to the product, or
\* else from any other; of several, from the first that the database returns.
Candidate(s, candidates) ==
  LET linked == {t \in candidates : <<t, s>> \in ancestors}
      others == candidates \ {s}
  IN  CHOOSE t \in candidates : /\ linked # {} => t \in linked
                                /\ linked = {} /\ others # {} => t \in others

batch_resolve_direct_cpe_matches(rows) ==
  UNION {{Ranked(s, NameOf(SbomRow[Candidate(s, Candidates(ref))], ref), cpe) :
            ref \in References(SbomRow[s].externals), cpe \in Describing[s]} : s \in MatchedSboms(rows)}

-----------------------------------------------------------------------------
(* Phase 2: the products that the components are parts of *)

DirectAncestors(s) == {p[2] : p \in {q \in ancestors : q[1] = s}}

MaxDepth == 10
TransitiveAncestors(s) ==
  LET up[d \in 1..MaxDepth] ==
        IF d = 1 THEN DirectAncestors(s)
        ELSE up[d - 1] \cup ((UNION {DirectAncestors(a) : a \in up[d - 1]}) \ {s})
  IN  up[MaxDepth]

\* The CPEs of products above the SBOMs that have none of their own.
AncestorCpes(rows, Ancestors(_)) ==
  UNION {{Ranked(r.sbom, r.name, cpe) : cpe \in UNION {Describing[a] : a \in Ancestors(r.sbom)}} :
           r \in {q \in rows : Describing[q.sbom] = {}}}

\* Ancestors of ancestors count where there is none with a CPE among the direct
\* ones, and no product of that CPE has a node of this name.
Genuine(found, rows) ==
  {e \in AncestorCpes(rows, TransitiveAncestors) :
     \A f \in found : f.cpe # e.cpe \/ f.name # e.name}

BothPhases(rows, products, direct) ==
  products \cup direct
  \cup Genuine(products \cup direct, {r \in rows : r.sbom \notin MatchedSboms(direct)})

resolve_sbom_cpes(by_cpe, rows) ==
  BothPhases(rows, IF by_cpe THEN batch_resolve_direct_cpe_matches(rows) ELSE {},
             AncestorCpes(rows, DirectAncestors))

\* Mutant of Precedes: the sort is ascending.
IsOlder(e, f) == Published[e.sbom] < Published[f.sbom]

\* apply_rank: what comes before another in the same partition.
Precedes(e, f) == Published[e.sbom] > Published[f.sbom]

RankedFirst(ranked) ==
  {e \in ranked : ~\E f \in ranked : f.cpe = e.cpe /\ f.name = e.name /\ Precedes(f, e)}

load_latest_graphs_query(search, rows) ==
  MatchedSboms(RankedFirst(resolve_sbom_cpes(cpe_search(search), rows)))

-----------------------------------------------------------------------------
(* What the search is for *)

\* The products an SBOM is a part of, as the documents say, whatever of that has
\* been stored.
Over(S) == {a \in sboms : \E s \in S : Links[<<s, a>>]}
CpesOf(S) == UNION {Describing[s] : s \in S}
Products(s) ==
  LET direct == Over({s})
  IN  IF CpesOf(direct) # {} THEN CpesOf(direct) ELSE CpesOf(direct \cup Over(direct))

Keys(by) ==
  LET keys(rows) ==
        CASE by = "name" -> {NameOf(rows, n) : n \in Named(rows)}
          [] by = "purl" -> {r[2] : r \in rows.purls}
          [] by = "cpe" -> {r[2] : r \in rows.cpes}
  IN  UNION {keys(SbomRow[s]) : s \in corpus.sboms}
Searches(by) == [by : {by}, key : Keys(by), query : BOOLEAN]

\* The names of what a product refers to.
ProductNames(s) ==
  UNION {{NameOf(SbomRow[t], ref) : t \in Candidates(ref)} : ref \in References(SbomRow[s].externals)}

\* The matches that concern a component of this name in a product with this CPE:
\* in SBOMs that are a part of it, and in its own for a search by CPE or query.
Concerned(search, rows, cpe, name) ==
  {r \in rows : IF Describing[r.sbom] = {} THEN r.name = name /\ cpe \in Products(r.sbom)
                ELSE /\ cpe_search(search)
                     /\ cpe \in Describing[r.sbom] /\ name \in ProductNames(r.sbom)}

\* An SBOM that is only a part of a part gives way to those of the product itself
\* and its direct parts, even if they are older.
Close(rows, cpe) ==
  LET close == {r \in rows : \E s \in {r.sbom} \cup Over({r.sbom}) : cpe \in Describing[s]}
  IN  IF close = {} THEN rows ELSE close

NewestOf(rows) == {r \in rows : \A q \in rows : Published[q.sbom] <= Published[r.sbom]}

\* What the search is to return, for every component of a product.
CalledFor(search, rows) ==
  UNION {MatchedSboms(NewestOf(Close(Concerned(search, rows, cpe, name), cpe))) :
           cpe \in UNION {Describing[s] : s \in sboms},
           name \in {r.name : r \in rows} \cup UNION {ProductNames(s) : s \in MatchedSboms(rows)}}

Finds(search, rows) ==
  \/ cpe_search(search) /\ DirectFails(rows)
  \/ load_latest_graphs_query(search, rows) = CalledFor(search, rows)

\* The latest search, which goes by what was stored when the SBOMs were ingested
\* and takes them in phases, returns what the documents call for: for every
\* component of a product the newest SBOM, in whatever order they were ingested,
\* unless two were at the same time.
LatestExpected ==
  excuse.overlapped = {} /\ (\E s \in sboms : Describing[s] # {}) =>
    \A by \in {"name", "purl", "cpe"} : \A search \in Searches(by) : Finds(search, Rows(search))
===============================================================================
