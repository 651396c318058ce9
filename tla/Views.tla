-------------------------------- MODULE Views --------------------------------
(***************************************************************************)
(* What the pages of the REST API say that a package is affected by, and   *)
(* whether they say what the advisories say.  Every page is one request    *)
(* that reads one snapshot of the database, so it is an operator on the    *)
(* state of module Correlation.                                            *)
(*                                                                         *)
(*   an SBOM's advisories    sbom/model/details.rs, raw_sql.rs             *)
(*   a list of SBOMs         sbom/model/raw_sql.rs (severity counts)       *)
(*   a vulnerability         vulnerability/model/details/*.rs              *)
(*   a PURL                  purl/model/details/purl.rs                    *)
(*   the analysis of PURLs   vulnerability/service/mod.rs                  *)
(*                                                                         *)
(* all below modules/fundamental/src.  What the documents mean by their    *)
(* own standards is defined from the standards' wording, apart from what   *)
(* the loaders make of them.                                               *)
(***************************************************************************)
EXTENDS Correlation

Meaning == INSTANCE AdvisoryMeaning

CONSTANT Names   \* function from Base to the names a status may know it by:
                 \* its name and, with a namespace, namespace/name

-----------------------------------------------------------------------------
(* Contexts *)

\* split_part(version, '.', 1)
Major(cpe) ==
  IF cpe.version = NULL \/ Len(cpe.version.rel) <= 1 THEN cpe.version
  ELSE Version(SubSeq(cpe.version.rel, 1, 1), <<>>)

\* The CPEs a status may have as its context to apply to what has cpes: these,
\* and those that name nothing but the major version of one of them.
InContext(context, cpes) ==
  \/ context = NULL \/ cpes = {} \/ context \in cpes
  \/ \E cpe \in cpes : /\ context.vendor = cpe.vendor /\ context.product = cpe.product
                       /\ context.version = Major(cpe)

-----------------------------------------------------------------------------
(* The advisories of an SBOM *)

Match(row, node, purl) ==
  [vuln |-> row.vuln, status |-> row.status, kind |-> row.kind, context |-> row.context,
   node |-> node, purl |-> purl]

OfKind(rows, kind) == {row \in rows : row.kind = kind}
PackagePurls(s) == {ref \in SbomRow[s].purls : ref[1] \in DOMAIN SbomRow[s].packages}

\* The rows of an advisory that apply to a PURL, whatever the context.
PurlApplies(row, purl) == row.key = purl.base /\ version_matches(purl.version, row.range)
NameApplies(row, purl) == row.key \in Names[purl.base]

Applied(Applies(_, _), rows, refs) ==
  {Match(t[1], t[2][1], t[2][2]) : t \in {u \in rows \X refs : Applies(u[1], u[2][2])}}

\* The version a CPE of a node is matched with: its own, or the package's.
CpeVersion(s, ref) == IF ref[2].version # NULL THEN ref[2].version ELSE SbomRow[s].packages[ref[1]]

CpeApplies(s, row, ref) ==
  /\ ref[1] \in DOMAIN SbomRow[s].packages
  /\ row.key.part = "a" /\ row.key = with_any_version(ref[2])
  /\ version_matches(CpeVersion(s, ref), row.range)

\* The rows of a kind that have a context the SBOM is in.
Here(s, rows, kind) == {row \in OfKind(rows, kind) : InContext(row.context, Describing[s])}

PurlMatches(s, rows) == Applied(PurlApplies, Here(s, rows, "purl"), PackagePurls(s))

\* product_advisory_info_sql: the version range of the product is not looked at.
ProductMatches(s, rows) == Applied(NameApplies, Here(s, rows, "product"), PackagePurls(s))

\* cpe_advisory_info_sql: the PURL is only there to be shown, yet needed.
CpeMatches(s, rows) ==
  {Match(t[1], t[2][1], t[3][2]) :
     t \in {u \in OfKind(rows, "cpe") \X SbomRow[s].cpes \X SbomRow[s].purls :
              u[3][1] = u[2][1] /\ CpeApplies(s, u[1], u[2])}}

AllMatches(s, rows) == PurlMatches(s, rows) \cup ProductMatches(s, rows) \cup CpeMatches(s, rows)

Pairs == UNION {c.sboms \X c.advisories : c \in Corpora}
Matches == [p \in Pairs |-> AllMatches(p[1], AdvisoryRow[p[2]])]

Current == {a \in advisories : ~deprecated(a)}

\* The page asks for status "affected".
SbomPage(s, a) == IF a \in Current THEN {m \in Matches[<<s, a>>] : m.status = "affected"} ELSE {}

-----------------------------------------------------------------------------
(* batch_severity_counts_sql: the vulnerabilities counted in a list of SBOMs *)

\* Mutant of CountedOf: as it was before CPEs of packages were matched.
CountedWithoutCpes == [p \in Pairs |->
  {m.vuln : m \in {n \in Matches[p] : n.kind # "cpe" /\ n.status = "affected"}}]

CountedOf == [p \in Pairs |->
  LET applies(row) ==
        /\ row.status = "affected"
        /\ row.kind # "cpe" => InContext(row.context, Describing[p[1]])
        /\ CASE row.kind = "purl" -> \E ref \in SbomRow[p[1]].purls : PurlApplies(row, ref[2])
             [] row.kind = "product" -> \E ref \in SbomRow[p[1]].purls : NameApplies(row, ref[2])
             [] OTHER -> \E ref \in SbomRow[p[1]].cpes : CpeApplies(p[1], row, ref)
  IN  {row.vuln : row \in {r \in AdvisoryRow[p[2]] : applies(r)}}]

Counted(s) == UNION {CountedOf[<<s, a>>] : a \in Current}

-----------------------------------------------------------------------------
(* The page of a vulnerability: the SBOMs and packages it lists *)

\* A described package is joined, too, to show the SBOM's version.
DescribesPackage(s) ==
  \E r \in SbomRow[s].rels : r[2] = "Describes" /\ r[3] \in DOMAIN SbomRow[s].packages

\* Of the advisories that are not current, too, and in any context.
ListedByPurl == [p \in Pairs |->
  IF ~DescribesPackage(p[1]) THEN {}
  ELSE {m \in Applied(PurlApplies, OfKind(AdvisoryRow[p[2]], "purl"), SbomRow[p[1]].purls) :
          m.status # "not_affected"}]

\* Mutant of ListedByCpe: as it was before, without a link back to the SBOM.
ListedByNoCpe == [p \in Pairs |-> {}]

ListedByCpe == [p \in Pairs |->
  IF ~DescribesPackage(p[1]) THEN {}
  ELSE {m \in CpeMatches(p[1], AdvisoryRow[p[2]]) : m.status # "not_affected"}]

VulnerabilityPage(s, a) ==
  ListedByPurl[<<s, a>>] \cup IF a \in Current THEN ListedByCpe[<<s, a>>] ELSE {}

-----------------------------------------------------------------------------
(* The page of a PURL, and the analysis of one *)

Having(purl) == {s \in sboms : \E ref \in SbomRow[s].purls : ref[2] = purl}

PurlPage(purl, a) ==
  {row \in OfKind(AdvisoryRow[a], "purl") :
     /\ a \in Current
     /\ PurlApplies(row, purl)
     /\ InContext(row.context, UNION {Describing[s] : s \in Having(purl)})}

Analysis(purl, a) ==
  {row \in AdvisoryRow[a] :
     /\ row.kind \in {"purl", "product"}
     /\ purl.version # Empty
     /\ row.status \notin {"fixed", "not_affected", "recommended"}
     /\ IF row.kind = "purl" THEN PurlApplies(row, purl) ELSE NameApplies(row, purl)}

-----------------------------------------------------------------------------
(* What the documents say of the components of an SBOM *)

\* The components that can be affected: those that are packages, with the PURLs
\* and CPEs their document gives them.
Components(doc) ==
  IF doc.format = "spdx" THEN doc.packages
  ELSE {c \in doc.main \cup doc.components : c.type \in PackageTypes}

\* A claim meets a component: [claim, node, purl, version], with the version
\* that the claim has to be about.
Met(s, a) ==
  LET meets(claim, c, purl) ==
        CASE claim.kind = "purl" -> IF claim.key = purl.base THEN {purl.version} ELSE {}
          [] claim.kind = "product" -> IF claim.key \in Names[purl.base] THEN {purl.version} ELSE {}
          [] OTHER -> {IF e.version # NULL THEN e.version ELSE c.version :
                         e \in {f \in c.cpes : f.part = "a" /\ with_any_version(f) = claim.key}}
  IN  UNION {UNION {{[claim |-> claim, node |-> c.ref, purl |-> purl, version |-> v] :
                       v \in meets(claim, c, purl)} : purl \in c.purls} :
             claim \in Meaning!Claims(AdvisoryDoc(a)), c \in Components(SbomDoc(s))}

SameProduct(context, cpe) == context.vendor = cpe.vendor /\ context.product = cpe.product

\* The SBOM describes a product of the stream that is meant: 9 is meant of 9.4, too.
Stream(context, cpe) ==
  /\ SameProduct(context, cpe)
  /\ \/ context.version = cpe.version
     \/ /\ NULL \notin {context.version, cpe.version}
        /\ context.version.rel = <<cpe.version.rel[1]>>

\* What the page of the SBOM has to say: the version is known and affected, and
\* the product that is meant, if one is, is one the SBOM describes.
Expected == [p \in Pairs |->
  {[vuln |-> m.claim.vuln, node |-> m.node, purl |-> m.purl] : m \in {n \in Met(p[1], p[2]) :
     /\ \/ n.claim.context = NULL \/ Describing[p[1]] = {}
        \/ \E cpe \in Describing[p[1]] : Stream(n.claim.context, cpe)
     /\ IF n.claim.kind = "product" THEN n.claim.context # NULL
        ELSE /\ n.version \notin {NULL, Empty}
             /\ Meaning!Certain(n.version, n.claim) /\ Meaning!Inside(n.version, n.claim.events)}}]

\* What it may say.
Justified == [p \in Pairs |->
  {[vuln |-> m.claim.vuln, node |-> m.node, purl |-> m.purl] : m \in {n \in Met(p[1], p[2]) :
     /\ \/ n.claim.context = NULL \/ Describing[p[1]] = {}
        \/ \E cpe \in Describing[p[1]] : SameProduct(n.claim.context, cpe)
     /\ \/ n.claim.kind = "product"
        \/ n.version = NULL   \* a package without version is in every semver range
        \/ ~Meaning!Certain(n.version, n.claim)
        \/ Meaning!Inside(n.version, n.claim.events)}}]

Said(matches) == {[vuln |-> m.vuln, node |-> m.node, purl |-> m.purl] : m \in matches}

\* Whatever an advisory says is affected, by the standard it is written in, is
\* on the page of every SBOM that has it: no loader, comparison or join on the
\* way from the two documents to the page loses it.  Not said are intervals
\* after the first one of a range, versions that are not of three components,
\* and what an advisory with the same identifier has put aside.
AffectedReported ==
  \A s \in sboms : \A a \in Current : Expected[<<s, a>>] \subseteq Said(SbomPage(s, a))

\* And what the page says is affected, the advisory does say, of that very
\* version and of a product the SBOM describes; as far as its versions can be
\* compared.
ReportedAffected ==
  \A s \in sboms : \A a \in Current : Said(SbomPage(s, a)) \subseteq Justified[<<s, a>>]

SameCount(s, shown, counted) ==
  LET owners == {ref[1] : ref \in PackagePurls(s)}
  IN  /\ shown \subseteq counted
      /\ (\A ref \in SbomRow[s].cpes \cup SbomRow[s].purls : ref[1] \in owners) => counted \subseteq shown

\* The counts in the list of SBOMs are of the vulnerabilities on the page of
\* the SBOM, and of others only if those are matched by a CPE of a node without
\* a PURL, or by a PURL of a node that is no package.
CountsAgree ==
  \A s \in sboms :
    SameCount(s, UNION {{m.vuln : m \in SbomPage(s, a)} : a \in Current}, Counted(s))

SamePages(s, a, described, contexts, page, listed) ==
  /\ \A m \in page :
       /\ m.kind # "product" /\ described => m \in listed
       /\ m.kind = "purl" /\ (contexts # {} \/ \A t \in Having(m.purl) : Describing[t] = {})
            => \E row \in PurlPage(m.purl, a) : row.vuln = m.vuln /\ row.status = "affected"
       /\ m.kind # "cpe" /\ m.purl.version # Empty
            => \E row \in Analysis(m.purl, a) : row.vuln = m.vuln
  /\ \A m \in listed :
       m.status = "affected" /\ m.context = NULL /\ m.node \in DOMAIN SbomRow[s].packages => m \in page

\* What the page of an SBOM says of a package, the page of the vulnerability
\* says, too, if the SBOM describes a package; the page of the PURL, unless
\* another SBOM that has the PURL has a context and this one has none; and the
\* analysis, if the PURL has a version.  And of what is on the page of a
\* vulnerability without a context, the page of the SBOM misses no package.
PagesAgree ==
  \A s \in sboms : \A a \in Current :
    SamePages(s, a, DescribesPackage(s), Describing[s], SbomPage(s, a), VulnerabilityPage(s, a))
=============================================================================
