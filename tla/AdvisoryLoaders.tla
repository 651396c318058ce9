--------------------------- MODULE AdvisoryLoaders ---------------------------
(***************************************************************************)
(* What the loaders of the ingestor make of an advisory document: the rows *)
(* of tables purl_status, cpe_status and product_status.                   *)
(*                                                                         *)
(*   modules/ingestor/src/service/advisory/{osv,cve,nvd,csaf}/**           *)
(*                                                                         *)
(* A document is a record of what the loader reads in it.  PURLs without   *)
(* version and qualifiers are members of Base, a PURL is [base, type,      *)
(* version], and a CPE is [part, vendor, product, version] where version   *)
(* may be ANY (NULL).                                                      *)
(***************************************************************************)
EXTENDS Versions, SequencesExt

\* A row [kind, vuln, key, status, range, context]: key is the base PURL, the
\* identity CPE, or the package name (NULL for the product as a whole).
Row(kind, vuln, key, status, range, context) ==
    [kind |-> kind, vuln |-> vuln, key |-> key, status |-> status,
     range |-> range, context |-> context]

-----------------------------------------------------------------------------
(* OSV *)

\* Ecosystems with a version scheme; the others depend on listed versions.
EcosystemScheme ==
    [Maven |-> "maven", PyPI |-> "python", Python |-> "python", Go |-> "golang", npm |-> "npm",
     Packagist |-> "packagist", NuGet |-> "nuget", RubyGems |-> "gem",
     Hex |-> "hex", SwiftURL |-> "swift", Pub |-> "pub", cratesio |-> "cargo"]

IsEnd(event) == event.kind \in {"fixed", "last_affected"}

FirstEvent(events, Test(_)) ==
    LET S == {i \in DOMAIN events : Test(events[i])}
    IN  IF S = {} THEN NULL ELSE events[Min(S)]

\* Mutant of EndBound: the last affected version is not affected.
EndBoundExclusive(end) == IF end = NULL THEN Unbounded ELSE Exclusive(end.version)

\* Mutant of EndBound: the fix is affected.
EndBoundInclusive(end) == IF end = NULL THEN Unbounded ELSE Inclusive(end.version)

EndBound(end) ==
    IF end = NULL THEN Unbounded
    ELSE IF end.kind = "fixed" THEN Exclusive(end.version) ELSE Inclusive(end.version)

\* The first introduced and the first end event make the only range.
build_package_status(vuln, purl, events, scheme) ==
    LET start == FirstEvent(events, LAMBDA e : e.kind = "introduced")
        end == FirstEvent(events, IsEnd)
        low == IF start = NULL THEN Unbounded ELSE Inclusive(start.version)
    IN  {Row("purl", vuln, purl, "affected", VersionRange(scheme, low, EndBound(end)), NULL) :
           x \in {1} \ {y \in {1} : start = NULL /\ end = NULL}}
        \cup {Row("purl", vuln, purl, "fixed", Exact(scheme, end.version), NULL) :
           x \in {y \in {1} : end # NULL /\ end.kind = "fixed"}}

\* The listed versions from start on, up to the next end; none if the list
\* does not have start.
match_versions(versions, start, end) ==
    LET S == {i \in DOMAIN versions : versions[i] = start}
        E == {i \in DOMAIN versions : i > Min(S) /\ end # NULL /\ versions[i] = end}
        last == IF E = {} THEN Len(versions) ELSE Min(E) - 1
    IN  IF S = {} THEN {} ELSE {versions[i] : i \in Min(S)..last}

\* Every end event closes the range the last introduced event opened, if none
\* has closed it before; what is open in the end has no end.
build_package_status_versions(vuln, purl, events, versions) ==
    LET n == Len(events) + 1
        Open(i) == {j \in 1..i - 1 : /\ events[j].kind = "introduced"
                                     /\ \A k \in j..i - 1 : ~IsEnd(events[k])}
        Ends == {i \in DOMAIN events : IsEnd(events[i])}
        Affected(i) == IF Open(i) = {} THEN {}
                       ELSE match_versions(versions, events[Max(Open(i))].version,
                              IF i = n THEN NULL ELSE events[i].version)
    IN  {Row("purl", vuln, purl, "affected", Exact("generic", v), NULL) :
           v \in UNION {Affected(i) : i \in Ends \cup {n}}}
        \cup {Row("purl", vuln, purl, "fixed", Exact("generic", events[i].version), NULL) :
           i \in Ends}

RangeRows(vuln, purl, affected, range) ==
    CASE range.type = "SEMVER" ->
           build_package_status(vuln, purl, range.events, "semver")
      [] range.type = "GIT" -> build_package_status(vuln, purl, range.events, "git")
      [] range.type = "ECOSYSTEM" /\ affected.ecosystem \in DOMAIN EcosystemScheme ->
           build_package_status(vuln, purl, range.events, EcosystemScheme[affected.ecosystem])
      [] OTHER ->
           build_package_status_versions(vuln, purl, range.events, affected.versions)

\* doc.aliases are the aliases that start with CVE-; affected.purls is what
\* the ecosystem and name of the package and its PURL translate to.
OsvRows(doc) ==
    LET rows(vuln, affected, purl) ==
          {Row("purl", vuln, purl, "affected", Exact("generic", affected.versions[i]), NULL) :
             i \in DOMAIN affected.versions}
          \cup UNION {RangeRows(vuln, purl, affected, range) : range \in affected.ranges}
    IN  UNION {UNION {rows(vuln, affected, purl) : vuln \in doc.aliases, purl \in affected.purls} :
                 affected \in doc.affected}

-----------------------------------------------------------------------------
(* CVE records *)

SchemeOfType(type) ==
    CASE type \in {"commit", "git"} -> "git"
      [] type \in {"maven", "python", "rpm"} -> type
      [] type \in {"npm", "semver"} -> "semver"
      [] OTHER -> "generic"

\* A version is [version, kind, upper, type, status] where kind is "single",
\* "lessThan" or "lessThanOrEqual".
version_spec_and_status(v) ==
    LET scheme == SchemeOfType(v.type)
    IN  CASE v.kind = "single" -> Exact(scheme, v.version)
          [] v.kind = "lessThan" ->
               VersionRange(scheme, Inclusive(v.version), Exclusive(v.upper))
          [] OTHER -> VersionRange(scheme, Inclusive(v.version), Inclusive(v.upper))

status_slug(status) == IF status = "unaffected" THEN "not_affected" ELSE status

with_any_version(cpe) == [cpe EXCEPT !.version = NULL]

\* A product: [purl, cpes, versions, defaultStatus]; purl is the Maven PURL
\* divine_purl finds, or NULL.
ProductRows(vuln, product) ==
    {Row("purl", vuln, product.purl, status_slug(v.status), version_spec_and_status(v), NULL) :
       v \in {w \in product.versions : product.purl # NULL}}
    \cup {Row("cpe", vuln, with_any_version(cpe), status_slug(v.status),
              version_spec_and_status(v), NULL) :
       cpe \in product.cpes, v \in {w \in product.versions : w.status # "unknown"}}
    \cup {Row("cpe", vuln, with_any_version(cpe), status_slug(product.defaultStatus),
              Exact("generic", cpe.version), NULL) :
       cpe \in {c \in product.cpes : /\ product.versions = {} /\ c.version # NULL
                                     /\ product.defaultStatus # "unknown"}}

\* doc.products: what the CNA says is affected and what an ADP adds to it.
CveRows(doc) ==
    IF doc.rejected THEN {} ELSE UNION {ProductRows(doc.id, p) : p \in doc.products}

\* There is no status "unknown" in table status: a PURL with one fails the upload.
CveLoads(doc) == \A row \in CveRows(doc) : row.status # "unknown"

-----------------------------------------------------------------------------
(* NVD records *)

\* A match is [vulnerable, cpe, low, high], its bounds as in a version range.
version_spec(match) ==
    IF match.low # Unbounded \/ match.high # Unbounded
    THEN VersionRange("semver", match.low, match.high)
    ELSE IF match.cpe.version # NULL THEN Exact("semver", match.cpe.version)
    ELSE NULL

NvdRows(doc) ==
    {Row("cpe", doc.id, with_any_version(m.cpe), "affected", version_spec(m), NULL) :
       m \in {n \in doc.matches : n.vulnerable /\ version_spec(n) # NULL}}

-----------------------------------------------------------------------------
(* CSAF documents *)

\* The version of a product stream: what a CPE like rhel:9.4 names is 9.4 and
\* all that is newer below 10.  (Versions of CPEs that are not numbers, which
\* match as they are, do not occur.)
set_version(name) ==
    IF name.cpe # NULL
    THEN IF name.cpe.version = NULL THEN VersionRange("semver", Unbounded, Unbounded)
         ELSE VersionRange("rpm",
                Inclusive(Version([i \in 1..3 |-> IF i \in DOMAIN name.cpe.version.rel
                                       THEN name.cpe.version.rel[i] ELSE 0], <<>>)),
                Exclusive(Version(<<name.cpe.version.rel[1] + 1, 0, 0>>, <<>>)))
    ELSE IF name.purl # NULL /\ name.purl.version # Empty
    THEN Exact("semver", name.purl.version)
    ELSE NULL

\* A branch: [category, name, cpe, purl], where the name of a product version
\* without an identification helper is the ID of its product.
update_from_branch(p, branch) ==
    CASE branch.category = "product_name" ->
           [p EXCEPT !.version = set_version(branch),
                     !.cpe = IF branch.cpe # NULL THEN branch.cpe ELSE @]
      [] branch.category = "vendor" -> p
      [] branch.category = "product_version" /\ branch.purl = NULL ->
           [p EXCEPT !.packages = @ \cup {branch.name}]
      [] OTHER -> [p EXCEPT !.purls = @ \cup {x \in {branch.purl} : x # NULL}]

\* doc.tree maps product IDs to the branches that lead to them.
Trace(doc, p, id) ==
    IF id \in DOMAIN doc.tree THEN FoldLeft(update_from_branch, p, doc.tree[id]) ELSE p

\* doc.relationships maps the ID of a relationship to what it relates; the
\* product comes first and the component in it second.
Resolved(doc, id) ==
    LET none == [cpe |-> NULL, version |-> NULL, purls |-> {}, packages |-> {}]
    IN  IF id \in DOMAIN doc.relationships
        THEN Trace(doc, Trace(doc, none, doc.relationships[id].relatesTo),
                   doc.relationships[id].reference)
        ELSE Trace(doc, none, id)

\* A product without a version has no row of its own; a PURL without a version
\* gets a range without bounds.  A fix by Red Hat says that what is older is
\* affected.
StatusRows(doc, vuln, status, id) ==
    LET p == Resolved(doc, id)
        scheme(purl) == SchemeOfType(purl.type)
        any(purl) == VersionRange(scheme(purl), Unbounded, Unbounded)
    IN  {Row("product", vuln, package, status, p.version, p.cpe) :
           package \in {q \in p.packages \cup {NULL} :
                          p.version # NULL /\ (q = NULL) = (p.packages = {})}}
        \cup {Row("purl", vuln, purl.base, status,
                  IF purl.version = Empty THEN any(purl) ELSE Exact(scheme(purl), purl.version),
                  p.cpe) : purl \in p.purls}
        \cup {Row("purl", vuln, purl.base, "affected",
                  VersionRange(scheme(purl), Unbounded, Exclusive(purl.version)), p.cpe) :
                purl \in {q \in p.purls : /\ status = "fixed" /\ q.version # Empty
                                          /\ p.cpe # NULL /\ p.cpe.vendor = "redhat"}}

\* doc.vulnerabilities: [cve, fixed, known_not_affected, known_affected], the
\* last three sets of product IDs.
CsafRows(doc) ==
    LET rows(v, status, ids) == UNION {StatusRows(doc, v.cve, status, id) : id \in ids}
    IN  UNION {UNION {rows(v, "fixed", v.fixed), rows(v, "not_affected", v.known_not_affected),
                      rows(v, "affected", v.known_affected)} :
                 v \in {w \in doc.vulnerabilities : w.cve # NULL}}

-----------------------------------------------------------------------------

\* The rows a document leaves in the database, and the vulnerabilities it is
\* linked to.
AdvisoryRows(doc) ==
    CASE doc.type = "osv" -> OsvRows(doc)
      [] doc.type = "cve" -> CveRows(doc)
      [] doc.type = "nvd" -> NvdRows(doc)
      [] OTHER -> CsafRows(doc)

Loads(doc) == doc.type = "cve" => CveLoads(doc)

Vulnerabilities(doc) ==
    CASE doc.type = "osv" -> doc.aliases
      [] doc.type = "csaf" -> {v.cve : v \in {w \in doc.vulnerabilities : w.cve # NULL}}
      [] OTHER -> {doc.id}
=============================================================================
