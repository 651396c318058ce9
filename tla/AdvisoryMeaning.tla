--------------------------- MODULE AdvisoryMeaning ---------------------------
(***************************************************************************)
(* What an advisory document says is affected, by the standard it is       *)
(* written in (OSV, CVE record format, NVD, CSAF), apart from what the     *)
(* loaders make of it: the reference that the pages are checked against.   *)
(*                                                                         *)
(* A claim is about a PURL without version, an application CPE or a        *)
(* package name.  What it says of a version is given by events, like those *)
(* of OSV: a version is affected from "introduced" on (or "after" it),     *)
(* until it is "fixed", or past "last_affected".                           *)
(***************************************************************************)
EXTENDS Integers, Sequences, FiniteSets

CONSTANT NULL

\* A version as a sequence of numbers that compares as the version does: four
\* components, the missing ones 0, and then the rank of a release or those of
\* the pre-release identifiers.  Python's marks follow: a post-release is newer, a
\* development release older, even than the first pre-release if it is of the release
\* itself, and a local version newer.
Digits(v) ==
  LET mark(m, none) == IF m \in DOMAIN v.marks THEN v.marks[m] ELSE none
      release == IF "dev" \in DOMAIN v.marks /\ "post" \notin DOMAIN v.marks THEN 0 ELSE 99
  IN  [i \in 1..11 |->
         CASE i <= 4 -> IF i <= Len(v.rel) THEN v.rel[i] ELSE 0
           [] i \in 5..8 -> IF i - 4 <= Len(v.pre) THEN v.pre[i - 4]
                            ELSE IF i = 5 THEN release ELSE 0
           [] i = 9 -> mark("post", 0)
           [] i = 10 -> mark("dev", 99)
           [] OTHER -> mark("local", 0)]

Less(v, w) ==
  LET s == Digits(v)  t == Digits(w)
  IN  \E i \in 1..11 : s[i] < t[i] /\ \A j \in 1..i - 1 : s[j] = t[j]

\* A version that is nothing but numbers and pre-release identifiers.
Plain(rel, pre) == [rel |-> rel, pre |-> pre, marks |-> <<>>]

\* Less than every version.
Lowest == Plain(<<0, 0, 0>>, <<0>>)

Event(kind, version) == [kind |-> kind, version |-> version]
Only(v) == {Event("introduced", v), Event("last_affected", v)}

Claim(kind, vuln, key, context, scheme, events) ==
  [kind |-> kind, vuln |-> vuln, key |-> key, context |-> context, scheme |-> scheme,
   events |-> events]

\* Whether a version is affected.
Inside(v, events) ==
  \E start \in {e \in events : e.kind \in {"introduced", "after"}} :
    /\ IF start.kind = "introduced" THEN ~Less(v, start.version) ELSE Less(start.version, v)
    /\ \A e \in events :
         /\ e.kind = "fixed" => ~(Less(start.version, e.version) /\ ~Less(v, e.version))
         /\ e.kind = "last_affected" => ~(~Less(e.version, start.version) /\ Less(e.version, v))

-----------------------------------------------------------------------------
(* OSV: listed versions are affected, and those within a range.  Commits and *)
(* the versions of an ecosystem that is not known have no order: the events  *)
(* of such a range stand for nothing but the versions they name.             *)

Ecosystems ==
  [Maven |-> "maven", PyPI |-> "python", Python |-> "python", Go |-> "semver", npm |-> "semver",
   Packagist |-> "semver", NuGet |-> "semver", RubyGems |-> "semver", Hex |-> "semver",
   SwiftURL |-> "semver", Pub |-> "semver", cratesio |-> "semver"]

OrderOf(affected, range) ==
  CASE range.type = "SEMVER" -> "semver"
    [] range.type = "ECOSYSTEM" /\ affected.ecosystem \in DOMAIN Ecosystems ->
         Ecosystems[affected.ecosystem]
    [] OTHER -> "none"

EventsOf(range) == {range.events[i] : i \in DOMAIN range.events}

OsvClaims(doc) ==
  UNION {UNION {
      {Claim("purl", vuln, purl, NULL, "equality", Only(affected.versions[i])) :
         i \in DOMAIN affected.versions}
      \cup {Claim("purl", vuln, purl, NULL, OrderOf(affected, range), EventsOf(range)) :
              range \in affected.ranges} : purl \in affected.purls} :
    vuln \in doc.aliases, affected \in doc.affected}

-----------------------------------------------------------------------------
(* CVE records: what an entry with status affected says *)

OrderOfType(type) ==
  CASE type \in {"maven", "python", "rpm"} -> type
    [] type \in {"semver", "npm"} -> "semver"
    [] OTHER -> "none"

EntryEvents(v) ==
  CASE v.kind = "single" -> Only(v.version)
    [] v.kind = "lessThan" -> {Event("introduced", v.version), Event("fixed", v.upper)}
    [] OTHER -> {Event("introduced", v.version), Event("last_affected", v.upper)}

EntryClaim(kind, doc, key, v) ==
  Claim(kind, doc.id, key, NULL, IF v.kind = "single" THEN "equality" ELSE OrderOfType(v.type),
        EntryEvents(v))

CveClaims(doc) ==
  UNION {LET affected == {v \in p.versions : v.status = "affected"}
         IN  {EntryClaim("purl", doc, p.purl, v) : v \in {w \in affected : p.purl # NULL}}
             \cup {EntryClaim("cpe", doc, [cpe EXCEPT !.version = NULL], v) :
                     cpe \in p.cpes, v \in affected}
             \cup {Claim("cpe", doc.id, [cpe EXCEPT !.version = NULL], NULL, "equality",
                         Only(cpe.version)) :
                     cpe \in {c \in p.cpes : /\ p.versions = {} /\ p.defaultStatus = "affected"
                                             /\ c.version # NULL}} :
           p \in {q \in doc.products : ~doc.rejected}}

-----------------------------------------------------------------------------
(* NVD: a match without bounds is about the version of its CPE, or about all *)

MatchEvents(m) ==
  IF m.low.version = NULL /\ m.high.version = NULL /\ m.cpe.version # NULL
  THEN Only(m.cpe.version)
  ELSE {IF m.low.version = NULL THEN Event("introduced", Lowest)
        ELSE Event(IF m.low.inclusive THEN "introduced" ELSE "after", m.low.version)}
       \cup {Event(IF m.high.inclusive THEN "last_affected" ELSE "fixed", m.high.version) :
               x \in {y \in {1} : m.high.version # NULL}}

NvdClaims(doc) ==
  {Claim("cpe", doc.id, [m.cpe EXCEPT !.version = NULL], NULL, "semver", MatchEvents(m)) :
     m \in {n \in doc.matches : n.vulnerable}}

-----------------------------------------------------------------------------
(* CSAF: a component of a product is affected where the product is meant.  A *)
(* fix by Red Hat says of what is older than it that it is affected.         *)

PartsOf(doc, id) ==
  IF id \in DOMAIN doc.relationships
  THEN [product |-> doc.relationships[id].relatesTo, component |-> doc.relationships[id].reference]
  ELSE [product |-> id, component |-> id]

Branches(doc, id) == IF id \in DOMAIN doc.tree THEN {doc.tree[id][i] : i \in DOMAIN doc.tree[id]} ELSE {}

\* The CPE of the product that is meant, or NULL.
ContextOf(doc, id) ==
  LET named == {b \in Branches(doc, PartsOf(doc, id).product) :
                  b.category = "product_name" /\ b.cpe # NULL}
  IN  IF named = {} THEN NULL ELSE (CHOOSE b \in named : TRUE).cpe

ComponentBranches(doc, id) ==
  {b \in Branches(doc, PartsOf(doc, id).component) : b.category \notin {"vendor", "product_name"}}

StatedPurls(doc, id) == {b.purl : b \in {c \in ComponentBranches(doc, id) : c.purl # NULL}}
StatedNames(doc, id) ==
  {b.name : b \in {c \in ComponentBranches(doc, id) : c.purl = NULL /\ c.category = "product_version"}}

AffectedClaims(doc, vuln, id) ==
  {Claim("purl", vuln, p.base, ContextOf(doc, id), "equality", Only(p.version)) :
     p \in StatedPurls(doc, id)}
  \cup {Claim("product", vuln, name, ContextOf(doc, id), "name", {Event("introduced", Lowest)}) :
          name \in StatedNames(doc, id)}

FixClaims(doc, vuln, id) ==
  {Claim("purl", vuln, p.base, ContextOf(doc, id), OrderOfType(p.type),
         {Event("introduced", Lowest), Event("fixed", p.version)}) :
     p \in {q \in StatedPurls(doc, id) : /\ ContextOf(doc, id) # NULL
                                         /\ ContextOf(doc, id).vendor = "redhat"}}

CsafClaims(doc) ==
  UNION {(UNION {AffectedClaims(doc, v.cve, id) : id \in v.known_affected})
         \cup UNION {FixClaims(doc, v.cve, id) : id \in v.fixed} :
           v \in {w \in doc.vulnerabilities : w.cve # NULL}}

Claims(doc) ==
  CASE doc.type = "osv" -> OsvClaims(doc)
    [] doc.type = "cve" -> CveClaims(doc)
    [] doc.type = "nvd" -> NvdClaims(doc)
    [] OTHER -> CsafClaims(doc)

-----------------------------------------------------------------------------
(* Where the program takes a claim for what it says: the versions it names   *)
(* and the version it is applied to can be compared, and it has one interval *)

\* A fourth component is compared as text, which is the order of numbers up to 9, and
\* a qualifier after one is not taken for a pre-release.
ComparableBuild(v, w) ==
  /\ {Len(v.rel), Len(w.rel)} \subseteq 1..4
  /\ \A x \in {v, w} : Len(x.rel) = 4 => x.rel[4] \in 1..9
  /\ Len(v.rel) = 4 /\ Len(w.rel) = 4 => (v.pre = <<>>) = (w.pre = <<>>)

\* No version whose parts the database cannot tell apart, and not a pre-release with a
\* development release of the release itself.
ComparableMarks(v, w) ==
  /\ {Len(v.rel), Len(w.rel)} \subseteq 1..3
  /\ \A x \in {v, w} :
       /\ Len(x.pre) <= 1
       /\ {"post", "dev"} \cap DOMAIN x.marks # {} => Len(x.rel) = 3 \/ x.pre # <<>>
  /\ \A x, y \in {v, w} :
       x.pre # <<>> => ~("dev" \in DOMAIN y.marks /\ "post" \notin DOMAIN y.marks /\ y.pre = <<>>)

\* The database's order of versions is that of Less for versions of three
\* components; with Maven's and Python's a shorter version will do.
Comparable(scheme, v, w) ==
  CASE scheme = "semver" -> {Len(v.rel), Len(w.rel)} = {3}
    [] scheme = "rpm" -> Len(v.rel) = Len(w.rel)
    [] scheme = "maven" -> ComparableBuild(v, w)
    [] scheme = "python" -> ComparableMarks(v, w)
    [] scheme = "equality" -> v = w \/ {Len(v.rel), Len(w.rel)} = {3}
    [] OTHER -> FALSE

\* OSV's "introduced": "0", as far as it includes: no pre-release of 0.
FromZero(scheme, v, e) ==
  /\ scheme = "semver" /\ e.kind = "introduced" /\ e.version = Plain(<<0>>, <<>>)
  /\ Len(v.rel) = 3 /\ v.pre = <<>>

OneInterval(events) ==
  \E start \in {e \in events : e.kind \in {"introduced", "after"}} :
    LET ends == events \ {start}
    IN  /\ Cardinality(ends) <= 1
        /\ \A e \in ends : \/ e.kind = "fixed" /\ Less(start.version, e.version)
                           \/ e.kind = "last_affected" /\ ~Less(e.version, start.version)

Certain(v, claim) ==
  \/ claim.scheme = "name"
  \/ /\ OneInterval(claim.events)
     /\ \E e \in claim.events : e.version # Lowest
     /\ \A e \in claim.events : \/ e.version = Lowest
                                \/ FromZero(claim.scheme, v, e)
                                \/ Comparable(claim.scheme, v, e.version)
=============================================================================
