----------------------------- MODULE Correlation -----------------------------
(***************************************************************************)
(* What the service knows about which packages are affected by which       *)
(* vulnerabilities: SBOMs and advisories are ingested and deleted in any   *)
(* order, and what one of them leaves in the tables depends on the others  *)
(* that are there.  AdvisoryLoaders and SbomLoaders say which rows a       *)
(* document makes of its own; this module has the rows that several        *)
(* documents share:                                                        *)
(*                                                                         *)
(*   advisory.deprecated   common/src/db/func.rs, migration                *)
(*   vulnerability         ingestor/src/graph/vulnerability/creator.rs     *)
(*   product_version       ingestor/src/graph/product/**                   *)
(*   sbom_ancestor         ingestor/src/graph/sbom/mod.rs                  *)
(*                                                                         *)
(* An SBOM is ingested in one transaction whose statements read what other *)
(* transactions have committed at two points; in between, and before it    *)
(* commits, anything may happen.                                           *)
(***************************************************************************)
EXTENDS AdvisoryLoaders, SbomLoaders

CONSTANTS Sboms, Advisories,              \* keys of documents
          SbomDoc(_), AdvisoryDoc(_),     \* the documents
          Corpora                         \* what behaviours work with: [sboms, advisories],
                                          \* and what they ask, for module Traversal

ASSUME CorrelationAssumption ==
  /\ UNION {c.sboms : c \in Corpora} \subseteq Sboms
  /\ UNION {c.advisories : c \in Corpora} \subseteq Advisories
  /\ NULL \notin Sboms \cup Advisories

VARIABLES corpus,     \* chosen once
          sboms, advisories, \* committed
          ingest,     \* the SBOMs that are being ingested, with what is not committed
          ancestors,  \* sbom_ancestor: pairs <<component SBOM, product SBOM>>
          links,      \* product_version: [product, version, by, sbom]
          data,       \* the record a vulnerability's columns are from, or NULL
          authority,  \* vulnerability.authoritative_advisory_id
          excuse      \* history, for the properties

vars == <<corpus, sboms, advisories, ingest, ancestors, links, data, authority, excuse>>

SbomRow == [s \in Sboms |-> SbomRows(SbomDoc(s))]
AdvisoryRow == [a \in Advisories |-> AdvisoryRows(AdvisoryDoc(a))]
VulnsOf(a) == Vulnerabilities(AdvisoryDoc(a))
Describing == [s \in Sboms |-> describing_cpes(SbomRow[s])]
Vulns == UNION {VulnsOf(a) : a \in corpus.advisories}

\* What populate_ancestors joins: a component of the product SBOM t that is
\* external has a checksum that a node of SBOM s has, too.
Links == [p \in Sboms \X Sboms |->
            p[1] # p[2] /\ ReferredChecksums(SbomRow[p[2]]) \cap ChecksumValues(SbomRow[p[1]]) # {}]

-----------------------------------------------------------------------------
Init ==
  /\ corpus \in Corpora
  /\ sboms = {} /\ advisories = {} /\ ancestors = {} /\ links = {}
  /\ ingest = [s \in {} |-> {}]
  /\ data = [v \in Vulns |-> NULL]
  /\ authority = [v \in Vulns |-> NULL]
  /\ excuse = [overlapped |-> {}, unlinked |-> {}, stale |-> {}, overwritten |-> {}]

Without(f, x) == [y \in DOMAIN f \ {x} |-> f[y]]

\* Mutant of ingest_product_version: the version is not part of the look-up.
ingest_product_by_name(s, product) ==
  LET found == {l \in links : l.product = product.name}
      new == [product |-> product.name, version |-> product.version, by |-> s, sbom |-> NULL]
  IN  IF found = {} THEN {new} ELSE {l \in found : l.sbom = NULL}

\* ingest_product_version, for one product: a version that is there already is
\* linked only if it has no SBOM.
ingest_product_version(s, product) ==
  LET found == {l \in links : l.product = product.name /\ l.version = product.version}
      new == [product |-> product.name, version |-> product.version, by |-> s, sbom |-> NULL]
  IN  IF found = {} THEN {new} ELSE {l \in found : l.sbom = NULL}

\* The transaction begins, and the products of the document are looked up.
StartSbom(s) ==
  /\ s \notin sboms \cup DOMAIN ingest
  /\ SbomRow[s].loads
  /\ LET versions == {p \in SbomRow[s].products : p.version # NULL}
     IN  ingest' = [t \in {s} \cup DOMAIN ingest |->
                      IF t = s THEN [built |-> FALSE, ancestors |-> {},
                                     links |-> UNION {ingest_product_version(s, p) : p \in versions}]
                      ELSE ingest[t]]
  /\ excuse' = [excuse EXCEPT !.overlapped = @ \cup {{s, t} : t \in DOMAIN ingest}]
  /\ UNCHANGED <<corpus, sboms, advisories, ancestors, links, data, authority>>

\* Mutant of populate_ancestors: only the SBOMs that the new one is a part of.
populate_product_ancestors(s) ==
  /\ s \in DOMAIN ingest /\ ~ingest[s].built
  /\ ingest' = [ingest EXCEPT ![s].built = TRUE,
                              ![s].ancestors = {p \in {s} \X sboms : Links[p]}]
  /\ UNCHANGED <<corpus, sboms, advisories, ancestors, links, data, authority, excuse>>

\* Nodes and relationships are inserted, and then the links to the SBOMs that
\* others have committed by now.
populate_ancestors(s) ==
  /\ s \in DOMAIN ingest /\ ~ingest[s].built
  /\ ingest' = [ingest EXCEPT ![s].built = TRUE,
                              ![s].ancestors = {p \in {s} \X sboms \cup sboms \X {s} : Links[p]}]
  /\ UNCHANGED <<corpus, sboms, advisories, ancestors, links, data, authority, excuse>>

CommitSbom(s) ==
  /\ s \in DOMAIN ingest /\ ingest[s].built
  /\ sboms' = sboms \cup {s}
  /\ ancestors' = ancestors \cup ingest[s].ancestors
  /\ LET mine(l) == \E k \in ingest[s].links :
                      k.product = l.product /\ k.version = l.version /\ k.by = l.by
         all == {[l EXCEPT !.sbom = IF mine(l) THEN s ELSE @] : l \in links}
                \cup {[k EXCEPT !.sbom = s] : k \in ingest[s].links}
     IN  /\ links' = all
         /\ excuse' = [excuse EXCEPT !.unlinked =
              {u \in @ : \A l \in all : u # <<l.product, l.version>> \/ l.sbom = NULL}]
  /\ ingest' = Without(ingest, s)
  /\ UNCHANGED <<corpus, advisories, data, authority>>

\* An error, or the client goes away: the transaction is rolled back.
AbortSbom(s) ==
  /\ s \in DOMAIN ingest
  /\ ingest' = Without(ingest, s)
  /\ UNCHANGED <<corpus, sboms, advisories, ancestors, links, data, authority, excuse>>

\* Rows of ancestors go with the SBOM, product versions stay without one.  The
\* foreign keys of an ingestion hold the deletion of an SBOM it is linked to.
DeleteSbom(s) ==
  /\ s \in sboms
  /\ \A t \in DOMAIN ingest : \A p \in ingest[t].ancestors : s \notin {p[1], p[2]}
  /\ sboms' = sboms \ {s}
  /\ ancestors' = {p \in ancestors : s \notin {p[1], p[2]}}
  /\ links' = {[l EXCEPT !.sbom = IF @ = s THEN NULL ELSE @] : l \in links}
  /\ excuse' = [excuse EXCEPT
       !.overlapped = {o \in @ : s \notin o},
       !.unlinked = @ \cup {<<l.product, l.version>> : l \in {k \in links : k.sbom = s}}]
  /\ UNCHANGED <<corpus, advisories, ingest, data, authority>>

-----------------------------------------------------------------------------

\* advisory.modified decides which of the advisories of an identifier is the
\* current one.  The identifier of a CVE record and of the NVD record is the
\* same, the ID of the vulnerability.
Newer(a, b) == /\ AdvisoryDoc(a).id = AdvisoryDoc(b).id
               /\ AdvisoryDoc(a).modified > AdvisoryDoc(b).modified
deprecated(a) == \E b \in advisories : Newer(b, a)

IsCve(a) == AdvisoryDoc(a).type = "cve"
Records(a) == {b \in advisories : IsCve(b) /\ VulnsOf(b) = VulnsOf(a)}

\* Mutant of ClaimsAuthority: NVD's record claims the authority, too.
AnyRecordClaims(a) == AdvisoryDoc(a).type \in {"cve", "nvd"}

\* The creator has an authority only from the loader of CVE records.
ClaimsAuthority(a) == IsCve(a)

\* VulnerabilityCreator: a record overwrites the columns of the vulnerability,
\* an advisory without data makes sure it is there.
WritesData(a) == AdvisoryDoc(a).type \in {"cve", "nvd"}

\* ... and only the record of the CVE list claims to be authoritative.  All of
\* that happens also when the document has been there before.
IngestAdvisory(a) ==
  /\ a \in corpus.advisories
  /\ Loads(AdvisoryDoc(a))
  /\ advisories' = advisories \cup {a}
  /\ data' = [v \in DOMAIN data |-> IF v \in VulnsOf(a) /\ WritesData(a) THEN a ELSE data[v]]
  /\ authority' = [v \in DOMAIN data |-> IF v \in VulnsOf(a) /\ ClaimsAuthority(a) THEN a ELSE authority[v]]
  /\ excuse' = [excuse EXCEPT
       !.overwritten = IF AdvisoryDoc(a).type = "nvd" THEN @ \cup VulnsOf(a)
                       ELSE IF IsCve(a) THEN @ \ VulnsOf(a) ELSE @,
       !.stale = IF ~IsCve(a) THEN @
                 ELSE IF \E b \in Records(a) : Newer(b, a) THEN @ \cup VulnsOf(a)
                 ELSE @ \ VulnsOf(a)]
  /\ UNCHANGED <<corpus, sboms, ingest, ancestors, links>>

\* Statuses go with the advisory; a vulnerability stays, with the data it has.
DeleteAdvisory(a) ==
  /\ a \in advisories
  /\ advisories' = advisories \ {a}
  /\ authority' = [v \in DOMAIN authority |-> IF authority[v] = a THEN NULL ELSE authority[v]]
  /\ excuse' = [excuse EXCEPT !.stale = @ \cup {v \in VulnsOf(a) : a = authority[v]}]
  /\ UNCHANGED <<corpus, sboms, ingest, ancestors, links, data>>

Next ==
  \/ \E s \in corpus.sboms : \/ StartSbom(s) \/ populate_ancestors(s) \/ CommitSbom(s)
                             \/ AbortSbom(s) \/ DeleteSbom(s)
  \/ \E a \in corpus.advisories : IngestAdvisory(a) \/ DeleteAdvisory(a)

Spec == Init /\ [][Next]_vars

-----------------------------------------------------------------------------

\* A component SBOM is linked to the product SBOMs that refer to it by a
\* checksum, whichever of the two is ingested first, unless they were ingested
\* at the same time: then neither transaction sees the other.
AncestorsComplete ==
  \A p \in sboms \X sboms :
    \/ (p \in ancestors) <=> Links[p]
    \/ {p[1], p[2]} \in excuse.overlapped

\* A product version that SBOMs name is linked to one of them, so that the
\* statuses of the product reach it; unless the one it was linked to has been
\* deleted, for the others are never linked then.
ProductLinked ==
  \A s \in sboms : \A p \in SbomRow[s].products :
    p.version # NULL /\ <<p.name, p.version>> \notin excuse.unlinked =>
      \E l \in links : /\ l.product = p.name /\ l.version = p.version
                       /\ l.sbom \in sboms

\* A vulnerability names the newest record of the CVE list as its authority and
\* shows what that says, unless an older record has been ingested after it or the
\* authority has been deleted; the data are NVD's, however, if its record has been
\* ingested after it.  An authority is never a record that is gone.
CveRecordStands ==
  /\ \A v \in Vulns : authority[v] \in {NULL} \cup advisories
  /\ \A v \in Vulns \ excuse.stale : \A a \in advisories :
       IsCve(a) /\ VulnsOf(a) = {v} /\ (\A b \in Records(a) \ {a} : Newer(a, b)) =>
         authority[v] = a /\ (v \notin excuse.overwritten => data[v] = a)
=============================================================================
