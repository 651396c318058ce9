------------------------------- MODULE PurlGc -------------------------------
(***************************************************************************)
(* The garbage collection of PURLs after the deletion of SBOMs:            *)
(* modules/fundamental/src/sbom/service/gc_purls_after_sbom_deletion.sql.  *)
(* A qualified PURL belongs to a versioned one, that one to a base PURL;   *)
(* an SBOM refers to qualified PURLs and the status of an advisory to base *)
(* PURLs.  The query is the choice of three sets of orphans, from the rows *)
(* its snapshot has.                                                       *)
(***************************************************************************)
EXTENDS FiniteSets

CONSTANTS Qualified, Versioned, Base,
          VersionOf,  \* qualified_purl.versioned_purl_id
          BaseOf      \* versioned_purl.base_purl_id

ASSUME PurlAssumption == /\ VersionOf \in [Qualified -> Versioned]
                         /\ BaseOf \in [Versioned -> Base]
                         /\ Qualified \cap (Versioned \cup Base) = {}
                         /\ Versioned \cap Base = {}

Nodes == Qualified \cup Versioned \cup Base

\* The base PURL a row belongs to.
BaseOfNode(n) == IF n \in Qualified THEN BaseOf[VersionOf[n]]
                 ELSE IF n \in Versioned THEN BaseOf[n] ELSE n

\* The rows of some qualified PURLs: these, their versions and their bases.
Closure(qs) == qs \cup {VersionOf[q] : q \in qs} \cup {BaseOf[VersionOf[q]] : q \in qs}

\* What a DELETE removes with a row: versioned_purl and qualified_purl cascade.
Below(ns) == ns \cup {v \in Versioned : BaseOf[v] \in ns}
                \cup {q \in Qualified : VersionOf[q] \in ns \/ BaseOf[VersionOf[q]] \in ns}

\* What a row has a foreign key to.
Parents(ns) == {VersionOf[q] : q \in ns \cap Qualified}
                 \cup {BaseOf[v] : v \in ns \cap Versioned}

-----------------------------------------------------------------------------
\* captured: the qualified PURLs of the deleted SBOMs; purls: the rows of the
\* three tables; refs: the qualified PURLs other SBOMs refer to; statuses: the
\* base PURLs with a purl_status.

OrphanedQualified(captured, purls, refs, statuses) ==
  {q \in captured : q \notin refs /\ (q \in purls => BaseOf[VersionOf[q]] \notin statuses)}

OrphanedVersioned(orphaned, purls, statuses) ==
  {v \in purls \cap Versioned :
     /\ \E q \in orphaned \cap purls : VersionOf[q] = v
     /\ ~ \E q \in purls \cap Qualified : VersionOf[q] = v /\ q \notin orphaned
     /\ BaseOf[v] \notin statuses}

OrphanedBase(orphaned, purls, statuses) ==
  {b \in purls \cap Base :
     /\ \E v \in orphaned : BaseOf[v] = b
     /\ ~ \E v \in purls \cap Versioned : BaseOf[v] = b /\ v \notin orphaned
     /\ b \notin statuses}

\* The rows the DELETEs of the statement name.
Orphans(captured, purls, refs, statuses) ==
  LET qs == OrphanedQualified(captured, purls, refs, statuses)
      vs == OrphanedVersioned(qs, purls, statuses)
  IN  (qs \cap purls) \cup vs \cup OrphanedBase(vs, purls, statuses)
=============================================================================
