-------------------------- MODULE Correlation_proofs --------------------------
(***************************************************************************)
(* Proofs about Correlation and what is read from its tables, by the pages *)
(* of Views and the walks of Traversal, for any documents and any number   *)
(* of SBOMs that are ingested at a time.                                   *)
(***************************************************************************)
EXTENDS Views, Traversal, TLAPS

-----------------------------------------------------------------------------
(* Types *)

IsLink(l) == l = [product |-> l.product, version |-> l.version, by |-> l.by, sbom |-> l.sbom]

IngestTyped(s) ==
  /\ ingest[s] = [built |-> ingest[s].built, ancestors |-> ingest[s].ancestors, links |-> ingest[s].links]
  /\ ingest[s].built \in BOOLEAN
  /\ \A k \in ingest[s].links : IsLink(k) /\ k.sbom = NULL

\* What is committed and what is being ingested are of the corpus.
Typed ==
  /\ corpus \in Corpora
  /\ sboms \subseteq corpus.sboms /\ advisories \subseteq corpus.advisories
  /\ ingest = [s \in DOMAIN ingest |-> ingest[s]]
  /\ DOMAIN ingest \subseteq corpus.sboms \ sboms
  /\ \A s \in DOMAIN ingest : IngestTyped(s)
  /\ \A l \in links : IsLink(l) /\ l.sbom \in {NULL} \cup sboms
  /\ DOMAIN data = Vulns /\ DOMAIN authority = Vulns
  /\ data = [v \in Vulns |-> data[v]] /\ authority = [v \in Vulns |-> authority[v]]
  /\ excuse = [overlapped |-> excuse.overlapped, unlinked |-> excuse.unlinked,
               stale |-> excuse.stale, overwritten |-> excuse.overwritten]

-----------------------------------------------------------------------------
LEMMA InitTyped == Init => Typed
  BY DEF Init, Typed, Vulns

LEMMA StartTyped ==
  ASSUME Typed, NEW s \in corpus.sboms, StartSbom(s)
  PROVE  Typed'
<1> DEFINE versions == {p \in SbomRow[s].products : p.version # NULL}
           mine == UNION {ingest_product_version(s, p) : p \in versions}
<1>1. /\ DOMAIN ingest' = {s} \cup DOMAIN ingest
      /\ ingest'[s] = [built |-> FALSE, ancestors |-> {}, links |-> mine]
      /\ \A t \in DOMAIN ingest : t # s /\ ingest'[t] = ingest[t]
      /\ ingest' = [t \in DOMAIN ingest' |-> ingest'[t]]
  BY DEF StartSbom
<1>2. \A k \in mine : IsLink(k) /\ k.sbom = NULL
  <2> SUFFICES ASSUME NEW p \in versions, NEW k \in ingest_product_version(s, p)
               PROVE  IsLink(k) /\ k.sbom = NULL
    OBVIOUS
  <2> QED
    BY DEF ingest_product_version, IsLink, Typed
<1>3. IngestTyped(s)'
  <2> HIDE DEF mine
  <2> QED
    BY <1>1, <1>2 DEF IngestTyped
<1>5. ASSUME NEW t \in DOMAIN ingest PROVE IngestTyped(t)'
  <2>1. IngestTyped(t) /\ ingest'[t] = ingest[t]
    BY <1>1 DEF Typed
  <2> QED
    BY <2>1 DEF IngestTyped
<1>4. /\ corpus' = corpus /\ sboms' = sboms /\ advisories' = advisories /\ links' = links
      /\ data' = data /\ authority' = authority /\ s \notin sboms
      /\ excuse' = [excuse EXCEPT !.overlapped = @ \cup {{s, t} : t \in DOMAIN ingest}]
  BY DEF StartSbom
<1> QED
  BY <1>1, <1>3, <1>4, <1>5 DEF Typed, Vulns

LEMMA BuildTyped ==
  ASSUME Typed, NEW s \in corpus.sboms, populate_ancestors(s)
  PROVE  Typed'
<1> DEFINE found == {p \in {s} \X sboms \cup sboms \X {s} : Links[p]}
<1>1. /\ DOMAIN ingest' = DOMAIN ingest /\ s \in DOMAIN ingest
      /\ ingest'[s] = [ingest[s] EXCEPT !.built = TRUE, !.ancestors = found]
      /\ \A t \in DOMAIN ingest : t # s => ingest'[t] = ingest[t]
      /\ ingest' = [t \in DOMAIN ingest' |-> ingest'[t]]
  BY DEF populate_ancestors, Typed
<1>2. IngestTyped(s)'
  <2>1. IngestTyped(s)
    BY <1>1 DEF Typed
  <2> HIDE DEF found
  <2> QED
    BY <1>1, <2>1 DEF IngestTyped
<1>3. ASSUME NEW t \in DOMAIN ingest, t # s PROVE IngestTyped(t)'
  <2>1. IngestTyped(t) /\ ingest'[t] = ingest[t]
    BY <1>1, <1>3 DEF Typed
  <2> QED
    BY <2>1 DEF IngestTyped
<1>4. UNCHANGED <<corpus, sboms, advisories, ancestors, links, data, authority, excuse>>
  BY DEF populate_ancestors
<1> QED
  BY <1>1, <1>2, <1>3, <1>4 DEF Typed, Vulns

LEMMA WithoutTyped ==
  ASSUME Typed, NEW s \in DOMAIN ingest, ingest' = Without(ingest, s)
  PROVE  /\ DOMAIN ingest' = DOMAIN ingest \ {s}
         /\ ingest' = [t \in DOMAIN ingest' |-> ingest'[t]]
         /\ \A t \in DOMAIN ingest' : ingest'[t] = ingest[t] /\ IngestTyped(t)'
<1>1. /\ DOMAIN ingest' = DOMAIN ingest \ {s}
      /\ ingest' = [t \in DOMAIN ingest' |-> ingest'[t]]
      /\ \A t \in DOMAIN ingest' : ingest'[t] = ingest[t]
  BY DEF Without
<1>2. ASSUME NEW t \in DOMAIN ingest' PROVE IngestTyped(t)'
  <2>1. IngestTyped(t) /\ ingest'[t] = ingest[t]
    BY <1>1 DEF Typed
  <2> QED
    BY <2>1 DEF IngestTyped
<1> QED
  BY <1>1, <1>2

\* The product versions after a commit.
OwnLink(s, l) ==
  \E k \in ingest[s].links : k.product = l.product /\ k.version = l.version /\ k.by = l.by
Relinked(s) ==
  {[l EXCEPT !.sbom = IF OwnLink(s, l) THEN s ELSE @] : l \in links}
  \cup {[k EXCEPT !.sbom = s] : k \in ingest[s].links}

\* A link keeps its product and version, and gets an SBOM or keeps it.
LEMMA RelinkedFacts ==
  ASSUME Typed, NEW s \in DOMAIN ingest
  PROVE  /\ \A l \in Relinked(s) : IsLink(l) /\ l.sbom \in {NULL, s} \cup sboms
         /\ \A l \in links : \E m \in Relinked(s) :
              m.product = l.product /\ m.version = l.version /\ m.sbom \in {l.sbom, s}
         /\ \A k \in ingest[s].links : \E m \in Relinked(s) :
              m.product = k.product /\ m.version = k.version /\ m.sbom = s
<1>1. ASSUME NEW l, IsLink(l), NEW x
      PROVE  [l EXCEPT !.sbom = x] = [product |-> l.product, version |-> l.version, by |-> l.by, sbom |-> x]
  BY <1>1 DEF IsLink
<1>2. ASSUME NEW l \in links PROVE IsLink(l) /\ l.sbom \in {NULL} \cup sboms
  BY DEF Typed
<1>3. ASSUME NEW k \in ingest[s].links PROVE IsLink(k)
  BY DEF Typed, IngestTyped
<1> DEFINE relinked(l) == [l EXCEPT !.sbom = IF OwnLink(s, l) THEN s ELSE @]
           named(k) == [k EXCEPT !.sbom = s]
<1>4. ASSUME NEW l \in links
      PROVE  /\ IsLink(relinked(l)) /\ relinked(l).sbom \in {l.sbom, s}
             /\ relinked(l).product = l.product /\ relinked(l).version = l.version
  BY <1>1, <1>2 DEF IsLink
<1>5. ASSUME NEW k \in ingest[s].links
      PROVE  /\ IsLink(named(k)) /\ named(k).sbom = s
             /\ named(k).product = k.product /\ named(k).version = k.version
  BY <1>1, <1>3 DEF IsLink
<1>6. Relinked(s) = {relinked(l) : l \in links} \cup {named(k) : k \in ingest[s].links}
  BY DEF Relinked
<1> HIDE DEF relinked, named
<1>7. \A m \in Relinked(s) : (\E l \in links : m = relinked(l)) \/ (\E k \in ingest[s].links : m = named(k))
  BY <1>6
<1>8. \A m \in Relinked(s) : IsLink(m) /\ m.sbom \in {NULL, s} \cup sboms
  BY <1>2, <1>4, <1>5, <1>7
<1>9. /\ \A l \in links : relinked(l) \in Relinked(s)
      /\ \A k \in ingest[s].links : named(k) \in Relinked(s)
  BY <1>6
<1> QED
  BY <1>4, <1>5, <1>8, <1>9

LEMMA CommitFacts ==
  ASSUME Typed, NEW s, CommitSbom(s)
  PROVE  /\ s \in DOMAIN ingest /\ s \notin sboms /\ ingest[s].built
         /\ sboms' = sboms \cup {s}
         /\ ancestors' = ancestors \cup ingest[s].ancestors
         /\ links' = Relinked(s)
         /\ ingest' = Without(ingest, s)
         /\ excuse' = [excuse EXCEPT !.unlinked =
              {u \in @ : \A l \in Relinked(s) : u # <<l.product, l.version>> \/ l.sbom = NULL}]
         /\ DOMAIN ingest' = DOMAIN ingest \ {s}
         /\ \A t \in DOMAIN ingest' : ingest'[t] = ingest[t]
         /\ UNCHANGED <<corpus, advisories, data, authority>>
<1>1. s \in DOMAIN ingest /\ ingest' = Without(ingest, s)
  BY DEF CommitSbom
<1>2. DOMAIN ingest' = DOMAIN ingest \ {s} /\ \A t \in DOMAIN ingest' : ingest'[t] = ingest[t]
  BY <1>1 DEF Without
<1> QED
  BY <1>1, <1>2 DEF CommitSbom, Relinked, OwnLink, Typed

LEMMA CommitTyped ==
  ASSUME Typed, NEW s \in corpus.sboms, CommitSbom(s)
  PROVE  Typed'
<1>1. /\ DOMAIN ingest' = DOMAIN ingest \ {s}
      /\ ingest' = [t \in DOMAIN ingest' |-> ingest'[t]]
      /\ \A t \in DOMAIN ingest' : IngestTyped(t)'
  BY CommitFacts, WithoutTyped
<1>2. \A l \in links' : IsLink(l) /\ l.sbom \in {NULL} \cup sboms'
  <2>1. s \in DOMAIN ingest /\ links' = Relinked(s) /\ sboms' = sboms \cup {s}
    BY CommitFacts
  <2> QED
    BY <2>1, RelinkedFacts
<1>3. /\ sboms' = sboms \cup {s} /\ s \in DOMAIN ingest
      /\ UNCHANGED <<corpus, advisories, data, authority>>
  BY CommitFacts
<1>4. excuse' = [overlapped |-> excuse'.overlapped, unlinked |-> excuse'.unlinked,
                 stale |-> excuse'.stale, overwritten |-> excuse'.overwritten]
  BY CommitFacts DEF Typed
<1> QED
  BY <1>1, <1>2, <1>3, <1>4 DEF Typed, Vulns

LEMMA AbortTyped ==
  ASSUME Typed, NEW s \in corpus.sboms, AbortSbom(s)
  PROVE  Typed'
<1>1. /\ DOMAIN ingest' = DOMAIN ingest \ {s}
      /\ ingest' = [t \in DOMAIN ingest' |-> ingest'[t]]
      /\ \A t \in DOMAIN ingest' : IngestTyped(t)'
  BY WithoutTyped DEF AbortSbom
<1> QED
  BY <1>1 DEF AbortSbom, Typed, Vulns

\* The product versions after a deletion.
LEMMA UnlinkedFacts ==
  ASSUME Typed, NEW s \in sboms, DeleteSbom(s)
  PROVE  /\ \A l \in links' : IsLink(l) /\ l.sbom \in {NULL} \cup sboms'
         /\ \A l \in links : l.sbom # s => \E m \in links' :
              m.product = l.product /\ m.version = l.version /\ m.sbom = l.sbom
<1> DEFINE kept(l) == [l EXCEPT !.sbom = IF @ = s THEN NULL ELSE @]
<1>1. ASSUME NEW l \in links
      PROVE  /\ IsLink(kept(l)) /\ kept(l).sbom = IF l.sbom = s THEN NULL ELSE l.sbom
             /\ kept(l).product = l.product /\ kept(l).version = l.version
             /\ l.sbom \in {NULL} \cup sboms
  BY DEF Typed, IsLink
<1>2. links' = {kept(l) : l \in links} /\ sboms' = sboms \ {s}
  BY DEF DeleteSbom
<1> HIDE DEF kept
<1> QED
  BY <1>1, <1>2

LEMMA DeleteTyped ==
  ASSUME Typed, NEW s \in corpus.sboms, DeleteSbom(s)
  PROVE  Typed'
<1>1. s \in sboms /\ UNCHANGED <<corpus, advisories, ingest, data, authority>> /\ sboms' = sboms \ {s}
  BY DEF DeleteSbom
<1>2. \A l \in links' : IsLink(l) /\ l.sbom \in {NULL} \cup sboms'
  BY <1>1, UnlinkedFacts
<1>3. \A t \in DOMAIN ingest : IngestTyped(t)'
  BY <1>1 DEF Typed, IngestTyped
<1>4. excuse' = [overlapped |-> excuse'.overlapped, unlinked |-> excuse'.unlinked,
                 stale |-> excuse'.stale, overwritten |-> excuse'.overwritten]
  BY DEF DeleteSbom, Typed
<1> QED
  BY <1>1, <1>2, <1>3, <1>4 DEF Typed, Vulns

LEMMA AdvisoryTyped ==
  ASSUME Typed, NEW a \in corpus.advisories, IngestAdvisory(a) \/ DeleteAdvisory(a)
  PROVE  Typed'
<1>1. UNCHANGED <<corpus, sboms, ingest, ancestors, links>> /\ advisories' \subseteq corpus.advisories
  BY DEF IngestAdvisory, DeleteAdvisory, Typed
<1>2. /\ DOMAIN data' = Vulns /\ DOMAIN authority' = Vulns
      /\ data' = [v \in Vulns |-> data'[v]] /\ authority' = [v \in Vulns |-> authority'[v]]
  BY DEF IngestAdvisory, DeleteAdvisory, Typed
<1>3. excuse' = [overlapped |-> excuse'.overlapped, unlinked |-> excuse'.unlinked,
                 stale |-> excuse'.stale, overwritten |-> excuse'.overwritten]
  BY DEF IngestAdvisory, DeleteAdvisory, Typed
<1>4. \A t \in DOMAIN ingest : IngestTyped(t)'
  BY <1>1 DEF Typed, IngestTyped
<1> QED
  BY <1>1, <1>2, <1>3, <1>4 DEF Typed, Vulns

LEMMA TypedNext == Typed /\ [Next]_vars => Typed'
<1> SUFFICES ASSUME Typed, [Next]_vars PROVE Typed'
  OBVIOUS
<1>1. CASE UNCHANGED vars
  BY <1>1 DEF vars, Typed, IngestTyped, Vulns
<1>2. ASSUME NEW s \in corpus.sboms,
             StartSbom(s) \/ populate_ancestors(s) \/ CommitSbom(s) \/ AbortSbom(s) \/ DeleteSbom(s)
      PROVE  Typed'
  BY <1>2, StartTyped, BuildTyped, CommitTyped, AbortTyped, DeleteTyped
<1> QED
  BY <1>1, <1>2, AdvisoryTyped DEF Next

\* Whatever is ingested and deleted, the tables keep to the documents of the
\* corpus, and no product version is linked to an SBOM that is gone.
THEOREM TypeCorrect == Spec => []Typed
  BY InitTyped, TypedNext, PTL DEF Spec

-----------------------------------------------------------------------------
(* AncestorsComplete *)

Overlapped(p) == {p[1], p[2]} \in excuse.overlapped

\* The links that are stored are of SBOMs that are there, and hold.
AncestorsHold == \A p \in ancestors : p \in sboms \X sboms /\ Links[p]

\* Who is ingested at the same time is known to be.
IngestsOverlap == \A s, t \in DOMAIN ingest : s # t => {s, t} \in excuse.overlapped

\* An ingestion has the links of its SBOM to those it found, which are still there.
IngestLinks ==
  \A s \in DOMAIN ingest : \A p \in ingest[s].ancestors :
    p \in {s} \X sboms \cup sboms \X {s} /\ Links[p]

\* Once it has looked, it misses none but of those that overlap with it.
IngestComplete ==
  \A s \in DOMAIN ingest : ingest[s].built =>
    \A p \in {s} \X sboms \cup sboms \X {s} :
      Links[p] => p \in ingest[s].ancestors \/ Overlapped(p)

AncestorsInv ==
  /\ Typed
  /\ AncestorsHold
  /\ IngestsOverlap
  /\ IngestLinks
  /\ IngestComplete
  /\ AncestorsComplete

\* No SBOM is linked to itself.
LEMMA LinksFacts ==
  ASSUME Typed
  PROVE  \A s \in corpus.sboms : ~Links[<<s, s>>]
<1>1. corpus.sboms \subseteq Sboms
  BY CorrelationAssumption DEF Typed
<1>2. ASSUME NEW s \in corpus.sboms PROVE ~Links[<<s, s>>]
  <2>1. <<s, s>> \in Sboms \X Sboms
    BY <1>1
  <2> QED
    BY <2>1 DEF Links
<1> QED
  BY <1>2

LEMMA InitAncestors == Init => AncestorsInv
  BY InitTyped DEF Init, AncestorsInv, AncestorsHold, IngestsOverlap, IngestLinks, IngestComplete, AncestorsComplete

LEMMA StartAncestors ==
  ASSUME AncestorsInv, NEW s \in corpus.sboms, StartSbom(s)
  PROVE  AncestorsInv'
<1>1. Typed' /\ s \notin sboms \cup DOMAIN ingest
  BY StartTyped DEF AncestorsInv, StartSbom
<1>2. /\ sboms' = sboms /\ ancestors' = ancestors
      /\ DOMAIN ingest' = {s} \cup DOMAIN ingest
      /\ ingest'[s].built = FALSE /\ ingest'[s].ancestors = {}
      /\ \A t \in DOMAIN ingest : ingest'[t] = ingest[t]
  BY <1>1 DEF StartSbom
<1>3. excuse'.overlapped = excuse.overlapped \cup {{s, t} : t \in DOMAIN ingest}
  BY DEF StartSbom, AncestorsInv, Typed
<1>4. IngestsOverlap'
  <2> SUFFICES ASSUME NEW t \in DOMAIN ingest', NEW u \in DOMAIN ingest', t # u
               PROVE  {t, u} \in excuse'.overlapped
    BY DEF IngestsOverlap
  <2>1. {s, t} = {t, s} /\ {s, u} = {u, s}
    OBVIOUS
  <2> QED
    BY <1>2, <1>3, <2>1 DEF AncestorsInv, IngestsOverlap
<1>5. AncestorsHold' /\ AncestorsComplete'
  BY <1>2, <1>3 DEF AncestorsInv, AncestorsHold, AncestorsComplete
<1>6. IngestLinks' /\ IngestComplete'
  BY <1>2, <1>3 DEF AncestorsInv, IngestLinks, IngestComplete, Overlapped
<1> QED
  BY <1>1, <1>4, <1>5, <1>6 DEF AncestorsInv

LEMMA BuildAncestors ==
  ASSUME AncestorsInv, NEW s \in corpus.sboms, populate_ancestors(s)
  PROVE  AncestorsInv'
<1>1. Typed' /\ s \in DOMAIN ingest
  BY BuildTyped DEF AncestorsInv, populate_ancestors
<1>2. /\ DOMAIN ingest' = DOMAIN ingest /\ excuse' = excuse
      /\ sboms' = sboms /\ ancestors' = ancestors
      /\ \A t \in DOMAIN ingest : t # s => ingest'[t] = ingest[t]
  BY <1>1 DEF populate_ancestors
<1>3. ingest'[s].ancestors = {p \in {s} \X sboms \cup sboms \X {s} : Links[p]}
  <2> DEFINE found == {p \in {s} \X sboms \cup sboms \X {s} : Links[p]}
  <2>1. IngestTyped(s)
    BY <1>1 DEF AncestorsInv, Typed
  <2>2. ingest'[s] = [ingest[s] EXCEPT !.built = TRUE, !.ancestors = found]
    BY <1>1 DEF populate_ancestors
  <2> HIDE DEF found
  <2>3. ingest'[s].ancestors = found
    BY <2>1, <2>2 DEF IngestTyped
  <2> QED
    BY <2>3 DEF found
<1>4. AncestorsHold' /\ IngestsOverlap' /\ AncestorsComplete'
  BY <1>2 DEF AncestorsInv, AncestorsHold, IngestsOverlap, AncestorsComplete
<1>5. IngestLinks'
  BY <1>2, <1>3 DEF AncestorsInv, IngestLinks
<1>6. IngestComplete'
  BY <1>2, <1>3 DEF AncestorsInv, IngestComplete, Overlapped
<1> QED
  BY <1>1, <1>4, <1>5, <1>6 DEF AncestorsInv

LEMMA CommitAncestors ==
  ASSUME AncestorsInv, NEW s \in corpus.sboms, CommitSbom(s)
  PROVE  AncestorsInv'
<1>1. Typed /\ Typed'
  BY CommitTyped DEF AncestorsInv
<1>2. /\ s \in DOMAIN ingest /\ s \notin sboms /\ ingest[s].built
      /\ sboms' = sboms \cup {s} /\ corpus' = corpus
      /\ ancestors' = ancestors \cup ingest[s].ancestors
      /\ DOMAIN ingest' = DOMAIN ingest \ {s}
      /\ \A t \in DOMAIN ingest' : ingest'[t] = ingest[t]
      /\ excuse'.overlapped = excuse.overlapped
  <2>1. excuse' = [excuse EXCEPT !.unlinked = excuse'.unlinked] /\ corpus' = corpus
    BY <1>1, CommitFacts DEF Typed
  <2>2. excuse'.overlapped = excuse.overlapped
    BY <1>1, <2>1 DEF Typed
  <2> QED
    BY <1>1, <2>1, <2>2, CommitFacts
<1>3. \A p \in ingest[s].ancestors : p \in {s} \X sboms \cup sboms \X {s} /\ Links[p]
  BY <1>2 DEF AncestorsInv, IngestLinks
<1>4. AncestorsHold'
  BY <1>2, <1>3 DEF AncestorsInv, AncestorsHold
<1>5. IngestsOverlap'
  BY <1>2 DEF AncestorsInv, IngestsOverlap
<1>6. IngestLinks'
  BY <1>2 DEF AncestorsInv, IngestLinks
<1>7. IngestComplete'
  <2> SUFFICES ASSUME NEW t \in DOMAIN ingest', ingest'[t].built,
                      NEW p \in {t} \X sboms' \cup sboms' \X {t}, Links[p]
               PROVE  p \in ingest'[t].ancestors \/ {p[1], p[2]} \in excuse'.overlapped
    BY DEF IngestComplete, Overlapped
  <2>1. t \in DOMAIN ingest /\ t # s /\ ingest'[t] = ingest[t]
    BY <1>2
  <2>2. CASE p \in {t} \X sboms \cup sboms \X {t}
    BY <1>2, <2>1, <2>2 DEF AncestorsInv, IngestComplete, Overlapped
  <2>3. CASE p = <<t, s>> \/ p = <<s, t>>
    <3>1. {t, s} \in excuse.overlapped /\ {t, s} = {s, t}
      BY <1>2, <2>1 DEF AncestorsInv, IngestsOverlap
    <3> QED
      BY <1>2, <2>3, <3>1
  <2> QED
    BY <1>2, <2>2, <2>3
<1>8. AncestorsComplete'
  <2> SUFFICES ASSUME NEW p \in sboms' \X sboms'
               PROVE  (p \in ancestors' <=> Links[p]) \/ {p[1], p[2]} \in excuse'.overlapped
    BY DEF AncestorsComplete
  <2>1. CASE p \in sboms \X sboms
    <3>1. p \notin ingest[s].ancestors
      BY <1>2, <1>3, <2>1
    <3> QED
      BY <1>2, <2>1, <3>1 DEF AncestorsInv, AncestorsComplete
  <2>2. CASE p \in {s} \X sboms \cup sboms \X {s}
    <3>1. p \notin ancestors
      BY <1>2, <2>2 DEF AncestorsInv, AncestorsHold
    <3> QED
      BY <1>2, <1>3, <2>2, <3>1 DEF AncestorsInv, IngestComplete, Overlapped
  <2>3. CASE p = <<s, s>>
    <3>1. ~Links[p]
      BY <1>1, <2>3, LinksFacts
    <3>2. p \notin ancestors'
      BY <1>2, <1>3, <2>3 DEF AncestorsInv, AncestorsHold
    <3> QED
      BY <3>1, <3>2
  <2> QED
    BY <1>2, <2>1, <2>2, <2>3
<1> QED
  BY <1>1, <1>4, <1>5, <1>6, <1>7, <1>8 DEF AncestorsInv

LEMMA AbortAncestors ==
  ASSUME AncestorsInv, NEW s \in corpus.sboms, AbortSbom(s)
  PROVE  AncestorsInv'
<1>1. Typed'
  BY AbortTyped DEF AncestorsInv
<1>2. /\ DOMAIN ingest' = DOMAIN ingest \ {s} /\ excuse' = excuse
      /\ sboms' = sboms /\ ancestors' = ancestors
      /\ \A t \in DOMAIN ingest' : ingest'[t] = ingest[t]
  BY DEF AbortSbom, Without
<1> QED
  BY <1>1, <1>2 DEF AncestorsInv, AncestorsHold, IngestsOverlap, IngestLinks, IngestComplete,
                    AncestorsComplete, Overlapped

LEMMA DeleteAncestors ==
  ASSUME AncestorsInv, NEW s \in corpus.sboms, DeleteSbom(s)
  PROVE  AncestorsInv'
<1>1. Typed'
  BY DeleteTyped DEF AncestorsInv
<1>2. /\ ingest' = ingest /\ sboms' = sboms \ {s} /\ s \in sboms
      /\ ancestors' = {p \in ancestors : s \notin {p[1], p[2]}}
      /\ excuse'.overlapped = {o \in excuse.overlapped : s \notin o}
      /\ \A t \in DOMAIN ingest : \A p \in ingest[t].ancestors : s \notin {p[1], p[2]}
      /\ s \notin DOMAIN ingest
  BY DEF DeleteSbom, AncestorsInv, Typed
<1>3. AncestorsHold'
  BY <1>2 DEF AncestorsInv, AncestorsHold
<1>4. IngestsOverlap'
  BY <1>2 DEF AncestorsInv, IngestsOverlap
<1>5. IngestLinks'
  BY <1>2 DEF AncestorsInv, IngestLinks
<1>6. IngestComplete'
  BY <1>2 DEF AncestorsInv, IngestComplete, Overlapped
<1>7. AncestorsComplete'
  BY <1>2 DEF AncestorsInv, AncestorsComplete
<1> QED
  BY <1>1, <1>3, <1>4, <1>5, <1>6, <1>7 DEF AncestorsInv

LEMMA NextAncestors == AncestorsInv /\ [Next]_vars => AncestorsInv'
<1> SUFFICES ASSUME AncestorsInv, [Next]_vars PROVE AncestorsInv'
  OBVIOUS
<1>1. CASE UNCHANGED <<sboms, ingest, ancestors>> /\ excuse'.overlapped = excuse.overlapped
  <2>1. Typed'
    BY TypedNext DEF AncestorsInv
  <2> QED
    BY <1>1, <2>1 DEF AncestorsInv, AncestorsHold, IngestsOverlap, IngestLinks, IngestComplete,
                      AncestorsComplete, Overlapped
<1>2. ASSUME NEW s \in corpus.sboms,
             StartSbom(s) \/ populate_ancestors(s) \/ CommitSbom(s) \/ AbortSbom(s) \/ DeleteSbom(s)
      PROVE  AncestorsInv'
  BY <1>2, StartAncestors, BuildAncestors, CommitAncestors, AbortAncestors, DeleteAncestors
<1>3. ASSUME NEW a \in corpus.advisories, IngestAdvisory(a) \/ DeleteAdvisory(a)
      PROVE  UNCHANGED <<sboms, ingest, ancestors>> /\ excuse'.overlapped = excuse.overlapped
  BY <1>3 DEF IngestAdvisory, DeleteAdvisory, AncestorsInv, Typed
<1>4. CASE UNCHANGED vars
  BY <1>1, <1>4 DEF vars
<1> QED
  BY <1>1, <1>2, <1>3, <1>4 DEF Next

\* In whatever order SBOMs are ingested, beside each other and with deletions in
\* between: a component SBOM is linked to exactly the product SBOMs that refer to
\* it, unless the two were ingested at the same time (populate_ancestors).
THEOREM LinksAreComplete == Spec => []AncestorsComplete
<1>1. AncestorsInv => AncestorsComplete
  BY DEF AncestorsInv
<1> QED
  BY InitAncestors, NextAncestors, <1>1, PTL DEF Spec

-----------------------------------------------------------------------------
(* ProductLinked *)

Unlinked(p) == <<p.name, p.version>> \in excuse.unlinked

\* A product version is linked to an SBOM that is there.
Linked(p) == \E l \in links : l.product = p.name /\ l.version = p.version /\ l.sbom \in sboms

\* What an ingestion will link is linked already, or will be by its commit.
IngestProducts ==
  \A s \in DOMAIN ingest : \A p \in SbomRow[s].products :
    p.version # NULL /\ ~Unlinked(p) =>
      \/ Linked(p)
      \/ \E k \in ingest[s].links : k.product = p.name /\ k.version = p.version

ProductsInv == Typed /\ IngestProducts /\ ProductLinked

LEMMA InitProducts == Init => ProductsInv
  BY InitTyped DEF Init, ProductsInv, IngestProducts, ProductLinked

\* An SBOM whose version is there without an SBOM, or not there, takes it; else
\* it is linked already.
LEMMA StartProducts ==
  ASSUME ProductsInv, NEW s \in corpus.sboms, StartSbom(s)
  PROVE  ProductsInv'
<1> DEFINE versions == {p \in SbomRow[s].products : p.version # NULL}
           mine == UNION {ingest_product_version(s, p) : p \in versions}
<1>1. Typed /\ Typed'
  BY StartTyped DEF ProductsInv
<1>2. /\ sboms' = sboms /\ links' = links /\ excuse'.unlinked = excuse.unlinked
      /\ DOMAIN ingest' = {s} \cup DOMAIN ingest
      /\ ingest'[s].links = mine
      /\ \A t \in DOMAIN ingest : ingest'[t] = ingest[t]
  BY <1>1 DEF StartSbom, Typed
<1>3. ASSUME NEW p \in versions
      PROVE  Linked(p) \/ \E k \in mine : k.product = p.name /\ k.version = p.version
  <2> DEFINE found == {l \in links : l.product = p.name /\ l.version = p.version}
             new == [product |-> p.name, version |-> p.version, by |-> s, sbom |-> NULL]
  <2>1. CASE found = {}
    <3>1. new \in ingest_product_version(s, p)
      BY <2>1 DEF ingest_product_version
    <3> QED
      BY <3>1
  <2>2. CASE \E l \in found : l.sbom = NULL
    <3>1. PICK l \in found : l.sbom = NULL
      BY <2>2
    <3>2. l \in ingest_product_version(s, p)
      BY <3>1 DEF ingest_product_version
    <3> QED
      BY <3>1, <3>2
  <2>3. CASE \E l \in found : l.sbom # NULL
    BY <1>1, <2>3 DEF Linked, Typed
  <2> QED
    BY <2>1, <2>2, <2>3
<1> HIDE DEF mine
<1>4. IngestProducts'
  <2> SUFFICES ASSUME NEW t \in DOMAIN ingest', NEW p \in SbomRow[t].products,
                      p.version # NULL, ~Unlinked(p)
               PROVE  Linked(p) \/ \E k \in ingest'[t].links : k.product = p.name /\ k.version = p.version
    BY <1>2 DEF IngestProducts, Linked, Unlinked
  <2>1. CASE t = s
    BY <1>2, <1>3, <2>1
  <2>2. CASE t # s
    BY <1>2, <2>2 DEF ProductsInv, IngestProducts
  <2> QED
    BY <2>1, <2>2
<1>5. ProductLinked'
  BY <1>2 DEF ProductsInv, ProductLinked
<1> QED
  BY <1>1, <1>4, <1>5 DEF ProductsInv

LEMMA BuildProducts ==
  ASSUME ProductsInv, NEW s \in corpus.sboms, populate_ancestors(s)
  PROVE  ProductsInv'
<1>1. Typed /\ Typed' /\ s \in DOMAIN ingest
  BY BuildTyped DEF ProductsInv, populate_ancestors
<1>2. /\ sboms' = sboms /\ links' = links /\ excuse' = excuse
      /\ DOMAIN ingest' = DOMAIN ingest
      /\ \A t \in DOMAIN ingest : t # s => ingest'[t] = ingest[t]
  BY <1>1 DEF populate_ancestors
<1>3. ingest'[s].links = ingest[s].links
  <2> DEFINE found == {p \in {s} \X sboms \cup sboms \X {s} : Links[p]}
  <2>1. IngestTyped(s)
    BY <1>1 DEF Typed
  <2>2. ingest'[s] = [ingest[s] EXCEPT !.built = TRUE, !.ancestors = found]
    BY <1>1 DEF populate_ancestors
  <2> HIDE DEF found
  <2> QED
    BY <2>1, <2>2 DEF IngestTyped
<1>4. IngestProducts'
  BY <1>2, <1>3 DEF ProductsInv, IngestProducts, Linked, Unlinked
<1>5. ProductLinked'
  BY <1>2 DEF ProductsInv, ProductLinked
<1> QED
  BY <1>1, <1>4, <1>5 DEF ProductsInv

\* A commit links what it has, takes no link away, and ends an excuse only where
\* there is a link now.
LEMMA CommitProducts ==
  ASSUME ProductsInv, NEW s \in corpus.sboms, CommitSbom(s)
  PROVE  ProductsInv'
<1>1. Typed /\ Typed'
  BY CommitTyped DEF ProductsInv
<1>2. /\ s \in DOMAIN ingest /\ sboms' = sboms \cup {s} /\ links' = Relinked(s)
      /\ DOMAIN ingest' = DOMAIN ingest \ {s}
      /\ \A t \in DOMAIN ingest' : ingest'[t] = ingest[t]
  BY <1>1, CommitFacts
<1>3. ASSUME NEW p, Linked(p) PROVE Linked(p)'
  <2>1. PICK l \in links : l.product = p.name /\ l.version = p.version /\ l.sbom \in sboms
    BY <1>3 DEF Linked
  <2>2. PICK m \in Relinked(s) : m.product = l.product /\ m.version = l.version /\ m.sbom \in {l.sbom, s}
    BY <1>1, <1>2, RelinkedFacts
  <2> QED
    BY <1>2, <2>1, <2>2 DEF Linked
<1>4. ASSUME NEW p, Unlinked(p), ~Unlinked(p)' PROVE Linked(p)'
  <2>1. excuse'.unlinked =
          {u \in excuse.unlinked : \A l \in Relinked(s) : u # <<l.product, l.version>> \/ l.sbom = NULL}
    <3>1. excuse' = [excuse EXCEPT !.unlinked =
            {u \in @ : \A l \in Relinked(s) : u # <<l.product, l.version>> \/ l.sbom = NULL}]
      BY <1>1, CommitFacts
    <3> QED
      BY <1>1, <3>1 DEF Typed
  <2>2. PICK l \in Relinked(s) : <<p.name, p.version>> = <<l.product, l.version>> /\ l.sbom # NULL
    BY <1>4, <2>1 DEF Unlinked
  <2>3. l.sbom \in sboms'
    BY <1>1, <1>2, <2>2 DEF Typed
  <2> QED
    BY <1>2, <2>2, <2>3 DEF Linked
<1>5. ASSUME NEW p, NEW k \in ingest[s].links, k.product = p.name, k.version = p.version
      PROVE  Linked(p)'
  <2>1. PICK m \in Relinked(s) : m.product = k.product /\ m.version = k.version /\ m.sbom = s
    BY <1>1, <1>2, RelinkedFacts
  <2> QED
    BY <1>2, <1>5, <2>1 DEF Linked
<1>6. IngestProducts'
  BY <1>2, <1>3, <1>4 DEF ProductsInv, IngestProducts
<1>7. ASSUME NEW t \in sboms', NEW p \in SbomRow[t].products, p.version # NULL, ~Unlinked(p)'
      PROVE  Linked(p)'
  <2>1. CASE Unlinked(p)
    BY <1>4, <1>7, <2>1
  <2>2. CASE t = s /\ ~Unlinked(p)
    BY <1>2, <1>3, <1>5, <1>7, <2>2 DEF ProductsInv, IngestProducts
  <2>3. CASE t \in sboms /\ ~Unlinked(p)
    <3>1. Linked(p)
      BY <1>7, <2>3 DEF ProductsInv, ProductLinked, Linked, Unlinked
    <3> QED
      BY <1>3, <3>1
  <2> QED
    BY <1>2, <2>1, <2>2, <2>3
<1>8. ProductLinked'
  BY <1>7 DEF ProductLinked, Linked, Unlinked
<1> QED
  BY <1>1, <1>6, <1>8 DEF ProductsInv

LEMMA AbortProducts ==
  ASSUME ProductsInv, NEW s \in corpus.sboms, AbortSbom(s)
  PROVE  ProductsInv'
<1>1. Typed'
  BY AbortTyped DEF ProductsInv
<1>2. /\ DOMAIN ingest' = DOMAIN ingest \ {s} /\ excuse' = excuse
      /\ sboms' = sboms /\ links' = links
      /\ \A t \in DOMAIN ingest' : ingest'[t] = ingest[t]
  BY DEF AbortSbom, Without
<1> QED
  BY <1>1, <1>2 DEF ProductsInv, IngestProducts, ProductLinked, Linked, Unlinked

LEMMA DeleteProducts ==
  ASSUME ProductsInv, NEW s \in corpus.sboms, DeleteSbom(s)
  PROVE  ProductsInv'
<1>1. Typed /\ Typed' /\ s \in sboms
  BY DeleteTyped DEF ProductsInv, DeleteSbom
<1>2. /\ ingest' = ingest /\ sboms' = sboms \ {s}
      /\ excuse'.unlinked = excuse.unlinked
           \cup {<<l.product, l.version>> : l \in {k \in links : k.sbom = s}}
  BY <1>1 DEF DeleteSbom, Typed
<1>3. ASSUME NEW p, Linked(p), ~Unlinked(p)' PROVE Linked(p)'
  <2>1. PICK l \in links : l.product = p.name /\ l.version = p.version /\ l.sbom \in sboms
    BY <1>3 DEF Linked
  <2>2. l.sbom # s
    BY <1>2, <1>3, <2>1 DEF Unlinked
  <2>3. PICK m \in links' : m.product = l.product /\ m.version = l.version /\ m.sbom = l.sbom
    BY <1>1, <2>2, UnlinkedFacts
  <2> QED
    BY <1>2, <2>1, <2>2, <2>3 DEF Linked
<1>4. \A p : ~Unlinked(p)' => ~Unlinked(p)
  BY <1>2 DEF Unlinked
<1>5. IngestProducts'
  BY <1>2, <1>3, <1>4 DEF ProductsInv, IngestProducts
<1>6. ASSUME NEW t \in sboms', NEW p \in SbomRow[t].products, p.version # NULL, ~Unlinked(p)'
      PROVE  Linked(p)'
  BY <1>2, <1>3, <1>4, <1>6 DEF ProductsInv, ProductLinked, Linked, Unlinked
<1>7. ProductLinked'
  BY <1>6 DEF ProductLinked, Linked, Unlinked
<1> QED
  BY <1>1, <1>5, <1>7 DEF ProductsInv

LEMMA NextProducts == ProductsInv /\ [Next]_vars => ProductsInv'
<1> SUFFICES ASSUME ProductsInv, [Next]_vars PROVE ProductsInv'
  OBVIOUS
<1>1. CASE UNCHANGED <<sboms, ingest, links>> /\ excuse'.unlinked = excuse.unlinked
  <2>1. Typed'
    BY TypedNext DEF ProductsInv
  <2> QED
    BY <1>1, <2>1 DEF ProductsInv, IngestProducts, ProductLinked, Linked, Unlinked
<1>2. ASSUME NEW s \in corpus.sboms,
             StartSbom(s) \/ populate_ancestors(s) \/ CommitSbom(s) \/ AbortSbom(s) \/ DeleteSbom(s)
      PROVE  ProductsInv'
  BY <1>2, StartProducts, BuildProducts, CommitProducts, AbortProducts, DeleteProducts
<1>3. ASSUME NEW a \in corpus.advisories, IngestAdvisory(a) \/ DeleteAdvisory(a)
      PROVE  UNCHANGED <<sboms, ingest, links>> /\ excuse'.unlinked = excuse.unlinked
  BY <1>3 DEF IngestAdvisory, DeleteAdvisory, ProductsInv, Typed
<1>4. CASE UNCHANGED vars
  BY <1>1, <1>4 DEF vars
<1> QED
  BY <1>1, <1>2, <1>3, <1>4 DEF Next

\* A product version that SBOMs name is linked to one of them that is there, in
\* whatever order and beside each other they come and go, unless the one it was
\* linked to has been deleted (ingest_product_version, and link_to_sbom at the end).
THEOREM ProductsAreLinked == Spec => []ProductLinked
<1>1. ProductsInv => ProductLinked
  BY DEF ProductsInv
<1> QED
  BY InitProducts, NextProducts, <1>1, PTL DEF Spec

-----------------------------------------------------------------------------
(* CveRecordStands *)

\* An authority is a record of the vulnerability it is the authority of.
AuthorityIsRecord ==
  \A v \in Vulns : authority[v] # NULL =>
    authority[v] \in advisories /\ IsCve(authority[v]) /\ v \in VulnsOf(authority[v])

\* Unless it is stale, a vulnerability that has records has an authority, no
\* record is newer than that one, and nothing but NVD has overwritten its data.
NewestIsAuthority ==
  \A v \in Vulns \ excuse.stale : \A c \in advisories :
    IsCve(c) /\ VulnsOf(c) = {v} =>
      /\ authority[v] # NULL /\ (c # authority[v] => ~Newer(c, authority[v]))
      /\ v \notin excuse.overwritten => data[v] = authority[v]

RecordsInv == Typed /\ AuthorityIsRecord /\ NewestIsAuthority

\* The record of a vulnerability is about no other.
LEMMA RecordFacts ==
  ASSUME NEW a, IsCve(a)
  PROVE  VulnsOf(a) = {AdvisoryDoc(a).id} /\ WritesData(a) /\ ClaimsAuthority(a)
  BY DEF IsCve, VulnsOf, Vulnerabilities, WritesData, ClaimsAuthority

LEMMA InitRecords == Init => RecordsInv
  BY InitTyped DEF Init, RecordsInv, AuthorityIsRecord, NewestIsAuthority, Vulns

LEMMA IngestRecords ==
  ASSUME RecordsInv, NEW a \in corpus.advisories, IngestAdvisory(a)
  PROVE  RecordsInv'
<1>1. Typed /\ Typed'
  BY AdvisoryTyped DEF RecordsInv
<1>2. /\ corpus' = corpus /\ Vulns' = Vulns /\ DOMAIN data = Vulns /\ DOMAIN authority = Vulns
      /\ advisories' = advisories \cup {a}
      /\ data' = [v \in Vulns |-> IF v \in VulnsOf(a) /\ WritesData(a) THEN a ELSE data[v]]
      /\ authority' = [v \in Vulns |-> IF v \in VulnsOf(a) /\ ClaimsAuthority(a) THEN a ELSE authority[v]]
      /\ excuse'.overwritten = IF AdvisoryDoc(a).type = "nvd" THEN excuse.overwritten \cup VulnsOf(a)
                               ELSE IF IsCve(a) THEN excuse.overwritten \ VulnsOf(a) ELSE excuse.overwritten
      /\ excuse'.stale = IF ~IsCve(a) THEN excuse.stale
                         ELSE IF \E b \in Records(a) : Newer(b, a) THEN excuse.stale \cup VulnsOf(a)
                         ELSE excuse.stale \ VulnsOf(a)
  BY <1>1 DEF IngestAdvisory, Typed, Vulns
<1>3. AuthorityIsRecord'
  BY <1>2 DEF RecordsInv, AuthorityIsRecord, ClaimsAuthority
<1>4. ASSUME NEW v \in Vulns, v \notin excuse'.stale, NEW c \in advisories', IsCve(c), VulnsOf(c) = {v}
      PROVE  /\ authority'[v] # NULL /\ (c # authority'[v] => ~Newer(c, authority'[v]))
             /\ v \notin excuse'.overwritten => data'[v] = authority'[v]
  <2>1. CASE IsCve(a) /\ VulnsOf(a) = {v}
    <3>1. \A b \in Records(a) : ~Newer(b, a)
      BY <1>2, <1>4, <2>1
    <3>2. c # a => ~Newer(c, a)
      BY <1>2, <1>4, <2>1, <3>1 DEF Records
    <3>3. authority'[v] = a /\ data'[v] = a
      BY <1>2, <2>1, RecordFacts
    <3>4. a # NULL
      BY <1>1, CorrelationAssumption DEF Typed
    <3> QED
      BY <3>2, <3>3, <3>4
  <2>2. CASE ~(IsCve(a) /\ VulnsOf(a) = {v})
    <3>1. c \in advisories
      BY <1>2, <1>4, <2>2
    <3>2. IsCve(a) => v \notin VulnsOf(a)
      BY <2>2, RecordFacts
    <3>3. v \notin excuse.stale
      BY <1>2, <1>4, <3>2
    <3>4. /\ authority[v] # NULL /\ (c # authority[v] => ~Newer(c, authority[v]))
          /\ (v \notin excuse.overwritten => data[v] = authority[v])
      BY <1>4, <3>1, <3>3 DEF RecordsInv, NewestIsAuthority
    <3>5. authority'[v] = authority[v]
      BY <1>2, <3>2 DEF ClaimsAuthority
    <3>6. CASE IsCve(a)
      BY <1>2, <3>2, <3>4, <3>5, <3>6 DEF IsCve
    <3>7. CASE AdvisoryDoc(a).type = "nvd"
      BY <1>2, <3>4, <3>5, <3>7
    <3>8. CASE ~IsCve(a) /\ AdvisoryDoc(a).type # "nvd"
      BY <1>2, <3>4, <3>5, <3>8 DEF WritesData, IsCve
    <3> QED
      BY <3>6, <3>7, <3>8
  <2> QED
    BY <2>1, <2>2
<1>5. NewestIsAuthority'
  BY <1>2, <1>4 DEF NewestIsAuthority
<1> QED
  BY <1>1, <1>3, <1>5 DEF RecordsInv

LEMMA DeleteRecords ==
  ASSUME RecordsInv, NEW a \in corpus.advisories, DeleteAdvisory(a)
  PROVE  RecordsInv'
<1>1. Typed /\ Typed'
  BY AdvisoryTyped DEF RecordsInv
<1>2. /\ corpus' = corpus /\ Vulns' = Vulns /\ DOMAIN authority = Vulns /\ data' = data
      /\ advisories' = advisories \ {a} /\ a \in advisories
      /\ authority' = [v \in Vulns |-> IF authority[v] = a THEN NULL ELSE authority[v]]
      /\ excuse'.overwritten = excuse.overwritten
      /\ excuse'.stale = excuse.stale \cup {v \in VulnsOf(a) : a = authority[v]}
  BY <1>1 DEF DeleteAdvisory, Typed, Vulns
<1>3. AuthorityIsRecord'
  BY <1>2 DEF RecordsInv, AuthorityIsRecord
<1>4. ASSUME NEW v \in Vulns, v \notin excuse'.stale, NEW c \in advisories', IsCve(c), VulnsOf(c) = {v}
      PROVE  /\ authority'[v] # NULL /\ (c # authority'[v] => ~Newer(c, authority'[v]))
             /\ v \notin excuse'.overwritten => data'[v] = authority'[v]
  <2>1. /\ authority[v] # NULL /\ (c # authority[v] => ~Newer(c, authority[v]))
        /\ v \notin excuse.overwritten => data[v] = authority[v]
    BY <1>2, <1>4 DEF RecordsInv, NewestIsAuthority
  <2>2. authority[v] # a
    BY <1>2, <1>4, <2>1 DEF RecordsInv, AuthorityIsRecord
  <2> QED
    BY <1>2, <2>1, <2>2
<1>5. NewestIsAuthority'
  BY <1>2, <1>4 DEF NewestIsAuthority
<1> QED
  BY <1>1, <1>3, <1>5 DEF RecordsInv

LEMMA NextRecords == RecordsInv /\ [Next]_vars => RecordsInv'
<1> SUFFICES ASSUME RecordsInv, [Next]_vars PROVE RecordsInv'
  OBVIOUS
<1>1. CASE /\ UNCHANGED <<corpus, advisories, authority, data>>
           /\ excuse'.stale = excuse.stale /\ excuse'.overwritten = excuse.overwritten
  <2>1. Typed'
    BY TypedNext DEF RecordsInv
  <2> QED
    BY <1>1, <2>1 DEF RecordsInv, AuthorityIsRecord, NewestIsAuthority, Vulns
<1>2. ASSUME NEW s \in corpus.sboms,
             StartSbom(s) \/ populate_ancestors(s) \/ CommitSbom(s) \/ AbortSbom(s) \/ DeleteSbom(s)
      PROVE  /\ UNCHANGED <<corpus, advisories, authority, data>>
             /\ excuse'.stale = excuse.stale /\ excuse'.overwritten = excuse.overwritten
  BY <1>2 DEF StartSbom, populate_ancestors, CommitSbom, AbortSbom, DeleteSbom, RecordsInv, Typed
<1>3. CASE UNCHANGED vars
  BY <1>1, <1>3 DEF vars
<1> QED
  BY <1>1, <1>2, <1>3, IngestRecords, DeleteRecords DEF Next

LEMMA RecordsFollow == RecordsInv => CveRecordStands
<1> SUFFICES ASSUME RecordsInv PROVE CveRecordStands
  OBVIOUS
<1>1. \A v \in Vulns : authority[v] \in {NULL} \cup advisories
  BY DEF RecordsInv, AuthorityIsRecord
<1>2. ASSUME NEW v \in Vulns \ excuse.stale, NEW a \in advisories, IsCve(a), VulnsOf(a) = {v},
             \A b \in Records(a) \ {a} : Newer(a, b)
      PROVE  authority[v] = a /\ (v \notin excuse.overwritten => data[v] = a)
  <2>1. /\ authority[v] # NULL /\ (a # authority[v] => ~Newer(a, authority[v]))
        /\ v \notin excuse.overwritten => data[v] = authority[v]
    BY <1>2 DEF RecordsInv, NewestIsAuthority
  <2>2. authority[v] \in Records(a)
    BY <1>2, <2>1, RecordFacts DEF RecordsInv, AuthorityIsRecord, Records
  <2> QED
    BY <1>2, <2>1, <2>2
<1> QED
  BY <1>1, <1>2 DEF CveRecordStands

\* A vulnerability names the newest record of the CVE list as its authority and
\* shows what it says, if no older one came after it, none that was the authority
\* has been deleted, and NVD has not overwritten it (VulnerabilityCreator).
THEOREM RecordsStand == Spec => []CveRecordStands
  BY InitRecords, NextRecords, RecordsFollow, PTL DEF Spec

-----------------------------------------------------------------------------
(* The pages: CountsAgree and PagesAgree *)

\* The rows that apply to references, one equivalence for each kind.
PurlsOf(rows, refs) == Applied(PurlApplies, rows, refs)
NamesOf(rows, refs) == Applied(NameApplies, rows, refs)

LEMMA PurlsApplied ==
  ASSUME NEW rows, NEW refs, NEW m
  PROVE  m \in PurlsOf(rows, refs) <=>
           \E row \in rows, ref \in refs : PurlApplies(row, ref[2]) /\ m = Match(row, ref[1], ref[2])
<1>1. ASSUME m \in PurlsOf(rows, refs)
      PROVE  \E row \in rows, ref \in refs : PurlApplies(row, ref[2]) /\ m = Match(row, ref[1], ref[2])
  <2>1. PICK t \in rows \X refs : PurlApplies(t[1], t[2][2]) /\ m = Match(t[1], t[2][1], t[2][2])
    BY <1>1 DEF Applied, PurlsOf
  <2>2. t[1] \in rows /\ t[2] \in refs
    BY <2>1
  <2> QED
    BY <2>1, <2>2
<1>2. ASSUME NEW row \in rows, NEW ref \in refs, PurlApplies(row, ref[2]), m = Match(row, ref[1], ref[2])
      PROVE  m \in PurlsOf(rows, refs)
  <2>1. <<row, ref>> \in {u \in rows \X refs : PurlApplies(u[1], u[2][2])}
    BY <1>2
  <2> QED
    BY <1>2, <2>1 DEF Applied, PurlsOf
<1> QED
  BY <1>1, <1>2

LEMMA NamesApplied ==
  ASSUME NEW rows, NEW refs, NEW m
  PROVE  m \in NamesOf(rows, refs) <=>
           \E row \in rows, ref \in refs : NameApplies(row, ref[2]) /\ m = Match(row, ref[1], ref[2])
<1>1. ASSUME m \in NamesOf(rows, refs)
      PROVE  \E row \in rows, ref \in refs : NameApplies(row, ref[2]) /\ m = Match(row, ref[1], ref[2])
  <2>1. PICK t \in rows \X refs : NameApplies(t[1], t[2][2]) /\ m = Match(t[1], t[2][1], t[2][2])
    BY <1>1 DEF Applied, NamesOf
  <2>2. t[1] \in rows /\ t[2] \in refs
    BY <2>1
  <2> QED
    BY <2>1, <2>2
<1>2. ASSUME NEW row \in rows, NEW ref \in refs, NameApplies(row, ref[2]), m = Match(row, ref[1], ref[2])
      PROVE  m \in NamesOf(rows, refs)
  <2>1. <<row, ref>> \in {u \in rows \X refs : NameApplies(u[1], u[2][2])}
    BY <1>2
  <2> QED
    BY <1>2, <2>1 DEF Applied, NamesOf
<1> QED
  BY <1>1, <1>2

LEMMA CpesApplied ==
  ASSUME NEW s, NEW rows, NEW m
  PROVE  m \in CpeMatches(s, rows) <=>
           \E row \in rows, cpe \in SbomRow[s].cpes, ref \in SbomRow[s].purls :
             /\ row.kind = "cpe" /\ ref[1] = cpe[1] /\ CpeApplies(s, row, cpe)
             /\ m = Match(row, cpe[1], ref[2])
<1> DEFINE cpes == SbomRow[s].cpes
           purls == SbomRow[s].purls
           all == {u \in OfKind(rows, "cpe") \X cpes \X purls : u[3][1] = u[2][1] /\ CpeApplies(s, u[1], u[2])}
<1>0. CpeMatches(s, rows) = {Match(t[1], t[2][1], t[3][2]) : t \in all}
  BY DEF CpeMatches
<1> HIDE DEF cpes, purls
<1>1. ASSUME m \in CpeMatches(s, rows)
      PROVE  \E row \in rows, cpe \in cpes, ref \in purls :
               /\ row.kind = "cpe" /\ ref[1] = cpe[1] /\ CpeApplies(s, row, cpe)
               /\ m = Match(row, cpe[1], ref[2])
  <2>1. PICK t \in OfKind(rows, "cpe") \X cpes \X purls :
          t[3][1] = t[2][1] /\ CpeApplies(s, t[1], t[2]) /\ m = Match(t[1], t[2][1], t[3][2])
    BY <1>0, <1>1
  <2>2. t[1] \in rows /\ t[1].kind = "cpe" /\ t[2] \in cpes /\ t[3] \in purls
    BY <2>1 DEF OfKind
  <2> QED
    BY <2>1, <2>2
<1>2. ASSUME NEW row \in rows, NEW cpe \in cpes, NEW ref \in purls,
             row.kind = "cpe", ref[1] = cpe[1], CpeApplies(s, row, cpe), m = Match(row, cpe[1], ref[2])
      PROVE  m \in CpeMatches(s, rows)
  <2>1. <<row, cpe, ref>> \in all
    BY <1>2 DEF OfKind
  <2> QED
    BY <1>0, <1>2, <2>1
<1>3. m \in CpeMatches(s, rows) <=>
        \E row \in rows, cpe \in cpes, ref \in purls :
          /\ row.kind = "cpe" /\ ref[1] = cpe[1] /\ CpeApplies(s, row, cpe)
          /\ m = Match(row, cpe[1], ref[2])
  BY <1>1, <1>2
<1> QED
  BY <1>3 DEF cpes, purls

LEMMA MatchFields ==
  ASSUME NEW row, NEW node, NEW purl, NEW m, m = Match(row, node, purl)
  PROVE  /\ m.vuln = row.vuln /\ m.status = row.status /\ m.kind = row.kind
         /\ m.context = row.context /\ m.node = node /\ m.purl = purl
  BY DEF Match

\* What a match on the page of an SBOM is made of.
LEMMA MatchOrigin ==
  ASSUME NEW s, NEW rows, NEW m \in AllMatches(s, rows)
  PROVE  \E row \in rows :
           /\ m.vuln = row.vuln /\ m.status = row.status /\ m.kind = row.kind /\ m.context = row.context
           /\ \/ /\ row.kind \in {"purl", "product"} /\ InContext(row.context, Describing[s])
                 /\ \E ref \in PackagePurls(s) :
                      /\ m = Match(row, ref[1], ref[2])
                      /\ row.kind = "purl" => PurlApplies(row, ref[2])
                      /\ row.kind = "product" => NameApplies(row, ref[2])
              \/ /\ row.kind = "cpe"
                 /\ \E cpe \in SbomRow[s].cpes, ref \in SbomRow[s].purls :
                      ref[1] = cpe[1] /\ CpeApplies(s, row, cpe) /\ m = Match(row, cpe[1], ref[2])
<1>1. CASE m \in PurlMatches(s, rows)
  <2>1. PICK row \in Here(s, rows, "purl"), ref \in PackagePurls(s) :
          PurlApplies(row, ref[2]) /\ m = Match(row, ref[1], ref[2])
    <3>1. m \in PurlsOf(Here(s, rows, "purl"), PackagePurls(s))
      BY <1>1 DEF PurlMatches, PurlsOf
    <3> QED
      BY <3>1, PurlsApplied
  <2>2. row \in rows /\ row.kind = "purl" /\ InContext(row.context, Describing[s])
    BY <2>1 DEF Here, OfKind
  <2> QED
    BY <2>1, <2>2, MatchFields
<1>2. CASE m \in ProductMatches(s, rows)
  <2>1. PICK row \in Here(s, rows, "product"), ref \in PackagePurls(s) :
          NameApplies(row, ref[2]) /\ m = Match(row, ref[1], ref[2])
    <3>1. m \in NamesOf(Here(s, rows, "product"), PackagePurls(s))
      BY <1>2 DEF ProductMatches, NamesOf
    <3> QED
      BY <3>1, NamesApplied
  <2>2. row \in rows /\ row.kind = "product" /\ InContext(row.context, Describing[s])
    BY <2>1 DEF Here, OfKind
  <2> QED
    BY <2>1, <2>2, MatchFields
<1>3. CASE m \in CpeMatches(s, rows)
  <2>1. PICK row \in rows, cpe \in SbomRow[s].cpes, ref \in SbomRow[s].purls :
          /\ row.kind = "cpe" /\ ref[1] = cpe[1] /\ CpeApplies(s, row, cpe)
          /\ m = Match(row, cpe[1], ref[2])
    BY <1>3, CpesApplied
  <2> QED
    BY <2>1, MatchFields
<1> QED
  BY <1>1, <1>2, <1>3 DEF AllMatches

\* The pages look at pairs that there are results of.
LEMMA PairFacts ==
  ASSUME Typed, NEW s \in sboms, NEW a \in Current
  PROVE  /\ <<s, a>> \in Pairs /\ a \in Advisories
         /\ Matches[<<s, a>>] = AllMatches(s, AdvisoryRow[a])
<1>1. a \in advisories /\ s \in corpus.sboms /\ a \in corpus.advisories /\ corpus \in Corpora
  BY DEF Typed, Current
<1>2. <<s, a>> \in Pairs /\ a \in Advisories
  BY <1>1, CorrelationAssumption DEF Pairs
<1> QED
  BY <1>2 DEF Matches

\* A reference to a package is a PURL of the SBOM.
LEMMA PackagePurlFacts ==
  ASSUME NEW s
  PROVE  \A ref : ref \in PackagePurls(s) <=> ref \in SbomRow[s].purls /\ ref[1] \in DOMAIN SbomRow[s].packages
  BY DEF PackagePurls

\* A reference, or a CPE with a PURL beside it, is what a match is made of.
LEMMA MatchMade ==
  ASSUME NEW s, NEW rows, NEW row \in rows
  PROVE  /\ \A ref \in PackagePurls(s) :
              row.kind = "purl" /\ InContext(row.context, Describing[s]) /\ PurlApplies(row, ref[2]) =>
                Match(row, ref[1], ref[2]) \in AllMatches(s, rows)
         /\ \A ref \in PackagePurls(s) :
              row.kind = "product" /\ InContext(row.context, Describing[s]) /\ NameApplies(row, ref[2]) =>
                Match(row, ref[1], ref[2]) \in AllMatches(s, rows)
         /\ \A cpe \in SbomRow[s].cpes : \A ref \in SbomRow[s].purls :
              row.kind = "cpe" /\ ref[1] = cpe[1] /\ CpeApplies(s, row, cpe) =>
                Match(row, cpe[1], ref[2]) \in AllMatches(s, rows)
<1>1. ASSUME NEW ref \in PackagePurls(s), row.kind = "purl", InContext(row.context, Describing[s]),
             PurlApplies(row, ref[2])
      PROVE  Match(row, ref[1], ref[2]) \in AllMatches(s, rows)
  <2>1. row \in Here(s, rows, "purl")
    BY <1>1 DEF Here, OfKind
  <2>2. Match(row, ref[1], ref[2]) \in PurlsOf(Here(s, rows, "purl"), PackagePurls(s))
    BY <1>1, <2>1, PurlsApplied
  <2> QED
    BY <2>2 DEF AllMatches, PurlMatches, PurlsOf
<1>2. ASSUME NEW ref \in PackagePurls(s), row.kind = "product", InContext(row.context, Describing[s]),
             NameApplies(row, ref[2])
      PROVE  Match(row, ref[1], ref[2]) \in AllMatches(s, rows)
  <2>1. row \in Here(s, rows, "product")
    BY <1>2 DEF Here, OfKind
  <2>2. Match(row, ref[1], ref[2]) \in NamesOf(Here(s, rows, "product"), PackagePurls(s))
    BY <1>2, <2>1, NamesApplied
  <2> QED
    BY <2>2 DEF AllMatches, ProductMatches, NamesOf
<1>3. ASSUME NEW cpe \in SbomRow[s].cpes, NEW ref \in SbomRow[s].purls,
             row.kind = "cpe", ref[1] = cpe[1], CpeApplies(s, row, cpe)
      PROVE  Match(row, cpe[1], ref[2]) \in AllMatches(s, rows)
  <2>1. Match(row, cpe[1], ref[2]) \in CpeMatches(s, rows)
    BY <1>3, CpesApplied
  <2> QED
    BY <2>1 DEF AllMatches
<1> QED
  BY <1>1, <1>2, <1>3

\* The status of a row is about a PURL, a CPE or a name of a package, whatever
\* the document is.
Kinds == {"purl", "cpe", "product"}

LEMMA OsvKinds ==
  ASSUME NEW doc
  PROVE  \A row \in OsvRows(doc) : row.kind \in Kinds
<1>0. \A vuln, key, status, range, context : Row("purl", vuln, key, status, range, context).kind \in Kinds
  BY DEF Row, Kinds
<1>1. ASSUME NEW vuln, NEW purl, NEW events, NEW scheme,
             NEW row \in build_package_status(vuln, purl, events, scheme)
      PROVE  row.kind \in Kinds
  <2>1. \E key, status, range, context : row = Row("purl", vuln, key, status, range, context)
    BY DEF build_package_status
  <2> QED
    BY <1>0, <2>1
<1>2. \A vuln, purl, events, versions :
        \A row \in build_package_status_versions(vuln, purl, events, versions) : row.kind \in Kinds
  BY DEF build_package_status_versions, Row, Kinds
<1>3. ASSUME NEW vuln, NEW purl, NEW affected, NEW range
      PROVE  \A row \in RangeRows(vuln, purl, affected, range) : row.kind \in Kinds
  BY <1>1, <1>2 DEF RangeRows
<1> DEFINE listed(vuln, affected, purl) ==
             {Row("purl", vuln, purl, "affected", Exact("generic", affected.versions[i]), NULL) :
                i \in DOMAIN affected.versions}
           rows(vuln, affected, purl) ==
             listed(vuln, affected, purl)
             \cup UNION {RangeRows(vuln, purl, affected, range) : range \in affected.ranges}
<1>4. ASSUME NEW vuln, NEW purl, NEW affected, NEW row \in rows(vuln, affected, purl)
      PROVE  row.kind \in Kinds
  <2>1. CASE row \in listed(vuln, affected, purl)
    BY <2>1 DEF Row, Kinds
  <2>2. CASE \E range \in affected.ranges : row \in RangeRows(vuln, purl, affected, range)
    BY <1>3, <2>2
  <2> QED
    BY <1>4, <2>1, <2>2
<1>5. OsvRows(doc) =
        UNION {UNION {rows(vuln, affected, purl) : vuln \in doc.aliases, purl \in affected.purls} :
                 affected \in doc.affected}
  BY DEF OsvRows
<1> HIDE DEF rows
<1> QED
  BY <1>4, <1>5

LEMMA CveKinds ==
  ASSUME NEW doc
  PROVE  \A row \in CveRows(doc) : row.kind \in Kinds
<1>1. ASSUME NEW vuln, NEW product, NEW row \in ProductRows(vuln, product)
      PROVE  row.kind \in Kinds
  BY DEF ProductRows, Row, Kinds
<1> QED
  BY <1>1 DEF CveRows

LEMMA CsafKinds ==
  ASSUME NEW doc
  PROVE  \A row \in CsafRows(doc) : row.kind \in Kinds
<1>1. ASSUME NEW vuln, NEW status, NEW id, NEW row \in StatusRows(doc, vuln, status, id)
      PROVE  row.kind \in Kinds
  BY DEF StatusRows, Row, Kinds
<1>2. ASSUME NEW row \in CsafRows(doc)
      PROVE  \E vuln, status, id : row \in StatusRows(doc, vuln, status, id)
  <2> DEFINE rows(v, status, ids) == UNION {StatusRows(doc, v.cve, status, id) : id \in ids}
  <2>1. PICK v \in doc.vulnerabilities :
          row \in UNION {rows(v, "fixed", v.fixed), rows(v, "not_affected", v.known_not_affected),
                        rows(v, "affected", v.known_affected)}
    BY DEF CsafRows
  <2>2. PICK status, ids : row \in rows(v, status, ids)
    <3> HIDE DEF rows
    <3> QED
      BY <2>1
  <2> QED
    BY <2>2
<1> QED
  BY <1>1, <1>2

LEMMA RowKinds ==
  ASSUME NEW doc
  PROVE  \A row \in AdvisoryRows(doc) : row.kind \in Kinds
<1>1. \A row \in NvdRows(doc) : row.kind \in Kinds
  BY DEF NvdRows, Row, Kinds
<1> QED
  BY <1>1, OsvKinds, CveKinds, CsafKinds DEF AdvisoryRows

\* What is counted: a row that applies to a reference of the SBOM.
CountedRow(s, row) ==
  /\ row.status = "affected"
  /\ row.kind # "cpe" => InContext(row.context, Describing[s])
  /\ CASE row.kind = "purl" -> \E ref \in SbomRow[s].purls : PurlApplies(row, ref[2])
       [] row.kind = "product" -> \E ref \in SbomRow[s].purls : NameApplies(row, ref[2])
       [] OTHER -> \E ref \in SbomRow[s].cpes : CpeApplies(s, row, ref)

LEMMA CountedFacts ==
  ASSUME NEW s, NEW a, <<s, a>> \in Pairs
  PROVE  CountedOf[<<s, a>>] = {row.vuln : row \in {r \in AdvisoryRow[a] : CountedRow(s, r)}}
  BY DEF CountedOf, CountedRow

LEMMA CountsFollow == Typed => CountsAgree
<1> SUFFICES ASSUME Typed, NEW s \in sboms
             PROVE  SameCount(s, UNION {{m.vuln : m \in SbomPage(s, a)} : a \in Current}, Counted(s))
  BY DEF CountsAgree
<1> DEFINE shown == UNION {{m.vuln : m \in SbomPage(s, a)} : a \in Current}
           owners == {ref[1] : ref \in PackagePurls(s)}
<1>1. ASSUME NEW a \in Current, NEW m \in SbomPage(s, a)
      PROVE  m.vuln \in Counted(s)
  <2>1. m \in AllMatches(s, AdvisoryRow[a]) /\ m.status = "affected" /\ <<s, a>> \in Pairs
    BY <1>1, PairFacts DEF SbomPage
  <2>2. PICK row \in AdvisoryRow[a] :
           /\ m.vuln = row.vuln /\ m.status = row.status
           /\ \/ /\ row.kind \in {"purl", "product"} /\ InContext(row.context, Describing[s])
                 /\ \E ref \in PackagePurls(s) :
                      /\ row.kind = "purl" => PurlApplies(row, ref[2])
                      /\ row.kind = "product" => NameApplies(row, ref[2])
              \/ /\ row.kind = "cpe"
                 /\ \E cpe \in SbomRow[s].cpes : CpeApplies(s, row, cpe)
    BY <2>1, MatchOrigin
  <2>3. CountedRow(s, row)
    BY <2>1, <2>2, PackagePurlFacts DEF CountedRow
  <2>4. row.vuln \in CountedOf[<<s, a>>]
    BY <2>1, <2>3, CountedFacts
  <2> QED
    BY <2>2, <2>4 DEF Counted
<1>2. ASSUME \A ref \in SbomRow[s].cpes \cup SbomRow[s].purls : ref[1] \in owners,
             NEW a \in Current, NEW v \in CountedOf[<<s, a>>]
      PROVE  \E m \in SbomPage(s, a) : v = m.vuln
  <2>1. <<s, a>> \in Pairs /\ a \in Advisories /\ Matches[<<s, a>>] = AllMatches(s, AdvisoryRow[a])
    BY PairFacts
  <2>2. PICK row \in AdvisoryRow[a] : CountedRow(s, row) /\ v = row.vuln
    BY <1>2, <2>1, CountedFacts
  <2>3. row.kind \in Kinds
    BY <2>1, <2>2, RowKinds DEF AdvisoryRow
  <2>4. \E node, purl : Match(row, node, purl) \in AllMatches(s, AdvisoryRow[a])
    <3>1. CASE row.kind = "cpe"
      <4>1. PICK cpe \in SbomRow[s].cpes : CpeApplies(s, row, cpe)
        BY <2>2, <3>1 DEF CountedRow
      <4>2. PICK ref \in PackagePurls(s) : ref[1] = cpe[1]
        BY <1>2
      <4> QED
        BY <2>2, <3>1, <4>1, <4>2, MatchMade, PackagePurlFacts
    <3>2. CASE row.kind = "purl"
      <4>1. PICK ref \in SbomRow[s].purls : PurlApplies(row, ref[2]) /\ InContext(row.context, Describing[s])
        BY <2>2, <3>2 DEF CountedRow
      <4>2. ref \in PackagePurls(s)
        BY <1>2, PackagePurlFacts
      <4> QED
        BY <2>2, <3>2, <4>1, <4>2, MatchMade
    <3>3. CASE row.kind = "product"
      <4>1. PICK ref \in SbomRow[s].purls : NameApplies(row, ref[2]) /\ InContext(row.context, Describing[s])
        BY <2>2, <3>3 DEF CountedRow
      <4>2. ref \in PackagePurls(s)
        BY <1>2, PackagePurlFacts
      <4> QED
        BY <2>2, <3>3, <4>1, <4>2, MatchMade
    <3> QED
      BY <2>3, <3>1, <3>2, <3>3 DEF Kinds
  <2>5. PICK node, purl : Match(row, node, purl) \in AllMatches(s, AdvisoryRow[a])
    BY <2>4
  <2>6. Match(row, node, purl).vuln = v /\ Match(row, node, purl).status = "affected"
    BY <2>2 DEF Match, CountedRow
  <2> QED
    BY <2>1, <2>5, <2>6 DEF SbomPage
<1>3. shown \subseteq Counted(s)
  BY <1>1
<1>4. (\A ref \in SbomRow[s].cpes \cup SbomRow[s].purls : ref[1] \in owners) => Counted(s) \subseteq shown
  <2> SUFFICES ASSUME \A ref \in SbomRow[s].cpes \cup SbomRow[s].purls : ref[1] \in owners,
                      NEW v \in Counted(s)
               PROVE  v \in shown
    OBVIOUS
  <2>1. PICK a \in Current : v \in CountedOf[<<s, a>>]
    BY DEF Counted
  <2>2. \E m \in SbomPage(s, a) : v = m.vuln
    BY <1>2, <2>1
  <2> QED
    BY <2>2
<1> QED
  BY <1>3, <1>4 DEF SameCount

\* Whatever the documents are: the list of SBOMs counts the vulnerabilities on
\* the page of an SBOM, and others only where a node has no PURL or is no package
\* (batch_severity_counts_sql and the three statements of the page).
THEOREM CountsDoAgree == Spec => []CountsAgree
  BY TypeCorrect, CountsFollow, PTL

\* A context that one SBOM is in is one of a set of SBOMs with it, if the one
\* has contexts or none of them has.
LEMMA ContextKept ==
  ASSUME NEW context, NEW some, NEW all, some \subseteq all, InContext(context, some),
         some # {} \/ all = {}
  PROVE  InContext(context, all)
  BY DEF InContext

\* What the page of an SBOM says is on the page of the vulnerability, if the SBOM
\* describes a package; of the PURL; and in the analysis of the PURL.
LEMMA PageShown ==
  ASSUME Typed, NEW s \in sboms, NEW a \in Current, NEW m \in SbomPage(s, a)
  PROVE  /\ m.kind # "product" /\ DescribesPackage(s) => m \in VulnerabilityPage(s, a)
         /\ m.kind = "purl" /\ (Describing[s] # {} \/ \A t \in Having(m.purl) : Describing[t] = {}) =>
              \E row \in PurlPage(m.purl, a) : row.vuln = m.vuln /\ row.status = "affected"
         /\ m.kind # "cpe" /\ m.purl.version # Empty =>
              \E row \in Analysis(m.purl, a) : row.vuln = m.vuln
<1>1. /\ <<s, a>> \in Pairs /\ a \in Advisories /\ m.status = "affected"
      /\ m \in AllMatches(s, AdvisoryRow[a])
  BY PairFacts DEF SbomPage
<1>2. PICK row \in AdvisoryRow[a] :
        /\ m.vuln = row.vuln /\ m.status = row.status /\ m.kind = row.kind
        /\ \/ /\ row.kind \in {"purl", "product"} /\ InContext(row.context, Describing[s])
              /\ \E ref \in PackagePurls(s) :
                   /\ m = Match(row, ref[1], ref[2])
                   /\ row.kind = "purl" => PurlApplies(row, ref[2])
                   /\ row.kind = "product" => NameApplies(row, ref[2])
           \/ /\ row.kind = "cpe"
              /\ \E cpe \in SbomRow[s].cpes, ref \in SbomRow[s].purls :
                   ref[1] = cpe[1] /\ CpeApplies(s, row, cpe) /\ m = Match(row, cpe[1], ref[2])
  BY <1>1, MatchOrigin
<1>3. CASE row.kind = "cpe"
  <2>1. m \in CpeMatches(s, AdvisoryRow[a])
    BY <1>2, <1>3, CpesApplied
  <2>2. DescribesPackage(s) => m \in ListedByCpe[<<s, a>>]
    BY <1>1, <2>1 DEF ListedByCpe
  <2>3. m.kind = "cpe"
    BY <1>2, <1>3
  <2> QED
    BY <2>2, <2>3 DEF VulnerabilityPage
<1>4. CASE row.kind \in {"purl", "product"}
  <2>1. PICK ref \in PackagePurls(s) :
           /\ m = Match(row, ref[1], ref[2])
           /\ row.kind = "purl" => PurlApplies(row, ref[2])
           /\ row.kind = "product" => NameApplies(row, ref[2])
    BY <1>2, <1>4
  <2>2. m.purl = ref[2] /\ ref \in SbomRow[s].purls
    BY <2>1, MatchFields, PackagePurlFacts
  <2>3. InContext(row.context, Describing[s])
    BY <1>2, <1>4
  <2>4. ASSUME m.kind = "purl", DescribesPackage(s) PROVE m \in ListedByPurl[<<s, a>>]
    <3>1. row \in OfKind(AdvisoryRow[a], "purl")
      BY <1>2, <2>4 DEF OfKind
    <3>2. m \in PurlsOf(OfKind(AdvisoryRow[a], "purl"), SbomRow[s].purls)
      BY <1>2, <2>1, <2>2, <2>4, <3>1, PurlsApplied
    <3> QED
      BY <1>1, <2>4, <3>2 DEF ListedByPurl, PurlsOf
  <2>5. ASSUME m.kind = "purl", Describing[s] # {} \/ \A t \in Having(m.purl) : Describing[t] = {}
        PROVE  row \in PurlPage(m.purl, a)
    <3> DEFINE all == UNION {Describing[t] : t \in Having(m.purl)}
    <3>1. s \in Having(m.purl)
      BY <2>2 DEF Having
    <3>2. Describing[s] \subseteq all /\ (Describing[s] # {} \/ all = {})
      BY <2>5, <3>1
    <3>3. InContext(row.context, all)
      BY <2>3, <3>2, ContextKept
    <3> QED
      BY <1>2, <2>1, <2>2, <2>5, <3>3 DEF PurlPage, OfKind
  <2>6. ASSUME m.purl.version # Empty PROVE row \in Analysis(m.purl, a)
    BY <1>1, <1>2, <1>4, <2>1, <2>2, <2>6 DEF Analysis
  <2>7. m.kind # "product" => m.kind = "purl"
    BY <1>2, <1>4
  <2> QED
    BY <1>1, <1>2, <2>4, <2>5, <2>6, <2>7 DEF VulnerabilityPage
<1> QED
  BY <1>2, <1>3, <1>4

\* And back, for what the vulnerability lists of packages without a context.
LEMMA ListedIsShown ==
  ASSUME Typed, NEW s \in sboms, NEW a \in Current, NEW m \in VulnerabilityPage(s, a),
         m.status = "affected", m.context = NULL, m.node \in DOMAIN SbomRow[s].packages
  PROVE  m \in SbomPage(s, a)
<1>1. <<s, a>> \in Pairs /\ a \in Advisories /\ Matches[<<s, a>>] = AllMatches(s, AdvisoryRow[a])
  BY PairFacts
<1>2. CASE m \in ListedByPurl[<<s, a>>]
  <2>1. m \in PurlsOf(OfKind(AdvisoryRow[a], "purl"), SbomRow[s].purls)
    BY <1>1, <1>2 DEF ListedByPurl, PurlsOf
  <2>2. PICK row \in OfKind(AdvisoryRow[a], "purl"), ref \in SbomRow[s].purls :
          PurlApplies(row, ref[2]) /\ m = Match(row, ref[1], ref[2])
    BY <2>1, PurlsApplied
  <2>3. row \in AdvisoryRow[a] /\ row.kind = "purl"
    BY <2>2 DEF OfKind
  <2>4. row.context = NULL /\ ref[1] \in DOMAIN SbomRow[s].packages
    BY <2>2, MatchFields
  <2>5. InContext(row.context, Describing[s]) /\ ref \in PackagePurls(s)
    BY <2>2, <2>4, PackagePurlFacts DEF InContext
  <2>6. m \in AllMatches(s, AdvisoryRow[a])
    BY <2>2, <2>3, <2>5, MatchMade
  <2> QED
    BY <1>1, <2>6 DEF SbomPage
<1>3. CASE m \in ListedByCpe[<<s, a>>]
  <2>1. m \in CpeMatches(s, AdvisoryRow[a])
    BY <1>1, <1>3 DEF ListedByCpe
  <2> QED
    BY <1>1, <2>1 DEF SbomPage, AllMatches
<1> QED
  BY <1>2, <1>3 DEF VulnerabilityPage

LEMMA PagesFollow == Typed => PagesAgree
  BY PageShown, ListedIsShown DEF PagesAgree, SamePages

\* Whatever the documents are, the pages of an SBOM, of a vulnerability, of a
\* PURL and the analysis of PURLs say the same of a package where they claim to,
\* although each is a query of its own.
THEOREM PagesDoAgree == Spec => []PagesAgree
  BY TypeCorrect, PagesFollow, PTL

-----------------------------------------------------------------------------
(* WayBack *)

\* A walk looks things up and changes none of them.
LEMMA WalkLooks ==
  /\ TraversalInit => Init
  /\ [TraversalNext]_<<vars, walk>> => [Next]_vars
<1>1. TraversalNext => Next \/ UNCHANGED vars
  BY DEF TraversalNext, Elsewhere, Query, Collect, Resolve, Enter, Answer
<1>2. UNCHANGED <<vars, walk>> => UNCHANGED vars
  BY DEF vars
<1> QED
  BY <1>1, <1>2 DEF TraversalInit

THEOREM WalksChangeNothing == TraversalSpec => Spec
  BY WalkLooks, PTL DEF TraversalSpec, Spec

LEMMA CorpusSboms == Typed => sboms \subseteq Sboms /\ DOMAIN ingest \subseteq Sboms
  BY CorrelationAssumption DEF Typed

\* An external node that one SBOM has is resolved to what that SBOM says.
LEMMA ResolvedByOne ==
  ASSUME Typed, NEW s \in sboms, NEW e \in DOMAIN SbomRow[s].externals,
         SbomRow[s].externals[e].type = "redhat",
         \A t \in sboms \ {s} : e \notin DOMAIN SbomRow[t].externals
  PROVE  resolve_external_sbom(e) = resolve_rh_external_sbom_descendants(s, SbomRow[s].externals[e].ref)
<1> DEFINE known == {t \in sboms : e \in DOMAIN SbomRow[t].externals}
<1>1. known = {s}
  OBVIOUS
<1>2. Published[s] <= Published[s]
  BY CorpusSboms, TraversalAssumption DEF Published
<1>3. Newest({s}) = {s}
  BY <1>2 DEF Newest
<1>4. Newest(known) = {s} /\ known # {}
  BY <1>1, <1>3
<1> HIDE DEF known
<1> QED
  BY <1>4 DEF resolve_external_sbom, known

\* What a reference is resolved to has one of its checksums in another SBOM.
LEMMA DescendantFacts ==
  ASSUME NEW s, NEW ref
  PROVE  /\ \A x \in resolve_rh_external_sbom_descendants(s, ref) \ {NoNode} :
              /\ x = <<x[1], x[2]>> /\ x[1] \in sboms \ {s} /\ ~IsUuid(x[2])
              /\ SumsOf(s, ref) \cap SumsOf(x[1], x[2]) # {}
         /\ \A t \in sboms \ {s} : \A n :
              ~IsUuid(n) /\ SumsOf(s, ref) \cap SumsOf(t, n) # {} =>
                <<t, n>> \in resolve_rh_external_sbom_descendants(s, ref)
<1> DEFINE nodes(sum, t) == {n \in {c[1] : c \in {k \in SbomRow[t].checksums : k[2] = sum}} : ~IsUuid(n)}
           matches(sum) == UNION {{t} \X nodes(sum, t) : t \in OtherSboms(s)}
           found(sum) == IF matches(sum) = {} THEN {NoNode} ELSE matches(sum)
           sums == SumsOf(s, ref)
<1>1. resolve_rh_external_sbom_descendants(s, ref) =
        IF sums = {} THEN {NoNode} ELSE UNION {found(sum) : sum \in sums}
  BY DEF resolve_rh_external_sbom_descendants
<1>2. \A sum, t, n : n \in nodes(sum, t) <=> ~IsUuid(n) /\ sum \in SumsOf(t, n)
  BY DEF SumsOf
<1>3. OtherSboms(s) = sboms \ {s}
  BY DEF OtherSboms
<1> HIDE DEF nodes, sums
<1>4. ASSUME NEW sum, NEW x \in matches(sum)
      PROVE  x = <<x[1], x[2]>> /\ x[1] \in sboms \ {s} /\ x[2] \in nodes(sum, x[1])
  BY <1>3
<1>5. ASSUME NEW sum, NEW t \in sboms \ {s}, NEW n \in nodes(sum, t)
      PROVE  <<t, n>> \in matches(sum)
  BY <1>3
<1> HIDE DEF matches
<1>6. ASSUME NEW x \in resolve_rh_external_sbom_descendants(s, ref) \ {NoNode}
      PROVE  \E sum \in sums : x \in matches(sum)
  BY <1>1
<1>7. ASSUME NEW sum \in sums, NEW x \in matches(sum)
      PROVE  x \in resolve_rh_external_sbom_descendants(s, ref)
  BY <1>1
<1> HIDE DEF found
<1>8. ASSUME NEW x \in resolve_rh_external_sbom_descendants(s, ref) \ {NoNode}
      PROVE  /\ x = <<x[1], x[2]>> /\ x[1] \in sboms \ {s} /\ ~IsUuid(x[2])
             /\ SumsOf(s, ref) \cap SumsOf(x[1], x[2]) # {}
  BY <1>2, <1>4, <1>6 DEF sums
<1>9. ASSUME NEW t \in sboms \ {s}, NEW n, ~IsUuid(n), SumsOf(s, ref) \cap SumsOf(t, n) # {}
      PROVE  <<t, n>> \in resolve_rh_external_sbom_descendants(s, ref)
  <2>1. PICK sum \in sums : sum \in SumsOf(t, n)
    BY <1>9 DEF sums
  <2>2. n \in nodes(sum, t)
    BY <1>2, <1>9, <2>1
  <2> QED
    BY <1>5, <1>7, <2>1, <2>2
<1> QED
  BY <1>8, <1>9

\* The ancestors that are looked up, one by one.
LEMMA AncestorRows ==
  ASSUME NEW t
  PROVE  /\ \A row \in resolve_rh_external_sbom_ancestors(t) : \E p \in ancestors : \E ne \in StandFor[p] :
              p[1] = t /\ row = <<ne[1], <<p[2], ne[2]>> >>
         /\ \A p \in ancestors : \A ne \in StandFor[p] :
              p[1] = t => <<ne[1], <<p[2], ne[2]>> >> \in resolve_rh_external_sbom_ancestors(t)
  BY DEF resolve_rh_external_sbom_ancestors

LEMMA StandForFacts ==
  ASSUME NEW t \in Sboms, NEW s \in Sboms
  PROVE  StandFor[<<t, s>>] =
           {ne \in (DOMAIN SbomRow[t].packages) \X (DOMAIN SbomRow[s].externals) :
              SumsOf(t, ne[1]) \cap SumsOf(s, SbomRow[s].externals[ne[2]].ref) # {}}
  BY DEF StandFor

\* An SBOM that has a checksum of what another one refers to is linked to it.
LEMMA SumLinks ==
  ASSUME NEW t \in Sboms, NEW s \in Sboms, t # s, NEW n, NEW e \in DOMAIN SbomRow[s].externals,
         SumsOf(t, n) \cap SumsOf(s, SbomRow[s].externals[e].ref) # {}
  PROVE  Links[<<t, s>>]
<1>1. PICK sum : sum \in SumsOf(t, n) /\ sum \in SumsOf(s, SbomRow[s].externals[e].ref)
  OBVIOUS
<1>2. sum \in ChecksumValues(SbomRow[t])
  BY <1>1 DEF SumsOf, ChecksumValues
<1>3. sum \in ReferredChecksums(SbomRow[s])
  BY <1>1 DEF SumsOf, ReferredChecksums
<1>4. <<t, s>> \in Sboms \X Sboms
  OBVIOUS
<1> QED
  BY <1>2, <1>3, <1>4 DEF Links

LEMMA WaysAgree == AncestorsInv => WayBack
<1> SUFFICES ASSUME AncestorsInv,
                    NEW s \in sboms, NEW e \in DOMAIN SbomRow[s].externals,
                    SbomRow[s].externals[e].type = "redhat",
                    \A t \in sboms \ {s} : e \notin DOMAIN SbomRow[t].externals
             PROVE  /\ \A x \in resolve_external_sbom(e) \ {NoNode} :
                         IsPackage(x) /\ {s, x[1]} \notin excuse.overlapped =>
                           <<x[2], <<s, e>> >> \in resolve_rh_external_sbom_ancestors(x[1])
                    /\ \A t \in sboms : \A row \in resolve_rh_external_sbom_ancestors(t) :
                         row[2] = <<s, e>> /\ ~IsUuid(row[1]) => resolve_external_sbom(e) # {NoNode}
  BY DEF WayBack
<1> DEFINE ref == SbomRow[s].externals[e].ref
<1>1. Typed /\ sboms \subseteq Sboms
  BY CorpusSboms DEF AncestorsInv
<1>2. resolve_external_sbom(e) = resolve_rh_external_sbom_descendants(s, ref)
  BY <1>1, ResolvedByOne
<1>3. ASSUME NEW x \in resolve_external_sbom(e) \ {NoNode}, IsPackage(x), {s, x[1]} \notin excuse.overlapped
      PROVE  <<x[2], <<s, e>> >> \in resolve_rh_external_sbom_ancestors(x[1])
  <2> DEFINE t == x[1]
             n == x[2]
  <2>1. t \in sboms /\ t # s /\ SumsOf(s, ref) \cap SumsOf(t, n) # {}
    BY <1>2, <1>3, DescendantFacts
  <2>2. n \in DOMAIN SbomRow[t].packages
    BY <1>3 DEF IsPackage
  <2>3. {t, s} \notin excuse.overlapped
    <3>1. {s, t} = {t, s}
      OBVIOUS
    <3> QED
      BY <1>3, <3>1
  <2> HIDE DEF t, n, ref
  <2>4. SumsOf(t, n) \cap SumsOf(s, ref) # {}
    BY <2>1
  <2>5. Links[<<t, s>>]
    BY <1>1, <2>1, <2>4, SumLinks DEF ref
  <2>6. <<t, s>> \in ancestors
    BY <2>1, <2>3, <2>5 DEF AncestorsInv, AncestorsComplete
  <2>7. <<n, e>> \in StandFor[<<t, s>>]
    BY <1>1, <2>1, <2>2, <2>4, StandForFacts DEF ref
  <2>8. <<n, <<s, e>> >> \in resolve_rh_external_sbom_ancestors(t)
    <3> DEFINE p == <<t, s>>
               ne == <<n, e>>
    <3>1. p \in ancestors /\ ne \in StandFor[p] /\ p[1] = t /\ p[2] = s /\ ne[1] = n /\ ne[2] = e
      BY <2>6, <2>7
    <3> HIDE DEF p, ne
    <3>2. <<ne[1], <<p[2], ne[2]>> >> \in resolve_rh_external_sbom_ancestors(t)
      BY <3>1, AncestorRows
    <3> QED
      BY <3>1, <3>2
  <2> QED
    BY <2>8 DEF t, n
<1>4. ASSUME NEW t \in sboms, NEW row \in resolve_rh_external_sbom_ancestors(t),
             row[2] = <<s, e>>, ~IsUuid(row[1])
      PROVE  resolve_external_sbom(e) # {NoNode}
  <2>1. PICK p \in ancestors : \E ne \in StandFor[p] : p[1] = t /\ row = <<ne[1], <<p[2], ne[2]>> >>
    BY AncestorRows
  <2>2. PICK ne \in StandFor[p] : p[1] = t /\ row = <<ne[1], <<p[2], ne[2]>> >>
    BY <2>1
  <2>3. p[2] = s /\ ne[2] = e /\ row[1] = ne[1]
    BY <1>4, <2>2
  <2>4. p = <<t, s>> /\ Links[p]
    BY <2>1, <2>3 DEF AncestorsInv, AncestorsHold
  <2>5. t # s
    BY <1>1, <2>4, LinksFacts DEF Typed
  <2>6. SumsOf(t, ne[1]) \cap SumsOf(s, ref) # {}
    BY <1>1, <2>2, <2>3, <2>4, StandForFacts
  <2>7. SumsOf(s, ref) \cap SumsOf(t, ne[1]) # {}
    BY <2>6
  <2> HIDE DEF ref
  <2>8. <<t, ne[1]>> \in resolve_rh_external_sbom_descendants(s, ref)
    BY <1>4, <2>3, <2>5, <2>7, DescendantFacts
  <2> QED
    BY <1>2, <2>8 DEF NoNode
<1> QED
  BY <1>3, <1>4

\* The way down that compares checksums and the way up that was stored agree,
\* whatever is ingested and deleted in whichever order.
THEOREM WaysDoAgree == TraversalSpec => []WayBack
<1>1. TraversalSpec => []AncestorsInv
  BY WalksChangeNothing, InitAncestors, NextAncestors, PTL DEF Spec
<1> QED
  BY <1>1, WaysAgree, PTL

-----------------------------------------------------------------------------
(* WalkComplete *)

\* Every SBOM passed the validation of its relationships.
Loadable == \A s \in sboms \cup DOMAIN ingest : SbomRow[s].loads

\* Of some SBOMs that are there, one is the newest.
NewestThere == \A T \in SUBSET sboms : T # {} => Newest(T) # {}

LookupInv == AncestorsInv /\ Loadable /\ NewestThere

\* What WalkComplete speaks of.
Everything(x) == (walk.depth = Unlimited /\ walk.rels = {}) \/ (x = walk.from /\ walk.depth # 0)
Kept(edges) == {e \in edges : Wanted(e[1])}
EdgesAt(x) == edges_directed(walk.dir, x)
StandIns(x) == {r[2] : r \in {q \in resolve_rh_external_sbom_ancestors(x[1]) : q[1] = x[2]}}
EdgesOfAll(x) == EdgesAt(x) \cup UNION {EdgesAt(y) : y \in StandIns(x)}
EdgesOrNone(y) == IF y = NoNode THEN {} ELSE EdgesAt(y)

WalkShape ==
  /\ walk = [dir |-> walk.dir, from |-> walk.from, depth |-> walk.depth, rels |-> walk.rels,
             todo |-> walk.todo, seen |-> walk.seen, shown |-> walk.shown, known |-> walk.known,
             stable |-> walk.stable]
  /\ walk.stable \in BOOLEAN

\* A task shows what it finds below a node that has been visited, or is about to
\* be; it passed no relationship that is left out if its node may leave out
\* nothing; and if it comes from another SBOM, the reference is still there.
TaskFits(t, seen, known) ==
  /\ t = Task(t.step, t.at, t.parent, t.depth, t.kept)
  /\ t.step \in {"collect", "resolve", "enter"} /\ t.kept \in BOOLEAN
  /\ t.step = "collect" => t.parent = t.at /\ t.at \notin seen /\ t.at[1] \in DOMAIN known
  /\ t.step = "resolve" => t.parent = t.at /\ IsExternal(t.at)
  /\ t.step # "collect" => t.parent \in seen
  /\ t.step = "enter" /\ walk.stable =>
       IF IsExternal(t.parent) THEN t.at \in resolve_external_sbom(t.parent[2]) \ {NoNode}
       ELSE t.at \in StandIns(t.parent)
  /\ Everything(t.parent) => t.kept
  /\ walk.depth = Unlimited => t.depth = Unlimited

Pending(t, x) == t.step # "collect" /\ t.parent = x

\* An external node is resolved once, and shows nothing before.
OnePending ==
  \A t \in walk.todo : t.step # "collect" /\ IsExternal(t.parent) =>
    /\ \A u \in walk.todo : Pending(u, t.parent) => u = t
    /\ \A f \in walk.shown : f[1] # t.parent

KnownFits == walk.stable => \A s \in DOMAIN walk.known : walk.known[s] = resolve_rh_external_sbom_ancestors(s)

\* Only nodes that have been visited show something, and nothing they should not.
ShownFits ==
  \A f \in walk.shown :
    /\ f[1] \in walk.seen /\ Wanted(f[2])
    /\ walk.stable /\ ~IsExternal(f[1]) => <<f[2], f[3]>> \in EdgesOfAll(f[1])

\* The first node is visited first.
Started ==
  \/ walk.from \in walk.seen
  \/ /\ walk.seen = {} /\ walk.shown = {}
     /\ walk.todo = IF walk.depth = 0 THEN {} ELSE {Task("collect", walk.from, walk.from, walk.depth, TRUE)}

\* Without limits, whatever is reached has been visited or is going to be.
AllVisited ==
  walk.depth = Unlimited /\ walk.rels = {} =>
    \A x \in Reached : x \in walk.seen \/ \E t \in walk.todo : t.step = "collect" /\ t.at = x

\* Its own relationships a node shows when it is visited.
OwnShown == \A x \in walk.seen : Everything(x) /\ ~IsExternal(x) => Kept(EdgesAt(x)) \subseteq Shown(x)

\* Those of the nodes that stand for it follow.
ClimbShown ==
  walk.stable => \A x \in walk.seen : Everything(x) /\ ~IsExternal(x) =>
    \A y \in StandIns(x) :
      \/ Kept(EdgesAt(y)) \subseteq Shown(x)
      \/ \E t \in walk.todo : t.step = "enter" /\ t.parent = x /\ t.at = y

\* An external node shows those of one node it stands for.
ReferredShown ==
  walk.stable => \A x \in walk.seen : IsExternal(x) =>
    \/ \E t \in walk.todo : Pending(t, x)
    \/ \E y \in resolve_external_sbom(x[2]) :
         /\ Shown(x) \subseteq Kept(EdgesOrNone(y))
         /\ Everything(x) => Kept(EdgesOrNone(y)) \subseteq Shown(x)

Walking ==
  /\ WalkShape
  /\ \A t \in walk.todo : TaskFits(t, walk.seen, walk.known)
  /\ OnePending /\ KnownFits /\ ShownFits /\ Started
  /\ AllVisited /\ OwnShown /\ ClimbShown /\ ReferredShown

WalkInv == walk = NoWalk \/ Walking

-----------------------------------------------------------------------------
\* The relationships of a document that loads are between its nodes.
LEMMA LoadsEnds ==
  ASSUME NEW s \in Sboms, SbomRow[s].loads
  PROVE  Ends(SbomRow[s].rels) \subseteq {DOC} \cup SbomRow[s].nodes \cup DOMAIN SbomRow[s].externals
<1> DEFINE IsRows(r) == {"nodes", "rels", "externals", "loads"} \subseteq DOMAIN r
<1>1. ASSUME NEW r, IsRows(r), Validated(r).loads
      PROVE  Ends(Validated(r).rels) \subseteq {DOC} \cup Validated(r).nodes \cup DOMAIN Validated(r).externals
  <2> DEFINE valid == Ends(r.rels) \subseteq {DOC} \cup r.nodes \cup DOMAIN r.externals
  <2>1. Validated(r) = [r EXCEPT !.loads = valid]
    BY DEF Validated
  <2> HIDE DEF valid
  <2>2. /\ Validated(r).loads = valid /\ Validated(r).rels = r.rels
        /\ Validated(r).nodes = r.nodes /\ Validated(r).externals = r.externals
    BY <1>1, <2>1
  <2> QED
    BY <1>1, <2>2 DEF valid
<1>2. ASSUME NEW doc, NEW r, IsRows(r) PROVE IsRows(PostProcess(doc, r))
  <2>1. ASSUME NEW rels, NEW externals
        PROVE  IsRows([r EXCEPT !.rels = rels, !.externals = externals])
    BY <1>2
  <2>2. PostProcess(doc, r) = r \/ \E rels, externals :
          PostProcess(doc, r) = [r EXCEPT !.rels = rels, !.externals = externals]
    BY <1>2 DEF PostProcess
  <2> HIDE DEF IsRows
  <2>3. CASE \E rels, externals : PostProcess(doc, r) = [r EXCEPT !.rels = rels, !.externals = externals]
    <3>1. PICK rels, externals : PostProcess(doc, r) = [r EXCEPT !.rels = rels, !.externals = externals]
      BY <2>3
    <3>2. IsRows([r EXCEPT !.rels = rels, !.externals = externals])
      BY <2>1
    <3> QED
      BY <3>1, <3>2
  <2> QED
    BY <1>2, <2>2, <2>3
<1>3. \E doc, r : IsRows(r) /\ SbomRow[s] = Validated(PostProcess(doc, r))
  <2>1. SbomRow[s] = SbomRows(SbomDoc(s))
    BY DEF SbomRow
  <2> DEFINE doc == SbomDoc(s)
  <2>2. CASE doc.format = "spdx"
    <3>1. \E r : IsRows(r) /\ SpdxRows(doc) = Validated(PostProcess(doc, r))
      BY DEF SpdxRows
    <3> QED
      BY <2>1, <2>2, <3>1 DEF SbomRows
  <2>3. CASE doc.format # "spdx"
    <3>1. \E r : IsRows(r) /\ CdxRows(doc) = Validated(PostProcess(doc, r))
      BY DEF CdxRows
    <3> QED
      BY <2>1, <2>3, <3>1 DEF SbomRows
  <2> QED
    BY <2>2, <2>3
<1> HIDE DEF IsRows
<1> QED
  BY <1>1, <1>2, <1>3

\* An edge is a relationship and a node of the same SBOM.
LEMMA EdgePairs ==
  ASSUME NEW dir, NEW x, NEW e \in edges_directed(dir, x)
  PROVE  e = <<e[1], e[2]>> /\ e[2][1] = x[1]
  BY DEF edges_directed

\* Nothing is related to a node that the SBOM does not have.
LEMMA NoEdges ==
  ASSUME NEW dir, NEW x, x[1] \in Sboms, SbomRow[x[1]].loads, x[2] \notin Graph[x[1]].nodes
  PROVE  edges_directed(dir, x) = {}
<1> DEFINE rows == SbomRow[x[1]]
           nodes == {DOC} \cup rows.nodes \cup DOMAIN rows.externals
           describing == {r[1] : r \in {q \in rows.rels : q[2] = "Describes"}}
           rest == describing \X {"Undefined"} \X (nodes \ Ends(rows.rels))
<1>1. Graph[x[1]] = [nodes |-> nodes, edges |-> rows.rels \cup rest]
  BY DEF Graph, perform_load_graph
<1>2. Ends(rows.rels) \subseteq nodes
  BY LoadsEnds
<1>3. \A r \in rows.rels : r[1] \in nodes /\ r[3] \in nodes
  BY <1>2 DEF Ends
<1>4. describing \subseteq nodes
  BY <1>3
<1> HIDE DEF describing, nodes, rows
<1>5. \A r \in rest : r[1] \in nodes /\ r[3] \in nodes
  BY <1>4
<1> HIDE DEF rest
<1>6. Graph[x[1]].nodes = nodes /\ Graph[x[1]].edges = rows.rels \cup rest
  BY <1>1
<1>7. \A f \in Graph[x[1]].edges : f[1] \in nodes /\ f[3] \in nodes
  BY <1>3, <1>5, <1>6
<1>8. {f \in Graph[x[1]].edges : x[2] = IF dir = Incoming THEN f[3] ELSE f[1]} = {}
  BY <1>6, <1>7
<1> QED
  BY <1>8 DEF edges_directed

-----------------------------------------------------------------------------
\* One more SBOM, and still one is the newest.
LEMMA NewestOfMore ==
  ASSUME NewestThere, sboms \subseteq Sboms, NEW s \in Sboms, NEW T \in SUBSET (sboms \cup {s}), T # {}
  PROVE  Newest(T) # {}
<1>1. \A t \in Sboms : Published[t] \in Int
  BY TraversalAssumption DEF Published
<1>2. CASE T \ {s} = {}
  <2>1. T = {s}
    BY <1>2
  <2> QED
    BY <1>1, <2>1 DEF Newest
<1>3. CASE T \ {s} # {}
  <2>1. PICK m : m \in Newest(T \ {s})
    BY <1>3 DEF NewestThere
  <2>2. m \in T /\ m \in Sboms /\ \A t \in T \ {s} : Published[t] <= Published[m]
    BY <2>1 DEF Newest
  <2>3. CASE Published[s] <= Published[m]
    BY <2>2, <2>3 DEF Newest
  <2>4. CASE ~(Published[s] <= Published[m])
    <3>1. Published[m] <= Published[s] /\ Published[s] <= Published[s]
      BY <1>1, <2>2, <2>4
    <3>2. \A t \in T \ {s} : Published[t] <= Published[s]
      BY <1>1, <2>2, <3>1
    <3> QED
      <4>1. CASE s \in T
        BY <3>1, <3>2, <4>1 DEF Newest
      <4>2. CASE s \notin T
        BY <2>1, <4>2, T \ {s} = T
      <4> QED
        BY <4>1, <4>2
  <2> QED
    BY <2>3, <2>4
<1> QED
  BY <1>2, <1>3

LEMMA InitLookup == Init => LookupInv
  BY InitAncestors DEF Init, LookupInv, Loadable, NewestThere

LEMMA NextLookup == LookupInv /\ [Next]_vars => LookupInv'
<1> SUFFICES ASSUME LookupInv, [Next]_vars PROVE LookupInv'
  OBVIOUS
<1>1. AncestorsInv' /\ Typed /\ sboms \subseteq Sboms
  BY NextAncestors, CorpusSboms DEF LookupInv, AncestorsInv
<1>2. ASSUME sboms' \cup DOMAIN ingest' \subseteq sboms \cup DOMAIN ingest
      PROVE  Loadable'
  BY <1>2 DEF LookupInv, Loadable, SbomRow
<1>3. ASSUME sboms' \subseteq sboms PROVE NewestThere'
  BY <1>3 DEF LookupInv, NewestThere, Newest, Published
<1>4. ASSUME NEW s \in corpus.sboms, StartSbom(s) PROVE LookupInv'
  <2>1. sboms' = sboms /\ DOMAIN ingest' = {s} \cup DOMAIN ingest /\ SbomRow[s].loads
    BY <1>4 DEF StartSbom
  <2> QED
    BY <1>1, <1>3, <2>1 DEF LookupInv, Loadable, SbomRow
<1>5. ASSUME NEW s \in corpus.sboms, CommitSbom(s) PROVE LookupInv'
  <2>1. sboms' = sboms \cup {s} /\ DOMAIN ingest' = DOMAIN ingest \ {s} /\ s \in DOMAIN ingest
    BY <1>1, <1>5, CommitFacts
  <2>2. s \in Sboms
    BY <1>1, <2>1, CorpusSboms
  <2>3. NewestThere'
    BY <1>1, <2>1, <2>2, NewestOfMore DEF LookupInv, NewestThere, Newest, Published
  <2> QED
    BY <1>1, <1>2, <2>1, <2>3 DEF LookupInv
<1>6. ASSUME sboms' \subseteq sboms, DOMAIN ingest' \subseteq DOMAIN ingest PROVE LookupInv'
  BY <1>1, <1>2, <1>3, <1>6 DEF LookupInv
<1>7. ASSUME NEW s \in corpus.sboms, populate_ancestors(s) \/ AbortSbom(s) \/ DeleteSbom(s) PROVE LookupInv'
  BY <1>6, <1>7 DEF populate_ancestors, AbortSbom, DeleteSbom, Without
<1>8. ASSUME NEW a \in corpus.advisories, IngestAdvisory(a) \/ DeleteAdvisory(a) PROVE LookupInv'
  BY <1>6, <1>8 DEF IngestAdvisory, DeleteAdvisory
<1>9. CASE UNCHANGED vars
  BY <1>6, <1>9 DEF vars
<1> QED
  BY <1>4, <1>5, <1>7, <1>8, <1>9 DEF Next

-----------------------------------------------------------------------------
\* A reference is resolved to something, if only to nothing that is there.
LEMMA ResolvedFacts ==
  ASSUME LookupInv, NEW e
  PROVE  /\ resolve_external_sbom(e) # {}
         /\ \A y \in resolve_external_sbom(e) \ {NoNode} : y[1] \in sboms
<1> DEFINE documents(s) ==
             LET ext == SbomRow[s].externals[e]
             IN  CASE ext.type = "spdx" -> sboms \cap {ext.doc}
                   [] ext.type = "cyclonedx" -> {t \in sboms : SbomDoc(t).id = ext.doc}
                   [] OTHER -> {}
           resolved(s) ==
             LET ext == SbomRow[s].externals[e]
             IN  IF ext.type = "redhat" THEN resolve_rh_external_sbom_descendants(s, ext.ref)
                 ELSE IF documents(s) = {} THEN {NoNode}
                 ELSE Newest(documents(s)) \X {ext.ref}
           known == {s \in sboms : e \in DOMAIN SbomRow[s].externals}
<1>1. resolve_external_sbom(e) = IF known = {} THEN {NoNode} ELSE UNION {resolved(s) : s \in Newest(known)}
  BY DEF resolve_external_sbom
<1>2. known # {} => Newest(known) # {}
  BY DEF LookupInv, NewestThere
<1>3. ASSUME NEW s
      PROVE  resolved(s) # {} /\ \A y \in resolved(s) \ {NoNode} : y[1] \in sboms
  <2> DEFINE ref == SbomRow[s].externals[e].ref
  <2>1. CASE SbomRow[s].externals[e].type = "redhat"
    <3>1. resolved(s) = resolve_rh_external_sbom_descendants(s, ref)
      BY <2>1
    <3>2. resolve_rh_external_sbom_descendants(s, ref) # {}
      BY DEF resolve_rh_external_sbom_descendants
    <3> HIDE DEF resolved, ref
    <3> QED
      BY <3>1, <3>2, DescendantFacts
  <2>2. CASE SbomRow[s].externals[e].type # "redhat"
    <3>1. documents(s) \subseteq sboms
      OBVIOUS
    <3>2. resolved(s) = IF documents(s) = {} THEN {NoNode} ELSE Newest(documents(s)) \X {ref}
      BY <2>2
    <3> HIDE DEF resolved, ref, documents
    <3>3. documents(s) # {} => Newest(documents(s)) # {}
      BY <3>1 DEF LookupInv, NewestThere
    <3>4. Newest(documents(s)) \subseteq sboms
      BY <3>1 DEF Newest
    <3>5. CASE documents(s) = {}
      BY <3>2, <3>5
    <3>6. CASE documents(s) # {}
      <4>1. PICK t : t \in Newest(documents(s))
        BY <3>3, <3>6
      <4>2. resolved(s) = Newest(documents(s)) \X {ref}
        BY <3>2, <3>6
      <4>3. <<t, ref>> \in resolved(s)
        BY <4>1, <4>2
      <4>4. \A y \in resolved(s) : y[1] \in sboms
        BY <3>4, <4>2
      <4> QED
        BY <4>3, <4>4
    <3> QED
      BY <3>5, <3>6
  <2> QED
    BY <2>1, <2>2
<1> HIDE DEF resolved, known
<1> QED
  BY <1>1, <1>2, <1>3

LEMMA StandInFacts ==
  ASSUME LookupInv, NEW x, NEW y \in StandIns(x)
  PROVE  y[1] \in sboms
<1>1. PICK row \in resolve_rh_external_sbom_ancestors(x[1]) : row[2] = y
  BY DEF StandIns
<1>2. PICK p \in ancestors : \E ne \in StandFor[p] : row = <<ne[1], <<p[2], ne[2]>> >>
  BY AncestorRows
<1> QED
  BY <1>1, <1>2 DEF LookupInv, AncestorsInv, AncestorsHold

\* What a walk looks up depends on the SBOMs and their links alone.
LEMMA LookupsSame ==
  ASSUME sboms' = sboms, ancestors' = ancestors
  PROVE  /\ \A e : resolve_external_sbom(e)' = resolve_external_sbom(e)
         /\ \A s : resolve_rh_external_sbom_ancestors(s)' = resolve_rh_external_sbom_ancestors(s)
         /\ \A x : StandIns(x)' = StandIns(x)
         /\ \A x : IsExternal(x)' = IsExternal(x)
  BY DEF resolve_external_sbom, resolve_rh_external_sbom_ancestors, resolve_rh_external_sbom_descendants,
         OtherSboms, SumsOf, StandFor, StandIns, IsExternal, IsPackage, SbomRow, Newest, Published

\* The SBOMs do not stay the same if their links change.
LEMMA LinksFollow ==
  ASSUME Typed, [Next]_vars, sboms' = sboms
  PROVE  ancestors' = ancestors
<1>1. ASSUME NEW s \in corpus.sboms, StartSbom(s) \/ populate_ancestors(s) \/ AbortSbom(s)
      PROVE  ancestors' = ancestors
  BY <1>1 DEF StartSbom, populate_ancestors, AbortSbom
<1>2. ASSUME NEW s \in corpus.sboms, CommitSbom(s) PROVE FALSE
  BY <1>2, CommitFacts
<1>3. ASSUME NEW s \in corpus.sboms, DeleteSbom(s) PROVE FALSE
  BY <1>3 DEF DeleteSbom
<1>4. ASSUME NEW a \in corpus.advisories, IngestAdvisory(a) \/ DeleteAdvisory(a)
      PROVE  ancestors' = ancestors
  BY <1>4 DEF IngestAdvisory, DeleteAdvisory
<1> QED
  BY <1>1, <1>2, <1>3, <1>4 DEF Next, vars

-----------------------------------------------------------------------------
\* The question of a walk stays the same.
LEMMA SameQuestion ==
  ASSUME walk'.dir = walk.dir, walk'.from = walk.from, walk'.depth = walk.depth, walk'.rels = walk.rels
  PROVE  /\ \A x : Everything(x)' <=> Everything(x)
         /\ \A rel : Wanted(rel)' <=> Wanted(rel)
         /\ \A E : Kept(E)' = Kept(E)
         /\ \A x : EdgesAt(x)' = EdgesAt(x)
         /\ \A y : EdgesOrNone(y)' = EdgesOrNone(y)
<1>1. \A x : Everything(x)' <=> Everything(x)
  BY DEF Everything
<1>2. \A rel : Wanted(rel)' <=> Wanted(rel)
  BY DEF Wanted
<1>3. \A x : EdgesAt(x)' = EdgesAt(x)
  BY DEF EdgesAt, edges_directed, Graph, SbomRow
<1>4. \A E : Kept(E)' = Kept(E)
  BY DEF Kept, Wanted
<1>5. \A y : EdgesOrNone(y)' = EdgesOrNone(y)
  BY <1>3 DEF EdgesOrNone
<1> QED
  BY <1>1, <1>2, <1>3, <1>4, <1>5

LEMMA AllEdgesSame ==
  ASSUME walk'.dir = walk.dir, sboms' = sboms, ancestors' = ancestors
  PROVE  \A x : EdgesOfAll(x)' = EdgesOfAll(x)
<1>1. \A x : EdgesAt(x)' = EdgesAt(x)
  BY DEF EdgesAt, edges_directed, Graph, SbomRow
<1>2. \A x : StandIns(x)' = StandIns(x)
  BY LookupsSame
<1> QED
  BY <1>1, <1>2 DEF EdgesOfAll

LEMMA ContinueFacts ==
  ASSUME WalkShape, NEW t, NEW seen, NEW shown, NEW tasks, NEW known,
         Continue(t, seen, shown, tasks, known)
  PROVE  /\ WalkShape'
         /\ walk'.dir = walk.dir /\ walk'.from = walk.from /\ walk'.depth = walk.depth
         /\ walk'.rels = walk.rels /\ walk'.stable = walk.stable
         /\ walk'.seen = seen /\ walk'.known = known /\ walk'.shown = walk.shown \cup shown
         /\ walk'.todo = {u \in (walk.todo \ {t}) \cup tasks :
                            u.step = "collect" => u.depth # 0 /\ u.at \notin seen}
<1> DEFINE todo == {u \in (walk.todo \ {t}) \cup tasks : u.step = "collect" => u.depth # 0 /\ u.at \notin seen}
           all == walk.shown \cup shown
<1>1. walk' = [walk EXCEPT !.seen = seen, !.known = known, !.shown = all, !.todo = todo]
  BY DEF Continue, visited
<1> HIDE DEF todo, all
<1>2. walk' = [dir |-> walk.dir, from |-> walk.from, depth |-> walk.depth, rels |-> walk.rels,
               todo |-> todo, seen |-> seen, shown |-> all, known |-> known, stable |-> walk.stable]
  BY <1>1 DEF WalkShape
<1>3. walk.stable \in BOOLEAN
  BY DEF WalkShape
<1> QED
  BY <1>2, <1>3 DEF WalkShape, todo, all

\* What every step of a walk keeps that removes a task t and adds tasks that fit.
LEMMA StepKeeps ==
  ASSUME LookupInv, Walking, vars' = vars,
         NEW t \in walk.todo, NEW seen, NEW shown, NEW tasks, NEW known,
         Continue(t, seen, shown, tasks, known),
         walk.seen \subseteq seen,
         t.step = "collect" => t.at \in seen,
         \A f \in shown : f[1] = t.parent,
         \A f \in shown : walk.depth = Unlimited /\ walk.rels = {} =>
           \E u \in tasks : u.step = "collect" /\ u.at = f[3] /\ u.depth = Unlimited,
         DOMAIN walk.known \subseteq DOMAIN known,
         walk.stable => \A s \in DOMAIN known : known[s] = resolve_rh_external_sbom_ancestors(s),
         \A u \in tasks : (u.step = "collect" => u.depth # 0 /\ u.at \notin seen) => TaskFits(u, seen, known)
  PROVE  /\ WalkShape' /\ KnownFits' /\ Started' /\ AllVisited'
         /\ \A u \in walk'.todo : TaskFits(u, walk.seen, walk.known)'
         /\ \A u \in walk'.todo : u \in walk.todo \ {t} \/ u \in tasks
         /\ \A u \in (walk.todo \ {t}) \cup tasks : u.step # "collect" => u \in walk'.todo
         /\ \A x : Shown(x) \subseteq Shown(x)' /\ (x # t.parent => Shown(x)' = Shown(x))
<1>1. /\ WalkShape'
      /\ walk'.dir = walk.dir /\ walk'.from = walk.from /\ walk'.depth = walk.depth
      /\ walk'.rels = walk.rels /\ walk'.stable = walk.stable
      /\ walk'.seen = seen /\ walk'.known = known /\ walk'.shown = walk.shown \cup shown
      /\ walk'.todo = {u \in (walk.todo \ {t}) \cup tasks :
                         u.step = "collect" => u.depth # 0 /\ u.at \notin seen}
  BY ContinueFacts DEF Walking
<1>2. sboms' = sboms /\ ancestors' = ancestors
  BY DEF vars
<1>3. KnownFits'
  BY <1>1, <1>2, LookupsSame DEF KnownFits
<1>4. Started'
  <2>1. CASE walk.from \in walk.seen
    BY <1>1, <2>1 DEF Started
  <2>2. CASE walk.from \notin walk.seen
    <3>1. t = Task("collect", walk.from, walk.from, walk.depth, TRUE)
      BY <2>2 DEF Walking, Started
    <3>2. t.at \in seen /\ t.at = walk.from
      BY <3>1 DEF Task
    <3> QED
      BY <1>1, <3>2 DEF Started
  <2> QED
    BY <2>1, <2>2
<1>5. ASSUME NEW u \in walk'.todo PROVE TaskFits(u, walk.seen, walk.known)'
  <2>1. TaskFits(u, seen, known)
    <3>1. CASE u \in tasks
      BY <1>1, <3>1
    <3>2. CASE u \in walk.todo
      <4>1. TaskFits(u, walk.seen, walk.known)
        BY <3>2 DEF Walking
      <4>2. u.step = "collect" => u.at \notin seen
        BY <1>1
      <4> QED
        BY <4>1, <4>2 DEF TaskFits
    <3> QED
      BY <1>1, <3>1, <3>2
  <2>2. Everything(u.parent)' <=> Everything(u.parent)
    BY <1>1, SameQuestion
  <2>3. /\ IsExternal(u.at)' = IsExternal(u.at) /\ IsExternal(u.parent)' = IsExternal(u.parent)
        /\ resolve_external_sbom(u.parent[2])' = resolve_external_sbom(u.parent[2])
        /\ StandIns(u.parent)' = StandIns(u.parent)
    BY <1>2, LookupsSame
  <2> QED
    BY <1>1, <2>1, <2>2, <2>3 DEF TaskFits
<1>6. AllVisited'
  <2>1. SUFFICES ASSUME walk.depth = Unlimited, walk.rels = {}, NEW x \in Reached'
                 PROVE  x \in walk'.seen \/ \E u \in walk'.todo : u.step = "collect" /\ u.at = x
    BY <1>1 DEF AllVisited
  <2>2. Unlimited # 0
    BY TraversalAssumption
  <2>3. x \in Reached \/ \E f \in shown : f[3] = x
    BY <1>1 DEF Reached
  <2>4. CASE x \in Reached
    <3>1. CASE x \in walk.seen
      BY <1>1, <3>1
    <3>2. CASE x \notin walk.seen
      <4>1. PICK u \in walk.todo : u.step = "collect" /\ u.at = x
        BY <2>1, <2>4, <3>2 DEF Walking, AllVisited
      <4>2. u.depth = Unlimited
        BY <2>1, <4>1 DEF Walking, TaskFits
      <4> QED
        BY <1>1, <2>2, <4>1, <4>2
    <3> QED
      BY <3>1, <3>2
  <2>5. CASE \E f \in shown : f[3] = x
    <3>1. PICK u \in tasks : u.step = "collect" /\ u.at = x /\ u.depth = Unlimited
      BY <2>1, <2>5
    <3> QED
      BY <1>1, <2>2, <3>1
  <2> QED
    BY <2>3, <2>4, <2>5
<1>7. ASSUME NEW x
      PROVE  Shown(x) \subseteq Shown(x)' /\ (x # t.parent => Shown(x)' = Shown(x))
  <2>1. Shown(x) \subseteq Shown(x)'
    BY <1>1 DEF Shown
  <2>2. x # t.parent => {f \in walk'.shown : f[1] = x} = {f \in walk.shown : f[1] = x}
    BY <1>1
  <2> QED
    BY <2>1, <2>2 DEF Shown
<1> QED
  BY <1>1, <1>3, <1>4, <1>5, <1>6, <1>7

\* What collect_graph shows and goes on with.
LEMMA CollectGraphFacts ==
  ASSUME NEW t, NEW x
  PROVE  /\ collect_graph(t, x).shown =
              IF t.kept THEN {<<t.parent, e[1], e[2]>> : e \in Kept(EdgesAt(x))} ELSE {}
         /\ collect_graph(t, x).tasks =
              {Task("collect", e[2], e[2], Less(t.depth), t.kept /\ Wanted(e[1])) : e \in EdgesAt(x)}
  BY DEF collect_graph, EdgesAt, Kept

LEMMA FirstIsSeen ==
  ASSUME Walking, NEW t \in walk.todo, NEW seen, walk.seen \subseteq seen, t.step = "collect" => t.at \in seen
  PROVE  walk.from \in seen
<1>1. CASE walk.from \in walk.seen
  BY <1>1
<1>2. CASE walk.from \notin walk.seen
  <2>1. t = Task("collect", walk.from, walk.from, walk.depth, TRUE)
    BY <1>2 DEF Walking, Started
  <2> QED
    BY <2>1 DEF Task
<1> QED
  BY <1>1, <1>2

LEMMA CollectedFacts ==
  ASSUME Walking, NEW t \in walk.todo, NEW x, NEW seen, NEW known,
         x[1] \in DOMAIN known, walk.from \in seen
  PROVE  /\ \A u \in collect_graph(t, x).tasks :
              u.step = "collect" /\ (u.at \notin seen => TaskFits(u, seen, known))
         /\ \A f \in collect_graph(t, x).shown :
              /\ f[1] = t.parent /\ Wanted(f[2]) /\ <<f[2], f[3]>> \in EdgesAt(x) /\ t.kept
              /\ walk.depth = Unlimited /\ walk.rels = {} =>
                   \E u \in collect_graph(t, x).tasks : u.step = "collect" /\ u.at = f[3] /\ u.depth = Unlimited
         /\ t.kept => \A e \in Kept(EdgesAt(x)) : <<t.parent, e[1], e[2]>> \in collect_graph(t, x).shown
<1> DEFINE task(e) == Task("collect", e[2], e[2], Less(t.depth), t.kept /\ Wanted(e[1]))
           entry(e) == <<t.parent, e[1], e[2]>>
<1>1. TaskFits(t, walk.seen, walk.known)
  BY DEF Walking
<1>2. walk.depth = Unlimited => Less(t.depth) = Unlimited
  BY <1>1 DEF TaskFits, Less
<1>3. ASSUME NEW e \in EdgesAt(x)
      PROVE  /\ e = <<e[1], e[2]>> /\ e[2][1] = x[1]
             /\ task(e).step = "collect" /\ task(e).at = e[2] /\ task(e).parent = e[2]
             /\ task(e).depth = Less(t.depth) /\ task(e).kept = (t.kept /\ Wanted(e[1]))
             /\ task(e) = Task(task(e).step, task(e).at, task(e).parent, task(e).depth, task(e).kept)
  BY EdgePairs DEF EdgesAt, Task
<1>4. ASSUME NEW e \in EdgesAt(x), e[2] \notin seen
      PROVE  TaskFits(task(e), seen, known)
  <2>1. Everything(e[2]) => (t.kept /\ Wanted(e[1])) = TRUE
    <3>1. SUFFICES ASSUME Everything(e[2]) PROVE t.kept /\ Wanted(e[1])
      OBVIOUS
    <3>2. walk.depth = Unlimited /\ walk.rels = {}
      BY <1>4, <3>1 DEF Everything
    <3>3. Everything(t.parent)
      BY <3>2 DEF Everything
    <3> QED
      BY <1>1, <3>2, <3>3 DEF TaskFits, Wanted
  <2>2. e[2][1] \in DOMAIN known
    BY <1>3
  <2>3. (t.kept /\ Wanted(e[1])) \in BOOLEAN
    OBVIOUS
  <2>4. \A u : u = task(e) =>
          /\ u = Task(u.step, u.at, u.parent, u.depth, u.kept)
          /\ u.step = "collect" /\ u.at = e[2] /\ u.parent = e[2] /\ u.depth = Less(t.depth)
          /\ u.kept = (t.kept /\ Wanted(e[1]))
    BY <1>3
  <2> HIDE DEF task
  <2>5. PICK u : u = task(e)
    OBVIOUS
  <2>6. /\ u = Task(u.step, u.at, u.parent, u.depth, u.kept)
        /\ u.step = "collect" /\ u.at = e[2] /\ u.parent = e[2] /\ u.depth = Less(t.depth)
        /\ u.kept \in BOOLEAN /\ (Everything(e[2]) => u.kept = TRUE)
    BY <2>1, <2>3, <2>4, <2>5
  <2>7. TaskFits(u, seen, known)
    BY <1>2, <1>4, <2>2, <2>6 DEF TaskFits
  <2> QED
    BY <2>5, <2>7
<1>5. collect_graph(t, x).tasks = {task(e) : e \in EdgesAt(x)}
  BY CollectGraphFacts
<1>6. collect_graph(t, x).shown = IF t.kept THEN {entry(e) : e \in Kept(EdgesAt(x))} ELSE {}
  BY CollectGraphFacts
<1>7. \A e \in Kept(EdgesAt(x)) : e \in EdgesAt(x) /\ Wanted(e[1])
  BY DEF Kept
<1>8. \A e : entry(e)[1] = t.parent /\ entry(e)[2] = e[1] /\ entry(e)[3] = e[2]
  OBVIOUS
<1> HIDE DEF task, entry
<1>9. \A u \in collect_graph(t, x).tasks :
        u.step = "collect" /\ (u.at \notin seen => TaskFits(u, seen, known))
  BY <1>3, <1>4, <1>5
<1>10. ASSUME NEW f \in collect_graph(t, x).shown
       PROVE  /\ f[1] = t.parent /\ Wanted(f[2]) /\ <<f[2], f[3]>> \in EdgesAt(x) /\ t.kept
              /\ walk.depth = Unlimited /\ walk.rels = {} =>
                   \E u \in collect_graph(t, x).tasks : u.step = "collect" /\ u.at = f[3] /\ u.depth = Unlimited
  <2>1. t.kept
    BY <1>6
  <2>2. PICK e \in Kept(EdgesAt(x)) : f = entry(e)
    BY <1>6, <2>1
  <2>3. f[1] = t.parent /\ f[2] = e[1] /\ f[3] = e[2] /\ e \in EdgesAt(x) /\ Wanted(e[1])
    BY <1>7, <1>8, <2>2
  <2>4. e = <<f[2], f[3]>>
    BY <1>3, <2>3
  <2>5. task(e) \in collect_graph(t, x).tasks
    BY <1>5, <2>3
  <2> QED
    BY <1>2, <1>3, <2>1, <2>3, <2>4, <2>5
<1>11. t.kept => \A e \in Kept(EdgesAt(x)) : entry(e) \in collect_graph(t, x).shown
  BY <1>6
<1> QED
  BY <1>9, <1>10, <1>11 DEF entry

\* What a node shows, and what is added to it.
LEMMA ShownFacts ==
  ASSUME NEW x
  PROVE  /\ \A f \in walk.shown : f[1] = x => <<f[2], f[3]>> \in Shown(x)
         /\ \A e \in Shown(x) : \E f \in walk.shown : f[1] = x /\ e = <<f[2], f[3]>>
  BY DEF Shown

-----------------------------------------------------------------------------
\* An external node is visited: it is about to be resolved.
LEMMA ReferenceWalks ==
  ASSUME LookupInv, Walking, vars' = vars, NEW t \in walk.todo, t.step = "collect", IsExternal(t.at),
         Continue(t, walk.seen \cup {t.at}, {}, {[t EXCEPT !.step = "resolve"]}, walk.known)
  PROVE  Walking'
<1> DEFINE x == t.at
           next == [t EXCEPT !.step = "resolve"]
           seen == walk.seen \cup {x}
<1>1. TaskFits(t, walk.seen, walk.known) /\ x \notin walk.seen /\ t.parent = x
  BY DEF Walking, TaskFits
<1>2. next = Task("resolve", x, x, t.depth, t.kept)
  <2>1. t = Task("collect", x, x, t.depth, t.kept)
    BY <1>1 DEF TaskFits
  <2> QED
    BY <2>1 DEF Task
<1>3. next.step = "resolve" /\ next.at = x /\ next.parent = x /\ next.depth = t.depth /\ next.kept = t.kept
  BY <1>2 DEF Task
<1>4. TaskFits(next, seen, walk.known)
  <2>1. next = Task(next.step, next.at, next.parent, next.depth, next.kept)
    BY <1>2, <1>3
  <2> HIDE DEF next
  <2> QED
    BY <1>1, <1>3, <2>1 DEF TaskFits
<1> HIDE DEF next
<1>5. /\ walk'.dir = walk.dir /\ walk'.from = walk.from /\ walk'.depth = walk.depth
      /\ walk'.rels = walk.rels /\ walk'.stable = walk.stable
      /\ walk'.seen = seen /\ walk'.shown = walk.shown
  <2> DEFINE shown == {}
             tasks == {next}
  <2>1. Continue(t, seen, shown, tasks, walk.known) /\ WalkShape
    BY DEF next, Walking
  <2>2. walk.shown \cup shown = walk.shown
    OBVIOUS
  <2> HIDE DEF seen, shown, tasks
  <2> QED
    BY <2>1, <2>2, ContinueFacts
<1>6. /\ WalkShape' /\ KnownFits' /\ Started' /\ AllVisited'
      /\ \A u \in walk'.todo : TaskFits(u, walk.seen, walk.known)'
      /\ \A u \in walk'.todo : u \in walk.todo \ {t} \/ u = next
      /\ \A u \in walk.todo \ {t} : u.step # "collect" => u \in walk'.todo
      /\ next \in walk'.todo
      /\ \A y : Shown(y)' = Shown(y)
  <2>1. Continue(t, seen, {}, {next}, walk.known)
    BY DEF next
  <2>2. walk.stable => \A s \in DOMAIN walk.known : walk.known[s] = resolve_rh_external_sbom_ancestors(s)
    BY DEF Walking, KnownFits
  <2>3. \A y : Shown(y)' = Shown(y)
    BY <1>5 DEF Shown
  <2> HIDE DEF seen
  <2>4. walk.seen \subseteq seen /\ t.at \in seen
    BY DEF seen
  <2> QED
    BY <1>3, <1>4, <2>1, <2>2, <2>3, <2>4, StepKeeps
<1>7. sboms' = sboms /\ ancestors' = ancestors
  BY DEF vars
<1>8. \A u \in walk.todo : u.step # "collect" => u.parent \in walk.seen /\ u # t /\ u \in walk'.todo
  BY <1>6 DEF Walking, TaskFits
<1>9. /\ \A y : IsExternal(y)' = IsExternal(y) /\ (Everything(y)' <=> Everything(y)) /\ EdgesAt(y)' = EdgesAt(y)
      /\ \A y : StandIns(y)' = StandIns(y) /\ EdgesOfAll(y)' = EdgesOfAll(y)
      /\ \A y : EdgesOrNone(y)' = EdgesOrNone(y)
      /\ \A e : resolve_external_sbom(e)' = resolve_external_sbom(e)
      /\ \A E : Kept(E)' = Kept(E)
      /\ \A rel : Wanted(rel)' <=> Wanted(rel)
  BY <1>5, <1>7, LookupsSame, SameQuestion, AllEdgesSame
<1>10. OnePending'
  <2>1. \A f \in walk.shown : f[1] \in walk.seen
    BY DEF Walking, ShownFits
  <2>2. SUFFICES ASSUME NEW u \in walk'.todo, u.step # "collect", IsExternal(u.parent)
                 PROVE  /\ \A v \in walk'.todo : v.step # "collect" /\ v.parent = u.parent => v = u
                        /\ \A f \in walk'.shown : f[1] # u.parent
    BY <1>9 DEF OnePending, Pending
  <2>3. CASE u = next
    BY <1>1, <1>3, <1>5, <1>6, <1>8, <2>1, <2>3
  <2>4. CASE u # next
    <3>1. u \in walk.todo /\ u.parent # x
      BY <1>1, <1>6, <1>8, <2>2, <2>4
    <3> QED
      BY <1>3, <1>5, <1>6, <2>2, <3>1 DEF Walking, OnePending, Pending
  <2> QED
    BY <2>3, <2>4
<1>11. ShownFits'
  BY <1>5, <1>9 DEF Walking, ShownFits
<1>12. OwnShown'
  BY <1>5, <1>6, <1>9 DEF Walking, OwnShown
<1>13. ClimbShown'
  BY <1>5, <1>6, <1>8, <1>9 DEF Walking, ClimbShown
<1>14. ReferredShown'
  <2>1. SUFFICES ASSUME walk.stable, NEW y \in walk'.seen, IsExternal(y)
                 PROVE  \/ \E u \in walk'.todo : u.step # "collect" /\ u.parent = y
                        \/ \E z \in resolve_external_sbom(y[2]) :
                             /\ Shown(y) \subseteq Kept(EdgesOrNone(z))
                             /\ Everything(y) => Kept(EdgesOrNone(z)) \subseteq Shown(y)
    BY <1>5, <1>6, <1>9 DEF ReferredShown, Pending
  <2>2. CASE y = x
    BY <1>3, <1>6, <2>2
  <2>3. CASE y # x
    BY <1>5, <1>8, <2>1, <2>3 DEF Walking, ReferredShown, Pending
  <2> QED
    BY <2>2, <2>3
<1> QED
  BY <1>6, <1>10, <1>11, <1>12, <1>13, <1>14 DEF Walking

\* A package, or anything else of its SBOM, is visited.
LEMMA NodeWalks ==
  ASSUME LookupInv, Walking, vars' = vars, NEW t \in walk.todo, t.step = "collect", ~IsExternal(t.at),
         NEW climb, climb = {Task("enter", row[2], t.at, Less(t.depth), t.kept) :
                               row \in {r \in walk.known[t.at[1]] : r[1] = t.at[2]}},
         Continue(t, walk.seen \cup {t.at}, collect_graph(t, t.at).shown,
                  collect_graph(t, t.at).tasks \cup climb, walk.known)
  PROVE  Walking'
<1> DEFINE x == t.at
           seen == walk.seen \cup {x}
           shown == collect_graph(t, x).shown
           tasks == collect_graph(t, x).tasks
<1>1. TaskFits(t, walk.seen, walk.known) /\ x \notin walk.seen /\ t.parent = x /\ x[1] \in DOMAIN walk.known
  BY DEF Walking, TaskFits
<1>2. /\ walk'.dir = walk.dir /\ walk'.from = walk.from /\ walk'.depth = walk.depth
      /\ walk'.rels = walk.rels /\ walk'.stable = walk.stable
      /\ walk'.seen = seen /\ walk'.shown = walk.shown \cup shown
  <2>1. Continue(t, seen, shown, tasks \cup climb, walk.known) /\ WalkShape
    BY DEF Walking
  <2> HIDE DEF seen, shown, tasks
  <2> QED
    BY <2>1, ContinueFacts
<1>3. walk.from \in seen /\ x \in seen /\ walk.seen \subseteq seen
  BY FirstIsSeen
<1>4. /\ \A u \in tasks : u.step = "collect" /\ (u.at \notin seen => TaskFits(u, seen, walk.known))
      /\ \A f \in shown :
           /\ f[1] = x /\ Wanted(f[2]) /\ <<f[2], f[3]>> \in EdgesAt(x) /\ t.kept
           /\ walk.depth = Unlimited /\ walk.rels = {} =>
                \E u \in tasks : u.step = "collect" /\ u.at = f[3] /\ u.depth = Unlimited
      /\ t.kept => \A e \in Kept(EdgesAt(x)) : <<x, e[1], e[2]>> \in shown
  <2> HIDE DEF seen
  <2> QED
    BY <1>1, <1>3, CollectedFacts
<1> HIDE DEF shown, tasks
<1>5. walk.stable => walk.known[x[1]] = resolve_rh_external_sbom_ancestors(x[1])
  BY <1>1 DEF Walking, KnownFits
<1>6. ASSUME NEW u \in climb
      PROVE  u.step = "enter" /\ u.parent = x /\ TaskFits(u, seen, walk.known)
  <2>1. PICK row \in walk.known[x[1]] : row[1] = x[2] /\ u = Task("enter", row[2], x, Less(t.depth), t.kept)
    OBVIOUS
  <2>2. /\ u = Task(u.step, u.at, u.parent, u.depth, u.kept)
        /\ u.step = "enter" /\ u.at = row[2] /\ u.parent = x /\ u.depth = Less(t.depth) /\ u.kept = t.kept
    BY <2>1 DEF Task
  <2>3. walk.stable => row[2] \in StandIns(x)
    BY <1>5, <2>1 DEF StandIns
  <2>4. walk.depth = Unlimited => Less(t.depth) = Unlimited
    BY <1>1 DEF TaskFits, Less
  <2> QED
    BY <1>1, <1>3, <2>2, <2>3, <2>4 DEF TaskFits
<1>7. /\ WalkShape' /\ KnownFits' /\ Started' /\ AllVisited'
      /\ \A u \in walk'.todo : TaskFits(u, walk.seen, walk.known)'
      /\ \A u \in walk'.todo : u \in walk.todo \ {t} \/ u \in tasks \cup climb
      /\ \A u \in (walk.todo \ {t}) \cup climb : u.step # "collect" => u \in walk'.todo
      /\ \A y : Shown(y) \subseteq Shown(y)' /\ (y # x => Shown(y)' = Shown(y))
  <2>1. Continue(t, seen, shown, tasks \cup climb, walk.known)
    BY DEF tasks, shown
  <2>2. walk.stable => \A s \in DOMAIN walk.known : walk.known[s] = resolve_rh_external_sbom_ancestors(s)
    BY DEF Walking, KnownFits
  <2>3. \A u \in tasks \cup climb :
          (u.step = "collect" => u.depth # 0 /\ u.at \notin seen) => TaskFits(u, seen, walk.known)
    BY <1>4, <1>6
  <2>4. \A f \in shown : walk.depth = Unlimited /\ walk.rels = {} =>
          \E u \in tasks \cup climb : u.step = "collect" /\ u.at = f[3] /\ u.depth = Unlimited
    BY <1>4
  <2>5. t.parent = x /\ \A f \in shown : f[1] = t.parent
    BY <1>1, <1>4
  <2> HIDE DEF seen
  <2> QED
    BY <1>3, <2>1, <2>2, <2>3, <2>4, <2>5, StepKeeps
<1>8. \A u \in walk.todo : u.step # "collect" => u.parent \in walk.seen /\ u.parent # x /\ u # t /\ u \in walk'.todo
  BY <1>1, <1>7 DEF Walking, TaskFits
<1>9. sboms' = sboms /\ ancestors' = ancestors
  BY DEF vars
<1>10. /\ \A y : IsExternal(y)' = IsExternal(y) /\ (Everything(y)' <=> Everything(y)) /\ EdgesAt(y)' = EdgesAt(y)
       /\ \A y : StandIns(y)' = StandIns(y) /\ EdgesOfAll(y)' = EdgesOfAll(y)
       /\ \A y : EdgesOrNone(y)' = EdgesOrNone(y)
       /\ \A e : resolve_external_sbom(e)' = resolve_external_sbom(e)
       /\ \A E : Kept(E)' = Kept(E)
       /\ \A rel : Wanted(rel)' <=> Wanted(rel)
  BY <1>2, <1>9, LookupsSame, SameQuestion, AllEdgesSame
<1>11. OnePending'
  <2>1. SUFFICES ASSUME NEW u \in walk'.todo, u.step # "collect", IsExternal(u.parent)
                 PROVE  /\ \A v \in walk'.todo : v.step # "collect" /\ v.parent = u.parent => v = u
                        /\ \A f \in walk'.shown : f[1] # u.parent
    BY <1>10 DEF OnePending, Pending
  <2>2. u.parent # x
    BY <2>1
  <2>3. u \in walk.todo
    BY <1>4, <1>6, <1>7, <2>1, <2>2
  <2>4. /\ \A v \in walk.todo : v.step # "collect" /\ v.parent = u.parent => v = u
        /\ \A f \in walk.shown : f[1] # u.parent
    BY <2>1, <2>3 DEF Walking, OnePending, Pending
  <2> QED
    BY <1>2, <1>4, <1>6, <1>7, <2>2, <2>4
<1>12. ShownFits'
  <2>1. \A f \in walk.shown : /\ f[1] \in walk.seen /\ Wanted(f[2])
                              /\ walk.stable /\ ~IsExternal(f[1]) => <<f[2], f[3]>> \in EdgesOfAll(f[1])
    BY DEF Walking, ShownFits
  <2>2. \A f \in shown : f[1] \in seen /\ Wanted(f[2]) /\ <<f[2], f[3]>> \in EdgesOfAll(f[1])
    BY <1>4 DEF EdgesOfAll
  <2>3. \A f \in walk'.shown : /\ f[1] \in walk'.seen /\ Wanted(f[2])
                               /\ walk.stable /\ ~IsExternal(f[1]) => <<f[2], f[3]>> \in EdgesOfAll(f[1])
    BY <1>2, <2>1, <2>2
  <2> QED
    BY <1>2, <1>10, <2>3 DEF ShownFits
<1>13. Everything(x) => Kept(EdgesAt(x)) \subseteq Shown(x)'
  <2>1. SUFFICES ASSUME Everything(x), NEW e \in Kept(EdgesAt(x)) PROVE e \in Shown(x)'
    OBVIOUS
  <2>2. t.kept
    BY <1>1, <2>1 DEF TaskFits
  <2>3. <<x, e[1], e[2]>> \in walk'.shown
    BY <1>2, <1>4, <2>2
  <2>4. e = <<e[1], e[2]>>
    BY EdgePairs DEF Kept, EdgesAt
  <2>5. <<e[1], e[2]>> \in Shown(x)'
    BY <2>3 DEF Shown
  <2> QED
    BY <2>4, <2>5
<1>14. OwnShown'
  <2>1. SUFFICES ASSUME NEW y \in walk'.seen, Everything(y), ~IsExternal(y)
                 PROVE  Kept(EdgesAt(y)) \subseteq Shown(y)'
    BY <1>10 DEF OwnShown
  <2>2. CASE y = x
    BY <1>13, <2>1, <2>2
  <2>3. CASE y # x
    BY <1>2, <1>7, <2>1, <2>3 DEF Walking, OwnShown
  <2> QED
    BY <2>2, <2>3
<1>15. ClimbShown'
  <2>1. SUFFICES ASSUME walk.stable, NEW y \in walk'.seen, Everything(y), ~IsExternal(y), NEW z \in StandIns(y)
                 PROVE  \/ Kept(EdgesAt(z)) \subseteq Shown(y)'
                        \/ \E u \in walk'.todo : u.step = "enter" /\ u.parent = y /\ u.at = z
    BY <1>2, <1>10 DEF ClimbShown
  <2>2. CASE y = x
    <3>1. PICK row \in walk.known[x[1]] : row[1] = x[2] /\ row[2] = z
      BY <1>5, <2>1, <2>2 DEF StandIns
    <3>2. Task("enter", row[2], x, Less(t.depth), t.kept) \in climb
      BY <3>1
    <3>3. PICK u \in climb : u = Task("enter", row[2], x, Less(t.depth), t.kept)
      BY <3>2
    <3>4. u.step = "enter" /\ u.parent = x /\ u.at = z
      BY <3>1, <3>3 DEF Task
    <3>5. u \in walk'.todo
      BY <1>7, <3>4
    <3> QED
      BY <2>2, <3>4, <3>5
  <2>3. CASE y # x
    <3>1. \/ Kept(EdgesAt(z)) \subseteq Shown(y)
          \/ \E u \in walk.todo : u.step = "enter" /\ u.parent = y /\ u.at = z
      BY <1>2, <2>1, <2>3 DEF Walking, ClimbShown
    <3> QED
      BY <1>7, <1>8, <3>1
  <2> QED
    BY <2>2, <2>3
<1>16. ReferredShown'
  <2>1. SUFFICES ASSUME walk.stable, NEW y \in walk'.seen, IsExternal(y)
                 PROVE  \/ \E u \in walk'.todo : u.step # "collect" /\ u.parent = y
                        \/ \E z \in resolve_external_sbom(y[2]) :
                             /\ Shown(y)' \subseteq Kept(EdgesOrNone(z))
                             /\ Everything(y) => Kept(EdgesOrNone(z)) \subseteq Shown(y)'
    BY <1>2, <1>10 DEF ReferredShown, Pending
  <2>2. y # x /\ y \in walk.seen
    BY <1>2, <2>1
  <2>3. Shown(y)' = Shown(y)
    BY <1>7, <2>2
  <2> QED
    BY <1>8, <2>1, <2>2, <2>3 DEF Walking, ReferredShown, Pending
<1> QED
  BY <1>7, <1>11, <1>12, <1>14, <1>15, <1>16 DEF Walking

\* A reference is resolved, to a node of another SBOM or to nothing.
LEMMA ResolveWalks ==
  ASSUME LookupInv, Walking, vars' = vars, NEW t \in walk.todo, t.step = "resolve",
         NEW y \in resolve_external_sbom(t.at[2]),
         NEW tasks, tasks = IF y = NoNode THEN {} ELSE {Task("enter", y, t.at, Less(t.depth), t.kept)},
         NEW shown, shown = {},
         Continue(t, walk.seen, shown, tasks, walk.known)
  PROVE  Walking'
<1> DEFINE x == t.at
<1>1. TaskFits(t, walk.seen, walk.known) /\ x \in walk.seen /\ t.parent = x /\ IsExternal(x)
  BY DEF Walking, TaskFits
<1>2. /\ walk'.dir = walk.dir /\ walk'.from = walk.from /\ walk'.depth = walk.depth
      /\ walk'.rels = walk.rels /\ walk'.stable = walk.stable
      /\ walk'.seen = walk.seen /\ walk'.shown = walk.shown
  <2>1. WalkShape /\ Continue(t, walk.seen, shown, tasks, walk.known)
    BY DEF Walking
  <2>2. walk.shown \cup shown = walk.shown
    OBVIOUS
  <2> QED
    <3>1. /\ walk'.dir = walk.dir /\ walk'.from = walk.from /\ walk'.depth = walk.depth
          /\ walk'.rels = walk.rels /\ walk'.stable = walk.stable
          /\ walk'.seen = walk.seen /\ walk'.shown = walk.shown \cup shown
      <4> HIDE DEF x
      <4> QED
        BY ONLY <2>1, ContinueFacts
    <3> QED
      BY <2>2, <3>1
<1>3. ASSUME NEW u \in tasks
      PROVE  /\ u.step = "enter" /\ u.parent = x /\ u.at = y /\ y # NoNode
             /\ TaskFits(u, walk.seen, walk.known)
  <2>1. y # NoNode /\ u = Task("enter", y, x, Less(t.depth), t.kept)
    OBVIOUS
  <2>2. /\ u = Task(u.step, u.at, u.parent, u.depth, u.kept)
        /\ u.step = "enter" /\ u.at = y /\ u.parent = x /\ u.depth = Less(t.depth) /\ u.kept = t.kept
    BY <2>1 DEF Task
  <2>3. walk.depth = Unlimited => Less(t.depth) = Unlimited
    BY <1>1 DEF TaskFits, Less
  <2> QED
    BY <1>1, <2>1, <2>2, <2>3 DEF TaskFits
<1>4. y # NoNode => \E u \in tasks : u.step = "enter" /\ u.parent = x
  <2>1. y # NoNode => Task("enter", y, x, Less(t.depth), t.kept) \in tasks
    OBVIOUS
  <2> QED
    BY <2>1 DEF Task
<1>5. \A u, v \in tasks : u = v
  OBVIOUS
<1>6. /\ WalkShape' /\ KnownFits' /\ Started' /\ AllVisited'
      /\ \A u \in walk'.todo : TaskFits(u, walk.seen, walk.known)'
      /\ \A u \in walk'.todo : u \in walk.todo \ {t} \/ u \in tasks
      /\ \A u \in (walk.todo \ {t}) \cup tasks : u.step # "collect" => u \in walk'.todo
      /\ \A z : Shown(z)' = Shown(z)
  <2>1. \A z : Shown(z)' = Shown(z)
    BY <1>2 DEF Shown
  <2>2. walk.stable => \A s \in DOMAIN walk.known : walk.known[s] = resolve_rh_external_sbom_ancestors(s)
    BY DEF Walking, KnownFits
  <2>3. \A f \in shown : FALSE
    OBVIOUS
  <2> QED
    BY <1>3, <2>1, <2>2, <2>3, StepKeeps
<1>7. sboms' = sboms /\ ancestors' = ancestors
  BY DEF vars
<1>8. \A u \in walk.todo : u.step # "collect" /\ u.parent = x => u = t
  BY <1>1 DEF Walking, OnePending, Pending
<1>9. \A f \in walk.shown : f[1] # x
  BY <1>1 DEF Walking, OnePending
<1>10. /\ \A z : IsExternal(z)' = IsExternal(z) /\ (Everything(z)' <=> Everything(z)) /\ EdgesAt(z)' = EdgesAt(z)
       /\ \A z : StandIns(z)' = StandIns(z) /\ EdgesOfAll(z)' = EdgesOfAll(z)
       /\ \A z : EdgesOrNone(z)' = EdgesOrNone(z)
       /\ \A e : resolve_external_sbom(e)' = resolve_external_sbom(e)
       /\ \A E : Kept(E)' = Kept(E)
       /\ \A rel : Wanted(rel)' <=> Wanted(rel)
  BY <1>2, <1>7, LookupsSame, SameQuestion, AllEdgesSame
<1>11. OnePending'
  <2>1. SUFFICES ASSUME NEW u \in walk'.todo, u.step # "collect", IsExternal(u.parent)
                 PROVE  /\ \A v \in walk'.todo : v.step # "collect" /\ v.parent = u.parent => v = u
                        /\ \A f \in walk'.shown : f[1] # u.parent
    BY <1>10 DEF OnePending, Pending
  <2>2. CASE u \in tasks
    <3>1. u.parent = x
      BY <1>3, <2>2
    <3> QED
      BY <1>2, <1>3, <1>5, <1>6, <1>8, <1>9, <2>2, <3>1
  <2>3. CASE u \in walk.todo \ {t}
    <3>1. u.parent # x
      BY <1>8, <2>1, <2>3
    <3>2. /\ \A v \in walk.todo : v.step # "collect" /\ v.parent = u.parent => v = u
          /\ \A f \in walk.shown : f[1] # u.parent
      BY <2>1, <2>3 DEF Walking, OnePending, Pending
    <3> QED
      BY <1>2, <1>3, <1>6, <3>1, <3>2
  <2> QED
    BY <1>6, <2>2, <2>3
<1>12. ShownFits' /\ OwnShown'
  BY <1>2, <1>6, <1>10 DEF Walking, ShownFits, OwnShown
<1>13. ClimbShown'
  <2>1. \A u \in walk.todo : u.step = "enter" => u \in walk'.todo
    BY <1>6
  <2> QED
    BY <1>2, <1>6, <1>10, <2>1 DEF Walking, ClimbShown
<1>14. ReferredShown'
  <2>1. SUFFICES ASSUME walk.stable, NEW w \in walk'.seen, IsExternal(w)
                 PROVE  \/ \E u \in walk'.todo : u.step # "collect" /\ u.parent = w
                        \/ \E z \in resolve_external_sbom(w[2]) :
                             /\ Shown(w) \subseteq Kept(EdgesOrNone(z))
                             /\ Everything(w) => Kept(EdgesOrNone(z)) \subseteq Shown(w)
    BY <1>2, <1>6, <1>10 DEF ReferredShown, Pending
  <2>2. CASE w = x /\ y # NoNode
    <3>1. PICK u \in tasks : u.step = "enter" /\ u.parent = x
      BY <1>4, <2>2
    <3>2. u \in walk'.todo
      BY <1>6, <3>1
    <3> QED
      BY <2>2, <3>1, <3>2
  <2>3. CASE w = x /\ y = NoNode
    <3>1. Shown(x) = {}
      BY <1>9 DEF Shown
    <3>2. Kept(EdgesOrNone(y)) = {}
      BY <2>3 DEF Kept, EdgesOrNone
    <3> QED
      BY <2>3, <3>1, <3>2
  <2>4. CASE w # x
    <3>1. \A u \in walk.todo : u.step # "collect" /\ u.parent = w => u \in walk'.todo
      BY <1>1, <1>6, <2>4
    <3> QED
      BY <1>2, <2>1, <3>1 DEF Walking, ReferredShown, Pending
  <2> QED
    BY <2>2, <2>3, <2>4
<1> QED
  BY <1>6, <1>11, <1>12, <1>13, <1>14 DEF Walking

\* The walk enters another SBOM, and shows what is related to the node there
\* below the node it comes from.
LEMMA EnterWalks ==
  ASSUME LookupInv, Walking, vars' = vars, NEW t \in walk.todo, t.step = "enter",
         NEW loaded \in {TRUE} \cup {t.at[1] \in sboms},
         NEW rows, rows = IF loaded THEN resolve_rh_external_sbom_ancestors(t.at[1]) ELSE {},
         NEW known, known = [s \in {t.at[1]} \cup DOMAIN walk.known |->
                               IF s \in DOMAIN walk.known THEN walk.known[s] ELSE rows],
         NEW found, found <=> loaded /\ t.at[2] \in Graph[t.at[1]].nodes,
         NEW shown, shown = IF found THEN collect_graph(t, t.at).shown ELSE {},
         NEW tasks, tasks = IF found THEN collect_graph(t, t.at).tasks ELSE {},
         Continue(t, walk.seen, shown, tasks, known)
  PROVE  Walking'
<1> DEFINE y == t.at
           p == t.parent
<1>1. /\ TaskFits(t, walk.seen, walk.known) /\ p \in walk.seen
      /\ walk.stable => IF IsExternal(p) THEN y \in resolve_external_sbom(p[2]) \ {NoNode} ELSE y \in StandIns(p)
      /\ Everything(p) => t.kept
  BY DEF Walking, TaskFits
<1>2. /\ walk'.dir = walk.dir /\ walk'.from = walk.from /\ walk'.depth = walk.depth
      /\ walk'.rels = walk.rels /\ walk'.stable = walk.stable
      /\ walk'.seen = walk.seen /\ walk'.shown = walk.shown \cup shown
  <2>1. WalkShape
    BY DEF Walking
  <2> QED
    BY <2>1, ContinueFacts
<1>3. walk.stable => y[1] \in sboms
  BY <1>1, ResolvedFacts, StandInFacts
<1>4. walk.stable => loaded = TRUE
  BY <1>3
<1>5. DOMAIN walk.known \subseteq DOMAIN known /\ y[1] \in DOMAIN known
  OBVIOUS
<1>6. walk.stable => \A s \in DOMAIN known : known[s] = resolve_rh_external_sbom_ancestors(s)
  BY <1>4 DEF Walking, KnownFits
<1>7. /\ \A u \in tasks : u.step = "collect" /\ (u.at \notin walk.seen => TaskFits(u, walk.seen, known))
      /\ \A f \in shown :
           /\ f[1] = p /\ Wanted(f[2]) /\ <<f[2], f[3]>> \in EdgesAt(y) /\ t.kept
           /\ walk.depth = Unlimited /\ walk.rels = {} =>
                \E u \in tasks : u.step = "collect" /\ u.at = f[3] /\ u.depth = Unlimited
      /\ found /\ t.kept => \A e \in Kept(EdgesAt(y)) : <<p, e[1], e[2]>> \in shown
  <2>1. walk.from \in walk.seen
    BY FirstIsSeen
  <2>2. CASE found
    BY <1>5, <2>1, <2>2, CollectedFacts
  <2>3. CASE ~found
    BY <2>3
  <2> QED
    BY <2>2, <2>3
<1>8. walk.stable /\ ~found => EdgesAt(y) = {}
  <2>1. SUFFICES ASSUME walk.stable, ~found PROVE EdgesAt(y) = {}
    OBVIOUS
  <2>2. y[1] \in sboms /\ y[1] \in Sboms /\ SbomRow[y[1]].loads
    BY <1>3, <2>1, CorpusSboms DEF LookupInv, AncestorsInv, Loadable
  <2>3. y[2] \notin Graph[y[1]].nodes
    BY <1>4, <2>1
  <2> QED
    BY <2>2, <2>3, NoEdges DEF EdgesAt
<1>9. walk.stable /\ t.kept => \A e \in Kept(EdgesAt(y)) : <<p, e[1], e[2]>> \in shown
  BY <1>7, <1>8 DEF Kept
<1>10. /\ WalkShape' /\ KnownFits' /\ Started' /\ AllVisited'
       /\ \A u \in walk'.todo : TaskFits(u, walk.seen, walk.known)'
       /\ \A u \in walk'.todo : u \in walk.todo \ {t} \/ u \in tasks
       /\ \A u \in walk.todo \ {t} : u.step # "collect" => u \in walk'.todo
       /\ \A z : Shown(z) \subseteq Shown(z)' /\ (z # p => Shown(z)' = Shown(z))
  <2>1. \A f \in shown : f[1] = t.parent
    BY <1>7
  <2>2. \A f \in shown : walk.depth = Unlimited /\ walk.rels = {} =>
          \E u \in tasks : u.step = "collect" /\ u.at = f[3] /\ u.depth = Unlimited
    BY <1>7
  <2>3. \A u \in tasks : (u.step = "collect" => u.depth # 0 /\ u.at \notin walk.seen) => TaskFits(u, walk.seen, known)
    BY <1>7
  <2>4. /\ LookupInv /\ Walking /\ vars' = vars /\ t \in walk.todo /\ t.step # "collect"
        /\ Continue(t, walk.seen, shown, tasks, known)
    OBVIOUS
  <2> QED
    BY ONLY <1>5, <1>6, <2>1, <2>2, <2>3, <2>4, StepKeeps
<1>11. sboms' = sboms /\ ancestors' = ancestors
  BY DEF vars
<1>12. /\ \A z : IsExternal(z)' = IsExternal(z) /\ (Everything(z)' <=> Everything(z)) /\ EdgesAt(z)' = EdgesAt(z)
       /\ \A z : StandIns(z)' = StandIns(z) /\ EdgesOfAll(z)' = EdgesOfAll(z)
       /\ \A z : EdgesOrNone(z)' = EdgesOrNone(z)
       /\ \A e : resolve_external_sbom(e)' = resolve_external_sbom(e)
       /\ \A E : Kept(E)' = Kept(E)
       /\ \A rel : Wanted(rel)' <=> Wanted(rel)
  BY <1>2, <1>11, LookupsSame, SameQuestion, AllEdgesSame
<1>13. IsExternal(p) => /\ \A u \in walk.todo : u.step # "collect" /\ u.parent = p => u = t
                        /\ \A f \in walk.shown : f[1] # p
  BY DEF Walking, OnePending, Pending
<1>14. OnePending'
  <2>1. SUFFICES ASSUME NEW u \in walk'.todo, u.step # "collect", IsExternal(u.parent)
                 PROVE  /\ \A v \in walk'.todo : v.step # "collect" /\ v.parent = u.parent => v = u
                        /\ \A f \in walk'.shown : f[1] # u.parent
    BY <1>12 DEF OnePending, Pending
  <2>2. u \in walk.todo \ {t}
    BY <1>7, <1>10, <2>1
  <2>3. u.parent # p
    BY <1>13, <2>1, <2>2
  <2>4. /\ \A v \in walk.todo : v.step # "collect" /\ v.parent = u.parent => v = u
        /\ \A f \in walk.shown : f[1] # u.parent
    BY <2>1, <2>2 DEF Walking, OnePending, Pending
  <2> QED
    BY <1>2, <1>7, <1>10, <2>3, <2>4
<1>15. ShownFits'
  <2>1. \A f \in walk.shown : /\ f[1] \in walk.seen /\ Wanted(f[2])
                              /\ walk.stable /\ ~IsExternal(f[1]) => <<f[2], f[3]>> \in EdgesOfAll(f[1])
    BY DEF Walking, ShownFits
  <2>2. \A f \in shown : /\ f[1] \in walk.seen /\ Wanted(f[2])
                         /\ walk.stable /\ ~IsExternal(f[1]) => <<f[2], f[3]>> \in EdgesOfAll(f[1])
    BY <1>1, <1>7 DEF EdgesOfAll
  <2>3. \A f \in walk'.shown : /\ f[1] \in walk'.seen /\ Wanted(f[2])
                               /\ walk.stable /\ ~IsExternal(f[1]) => <<f[2], f[3]>> \in EdgesOfAll(f[1])
    BY <1>2, <2>1, <2>2
  <2> QED
    BY <1>2, <1>12, <2>3 DEF ShownFits
<1>16. OwnShown'
  BY <1>2, <1>10, <1>12 DEF Walking, OwnShown
<1>17. walk.stable /\ t.kept => Kept(EdgesAt(y)) \subseteq Shown(p)'
  <2>1. SUFFICES ASSUME walk.stable, t.kept, NEW e \in Kept(EdgesAt(y)) PROVE e \in Shown(p)'
    OBVIOUS
  <2>2. <<p, e[1], e[2]>> \in walk'.shown
    BY <1>2, <1>9, <2>1
  <2>3. e = <<e[1], e[2]>>
    BY EdgePairs DEF Kept, EdgesAt
  <2>4. <<e[1], e[2]>> \in Shown(p)'
    BY <2>2 DEF Shown
  <2> QED
    BY <2>3, <2>4
<1>18. ClimbShown'
  <2>1. SUFFICES ASSUME walk.stable, NEW x \in walk.seen, Everything(x), ~IsExternal(x), NEW z \in StandIns(x)
                 PROVE  \/ Kept(EdgesAt(z)) \subseteq Shown(x)'
                        \/ \E u \in walk'.todo : u.step = "enter" /\ u.parent = x /\ u.at = z
    BY <1>2, <1>12 DEF ClimbShown
  <2>2. \/ Kept(EdgesAt(z)) \subseteq Shown(x)
        \/ \E u \in walk.todo : u.step = "enter" /\ u.parent = x /\ u.at = z
    BY <2>1 DEF Walking, ClimbShown
  <2>3. CASE Kept(EdgesAt(z)) \subseteq Shown(x)
    BY <1>10, <2>3
  <2>4. ASSUME NEW u \in walk.todo, u.step = "enter", u.parent = x, u.at = z, u # t
        PROVE  \E v \in walk'.todo : v.step = "enter" /\ v.parent = x /\ v.at = z
    BY <1>10, <2>4
  <2>5. CASE p = x /\ y = z
    BY <1>1, <1>17, <2>1, <2>5
  <2> QED
    BY <2>2, <2>3, <2>4, <2>5
<1>19. ReferredShown'
  <2>1. SUFFICES ASSUME walk.stable, NEW x \in walk.seen, IsExternal(x)
                 PROVE  \/ \E u \in walk'.todo : u.step # "collect" /\ u.parent = x
                        \/ \E z \in resolve_external_sbom(x[2]) :
                             /\ Shown(x)' \subseteq Kept(EdgesOrNone(z))
                             /\ Everything(x) => Kept(EdgesOrNone(z)) \subseteq Shown(x)'
    BY <1>2, <1>12 DEF ReferredShown, Pending
  <2>2. CASE x = p
    <3>1. y \in resolve_external_sbom(p[2]) /\ y # NoNode
      BY <1>1, <2>1, <2>2
    <3>2. EdgesOrNone(y) = EdgesAt(y)
      BY <3>1 DEF EdgesOrNone
    <3>3. Shown(p)' \subseteq Kept(EdgesAt(y))
      <4>1. SUFFICES ASSUME NEW f \in walk'.shown, f[1] = p PROVE <<f[2], f[3]>> \in Kept(EdgesAt(y))
        BY DEF Shown
      <4>2. f \in shown
        BY <1>2, <1>13, <2>1, <2>2, <4>1
      <4> QED
        BY <1>7, <4>2 DEF Kept
    <3>4. Everything(p) => Kept(EdgesAt(y)) \subseteq Shown(p)'
      BY <1>1, <1>17, <2>1
    <3> QED
      BY <2>2, <3>1, <3>2, <3>3, <3>4
  <2>3. CASE x # p
    <3>1. Shown(x)' = Shown(x)
      BY <1>10, <2>3
    <3>2. \A u \in walk.todo : u.step # "collect" /\ u.parent = x => u \in walk'.todo
      BY <1>10, <2>3
    <3> QED
      BY <2>1, <3>1, <3>2 DEF Walking, ReferredShown, Pending
  <2> QED
    BY <2>2, <2>3
<1> QED
  BY <1>10, <1>14, <1>15, <1>16, <1>18, <1>19 DEF Walking

-----------------------------------------------------------------------------
\* A walk begins with the node that was asked for.
LEMMA QueryWalks ==
  ASSUME NEW q, Query(q)
  PROVE  Walking'
<1> DEFINE first == Task("collect", q.from, q.from, q.depth, TRUE)
           todo == IF q.depth = 0 THEN {} ELSE {first}
           known == [s \in {q.from[1]} |-> resolve_rh_external_sbom_ancestors(s)]
<1>1. walk' = [dir |-> q.dir, from |-> q.from, depth |-> q.depth, rels |-> q.rels,
               todo |-> todo, seen |-> {}, shown |-> {}, known |-> known, stable |-> TRUE]
  BY DEF Query
<1>2. sboms' = sboms /\ ancestors' = ancestors
  BY DEF Query, vars
<1> HIDE DEF todo, known
<1>3. /\ walk'.from = q.from /\ walk'.depth = q.depth /\ walk'.rels = q.rels /\ walk'.todo = todo
      /\ walk'.seen = {} /\ walk'.shown = {} /\ walk'.known = known /\ walk'.stable = TRUE
      /\ WalkShape'
  BY <1>1 DEF WalkShape
<1>4. /\ first.step = "collect" /\ first.at = q.from /\ first.parent = q.from /\ first.depth = q.depth
      /\ first.kept = TRUE /\ first = Task(first.step, first.at, first.parent, first.depth, first.kept)
  BY DEF Task
<1>5. \A t \in todo : t = first
  BY DEF todo
<1>6. KnownFits'
  <2>1. \A s : resolve_rh_external_sbom_ancestors(s)' = resolve_rh_external_sbom_ancestors(s)
    BY <1>2, LookupsSame
  <2>2. \A s \in DOMAIN known : known[s] = resolve_rh_external_sbom_ancestors(s)
    BY DEF known
  <2> QED
    BY <1>3, <2>1, <2>2 DEF KnownFits
<1>7. Started'
  BY <1>3 DEF Started, todo
<1>8. AllVisited'
  <2>1. Reached' = {q.from}
    BY <1>3 DEF Reached
  <2>2. q.depth = Unlimited => first \in todo
    <3>1. Unlimited # 0
      BY TraversalAssumption
    <3> HIDE DEF first
    <3> QED
      BY <3>1 DEF todo
  <2> HIDE DEF first
  <2> QED
    BY <1>3, <1>4, <2>1, <2>2 DEF AllVisited
<1> HIDE DEF first
<1>9. \A t \in walk'.todo : TaskFits(t, walk.seen, walk.known)'
  <2>1. q.from[1] \in DOMAIN known
    BY DEF known
  <2> QED
    BY <1>3, <1>4, <1>5, <2>1 DEF TaskFits
<1>10. OnePending' /\ ShownFits' /\ OwnShown' /\ ClimbShown' /\ ReferredShown'
  BY <1>3, <1>4, <1>5 DEF OnePending, ShownFits, OwnShown, ClimbShown, ReferredShown
<1> QED
  BY <1>3, <1>6, <1>7, <1>8, <1>9, <1>10 DEF Walking

\* What happens elsewhere leaves a walk alone, or makes it a walk over several
\* states of the database.
LEMMA ElsewhereWalks ==
  ASSUME LookupInv, Walking, [Next]_vars,
         (walk' = walk /\ sboms' = sboms) \/ walk' = [walk EXCEPT !.stable = FALSE]
  PROVE  Walking'
<1>1. CASE walk' = walk /\ sboms' = sboms
  <2>1. ancestors' = ancestors
    BY <1>1, LinksFollow DEF LookupInv, AncestorsInv
  <2>2. /\ \A z : IsExternal(z)' = IsExternal(z) /\ (Everything(z)' <=> Everything(z)) /\ EdgesAt(z)' = EdgesAt(z)
        /\ \A z : StandIns(z)' = StandIns(z) /\ EdgesOfAll(z)' = EdgesOfAll(z)
        /\ \A z : EdgesOrNone(z)' = EdgesOrNone(z)
        /\ \A e : resolve_external_sbom(e)' = resolve_external_sbom(e)
        /\ \A s : resolve_rh_external_sbom_ancestors(s)' = resolve_rh_external_sbom_ancestors(s)
        /\ \A E : Kept(E)' = Kept(E)
        /\ \A rel : Wanted(rel)' <=> Wanted(rel)
    BY <1>1, <2>1, LookupsSame, SameQuestion, AllEdgesSame
  <2>3. \A z : Shown(z)' = Shown(z)
    BY <1>1 DEF Shown
  <2>4. Reached' = Reached
    BY <1>1 DEF Reached
  <2>5. \A t \in walk.todo : TaskFits(t, walk.seen, walk.known)'
    BY <1>1, <2>2 DEF Walking, TaskFits
  <2>6. WalkShape' /\ OnePending' /\ KnownFits' /\ ShownFits' /\ Started' /\ AllVisited'
    BY <1>1, <2>2, <2>4 DEF Walking, WalkShape, OnePending, Pending, KnownFits, ShownFits, Started, AllVisited
  <2>7. OwnShown' /\ ClimbShown' /\ ReferredShown'
    BY <1>1, <2>2, <2>3 DEF Walking, OwnShown, ClimbShown, ReferredShown, Pending
  <2> QED
    BY <1>1, <2>5, <2>6, <2>7 DEF Walking
<1>2. CASE walk' = [walk EXCEPT !.stable = FALSE]
  <2>1. /\ walk' = [dir |-> walk.dir, from |-> walk.from, depth |-> walk.depth, rels |-> walk.rels,
                    todo |-> walk.todo, seen |-> walk.seen, shown |-> walk.shown, known |-> walk.known,
                    stable |-> FALSE]
    BY <1>2 DEF Walking, WalkShape
  <2>2. /\ walk'.dir = walk.dir /\ walk'.from = walk.from /\ walk'.depth = walk.depth
        /\ walk'.rels = walk.rels /\ walk'.stable = FALSE /\ walk'.todo = walk.todo
        /\ walk'.seen = walk.seen /\ walk'.shown = walk.shown /\ walk'.known = walk.known
        /\ WalkShape'
    BY <2>1 DEF WalkShape
  <2>3. \A z : (Everything(z)' <=> Everything(z)) /\ EdgesAt(z)' = EdgesAt(z) /\ IsExternal(z)' = IsExternal(z)
    BY <2>2, SameQuestion DEF IsExternal, IsPackage, SbomRow
  <2>4. /\ \A E : Kept(E)' = Kept(E)
        /\ \A rel : Wanted(rel)' <=> Wanted(rel)
    BY <2>2, SameQuestion
  <2>5. Reached' = Reached /\ \A z : Shown(z)' = Shown(z)
    BY <2>2 DEF Reached, Shown
  <2>6. \A t \in walk.todo : TaskFits(t, walk.seen, walk.known)'
    BY <2>2, <2>3 DEF Walking, TaskFits
  <2>7. OnePending' /\ KnownFits' /\ ShownFits' /\ Started' /\ AllVisited'
    BY <2>2, <2>3, <2>4, <2>5 DEF Walking, OnePending, Pending, KnownFits, ShownFits, Started, AllVisited
  <2>8. OwnShown' /\ ClimbShown' /\ ReferredShown'
    BY <2>2, <2>3, <2>4, <2>5 DEF Walking, OwnShown, ClimbShown, ReferredShown
  <2> QED
    BY <2>2, <2>6, <2>7, <2>8 DEF Walking
<1> QED
  BY <1>1, <1>2

LEMMA NextWalks == LookupInv /\ WalkInv /\ [TraversalNext]_<<vars, walk>> => WalkInv'
<1> SUFFICES ASSUME LookupInv, WalkInv, [TraversalNext]_<<vars, walk>> PROVE WalkInv'
  OBVIOUS
<1>1. CASE Elsewhere
  <2>1. CASE walk = NoWalk
    BY <1>1, <2>1 DEF Elsewhere, WalkInv
  <2>2. CASE walk # NoWalk
    <3>1. Walking /\ Next
      BY <1>1, <2>2 DEF WalkInv, Elsewhere
    <3>2. (walk' = walk /\ sboms' = sboms) \/ walk' = [walk EXCEPT !.stable = FALSE]
      BY <1>1, <2>2 DEF Elsewhere
    <3> QED
      BY <3>1, <3>2, ElsewhereWalks DEF WalkInv
  <2> QED
    BY <2>1, <2>2
<1>2. ASSUME NEW q \in corpus.queries, Query(q) PROVE WalkInv'
  BY <1>2, QueryWalks DEF WalkInv
<1>3. ASSUME NEW t \in walk.todo PROVE Walking
  <2>1. walk # NoWalk
    BY <1>3 DEF NoWalk
  <2> QED
    BY <2>1 DEF WalkInv
<1>4. ASSUME NEW t \in walk.todo, Collect(t) PROVE WalkInv'
  <2> DEFINE climb == {Task("enter", row[2], t.at, Less(t.depth), t.kept) :
                         row \in {r \in walk.known[t.at[1]] : r[1] = t.at[2]}}
  <2>1. vars' = vars /\ t.step = "collect" /\ Walking
    BY <1>3, <1>4 DEF Collect
  <2>2. CASE IsExternal(t.at)
    <3>1. Continue(t, walk.seen \cup {t.at}, {}, {[t EXCEPT !.step = "resolve"]}, walk.known)
      BY <1>4, <2>2 DEF Collect
    <3> QED
      BY <2>1, <2>2, <3>1, ReferenceWalks DEF WalkInv
  <2>3. CASE ~IsExternal(t.at)
    <3>1. Continue(t, walk.seen \cup {t.at}, collect_graph(t, t.at).shown,
                   collect_graph(t, t.at).tasks \cup climb, walk.known)
      BY <1>4, <2>3 DEF Collect
    <3> QED
      BY <2>1, <2>3, <3>1, NodeWalks DEF WalkInv
  <2> QED
    BY <2>2, <2>3
<1>5. ASSUME NEW t \in walk.todo, Resolve(t) PROVE WalkInv'
  <2>1. vars' = vars /\ t.step = "resolve" /\ Walking
    BY <1>3, <1>5 DEF Resolve
  <2>2. PICK y \in resolve_external_sbom(t.at[2]) :
          Continue(t, walk.seen, {},
                   IF y = NoNode THEN {} ELSE {Task("enter", y, t.at, Less(t.depth), t.kept)}, walk.known)
    BY <1>5 DEF Resolve
  <2> DEFINE tasks == IF y = NoNode THEN {} ELSE {Task("enter", y, t.at, Less(t.depth), t.kept)}
             shown == {}
  <2>3. /\ Continue(t, walk.seen, shown, tasks, walk.known) /\ shown = {}
        /\ tasks = IF y = NoNode THEN {} ELSE {Task("enter", y, t.at, Less(t.depth), t.kept)}
    BY <2>2
  <2> HIDE DEF tasks, shown
  <2> QED
    BY <2>1, <2>3, ResolveWalks DEF WalkInv
<1>6. ASSUME NEW t \in walk.todo, Enter(t) PROVE WalkInv'
  <2>1. vars' = vars /\ t.step = "enter" /\ Walking
    BY <1>3, <1>6 DEF Enter
  <2>2. PICK loaded \in {TRUE} \cup {t.at[1] \in sboms} :
          LET next == collect_graph(t, t.at)
              rows == IF loaded THEN resolve_rh_external_sbom_ancestors(t.at[1]) ELSE {}
              known == [s \in {t.at[1]} \cup DOMAIN walk.known |->
                          IF s \in DOMAIN walk.known THEN walk.known[s] ELSE rows]
          IN  IF loaded /\ t.at[2] \in Graph[t.at[1]].nodes
              THEN Continue(t, walk.seen, next.shown, next.tasks, known)
              ELSE Continue(t, walk.seen, {}, {}, known)
    BY <1>6 DEF Enter
  <2> DEFINE rows == IF loaded THEN resolve_rh_external_sbom_ancestors(t.at[1]) ELSE {}
             known == [s \in {t.at[1]} \cup DOMAIN walk.known |->
                         IF s \in DOMAIN walk.known THEN walk.known[s] ELSE rows]
             found == loaded /\ t.at[2] \in Graph[t.at[1]].nodes
             shown == IF found THEN collect_graph(t, t.at).shown ELSE {}
             tasks == IF found THEN collect_graph(t, t.at).tasks ELSE {}
  <2>3. Continue(t, walk.seen, shown, tasks, known)
    <3>1. CASE found
      BY <2>2, <3>1
    <3>2. CASE ~found
      BY <2>2, <3>2
    <3> QED
      BY <3>1, <3>2
  <2>4. Walking'
    BY <2>1, <2>3, EnterWalks
  <2> QED
    BY <2>4 DEF WalkInv
<1>7. CASE Answer
  BY <1>7 DEF Answer, WalkInv, NoWalk
<1>8. CASE UNCHANGED <<vars, walk>>
  <2>1. CASE walk = NoWalk
    BY <1>8, <2>1 DEF WalkInv
  <2>2. CASE walk # NoWalk
    <3>1. Walking /\ [Next]_vars /\ walk' = walk /\ sboms' = sboms
      BY <1>8, <2>2 DEF WalkInv, vars
    <3> QED
      BY <3>1, ElsewhereWalks DEF WalkInv
  <2> QED
    BY <2>1, <2>2
<1> QED
  BY <1>1, <1>2, <1>4, <1>5, <1>6, <1>7, <1>8 DEF TraversalNext

-----------------------------------------------------------------------------
LEMMA WalksFinish == LookupInv /\ WalkInv => WalkComplete
<1> SUFFICES ASSUME LookupInv, WalkInv, walk # NoWalk, walk.todo = {}, NEW x \in Reached
             PROVE  /\ Everything(x) /\ ~IsExternal(x) => Kept(EdgesAt(x)) \subseteq Shown(x)
                    /\ walk.stable => \E edges \in Related(walk.dir, x) :
                         IF Everything(x) THEN Shown(x) = Kept(edges) ELSE Shown(x) \subseteq Kept(edges)
  BY DEF WalkComplete, Everything, Kept, EdgesAt
<1>1. Walking
  BY DEF WalkInv
<1>2. Everything(x) => x \in walk.seen
  <2>1. SUFFICES ASSUME Everything(x) PROVE x \in walk.seen
    OBVIOUS
  <2>2. CASE walk.depth = Unlimited /\ walk.rels = {}
    BY <1>1, <2>2 DEF Walking, AllVisited
  <2>3. CASE x = walk.from /\ walk.depth # 0
    BY <1>1, <2>3 DEF Walking, Started
  <2> QED
    BY <2>1, <2>2, <2>3 DEF Everything
<1>3. Everything(x) /\ ~IsExternal(x) => Kept(EdgesAt(x)) \subseteq Shown(x)
  BY <1>1, <1>2 DEF Walking, OwnShown
<1>4. x \notin walk.seen => Shown(x) = {}
  BY <1>1 DEF Walking, ShownFits, Shown
<1>5. ASSUME walk.stable, ~IsExternal(x)
      PROVE  \E edges \in Related(walk.dir, x) :
               IF Everything(x) THEN Shown(x) = Kept(edges) ELSE Shown(x) \subseteq Kept(edges)
  <2>1. EdgesOfAll(x) \in Related(walk.dir, x)
    <3>1. ~IsPackage(x) => StandIns(x) = {}
      <4>1. SUFFICES ASSUME NEW y \in StandIns(x) PROVE IsPackage(x)
        OBVIOUS
      <4>2. PICK row \in resolve_rh_external_sbom_ancestors(x[1]) : row[1] = x[2]
        BY <4>1 DEF StandIns
      <4>3. PICK p \in ancestors : \E ne \in StandFor[p] : p[1] = x[1] /\ row = <<ne[1], <<p[2], ne[2]>> >>
        BY AncestorRows
      <4>4. PICK ne \in StandFor[p] : p[1] = x[1] /\ ne[1] = x[2]
        BY <4>2, <4>3
      <4>5. p \in Sboms \X Sboms
        BY CorpusSboms DEF LookupInv, AncestorsInv, AncestorsHold
      <4> QED
        BY <4>4, <4>5 DEF StandFor, IsPackage
    <3>2. UNION {EdgesAt(y) : y \in StandIns(x)} =
            UNION {edges_directed(walk.dir, r[2]) :
                     r \in {q \in resolve_rh_external_sbom_ancestors(x[1]) : q[1] = x[2]}}
      BY DEF EdgesAt, StandIns
    <3>3. EdgesOfAll(x) = edges_directed(walk.dir, x) \cup
            (IF ~IsPackage(x) THEN {}
             ELSE UNION {edges_directed(walk.dir, r[2]) :
                    r \in {q \in resolve_rh_external_sbom_ancestors(x[1]) : q[1] = x[2]}})
      BY <3>1, <3>2 DEF EdgesOfAll, EdgesAt
    <3> QED
      BY <1>5, <3>3 DEF Related
  <2>2. Shown(x) \subseteq Kept(EdgesOfAll(x))
    BY <1>1, <1>5 DEF Walking, ShownFits, Shown, Kept
  <2>3. Everything(x) => Kept(EdgesOfAll(x)) \subseteq Shown(x)
    <3>1. SUFFICES ASSUME Everything(x), NEW e \in EdgesOfAll(x), Wanted(e[1]) PROVE e \in Shown(x)
      BY DEF Kept
    <3>2. CASE e \in EdgesAt(x)
      BY <1>3, <1>5, <3>1, <3>2 DEF Kept
    <3>3. CASE e \notin EdgesAt(x)
      <4>1. PICK y \in StandIns(x) : e \in EdgesAt(y)
        BY <3>1, <3>3 DEF EdgesOfAll
      <4>2. Kept(EdgesAt(y)) \subseteq Shown(x)
        BY <1>1, <1>2, <1>5, <3>1 DEF Walking, ClimbShown
      <4> QED
        BY <3>1, <4>1, <4>2 DEF Kept
    <3> QED
      BY <3>2, <3>3
  <2> QED
    BY <2>1, <2>2, <2>3
<1>6. ASSUME walk.stable, IsExternal(x)
      PROVE  \E edges \in Related(walk.dir, x) :
               IF Everything(x) THEN Shown(x) = Kept(edges) ELSE Shown(x) \subseteq Kept(edges)
  <2>1. \A y \in resolve_external_sbom(x[2]) : EdgesOrNone(y) \in Related(walk.dir, x)
    BY <1>6 DEF Related, EdgesOrNone, EdgesAt
  <2>2. CASE x \in walk.seen
    <3>1. PICK y \in resolve_external_sbom(x[2]) :
            /\ Shown(x) \subseteq Kept(EdgesOrNone(y))
            /\ Everything(x) => Kept(EdgesOrNone(y)) \subseteq Shown(x)
      BY <1>1, <1>6, <2>2 DEF Walking, ReferredShown
    <3> QED
      BY <2>1, <3>1
  <2>3. CASE x \notin walk.seen
    <3>1. PICK y : y \in resolve_external_sbom(x[2])
      BY ResolvedFacts
    <3> QED
      BY <1>2, <1>4, <2>1, <2>3, <3>1
  <2> QED
    BY <2>2, <2>3
<1> QED
  BY <1>3, <1>5, <1>6

\* Whatever order the futures of a walk run in, and whatever happens to the SBOMs
\* meanwhile, its answer has all that it should have, and nothing else.
THEOREM WalksAreComplete == TraversalSpec => []WalkComplete
<1>1. TraversalSpec => []LookupInv
  BY WalksChangeNothing, InitLookup, NextLookup, PTL DEF Spec
<1>2. TraversalInit => WalkInv
  BY DEF TraversalInit, WalkInv
<1>3. TraversalSpec => []WalkInv
  BY <1>1, <1>2, NextWalks, PTL DEF TraversalSpec
<1> QED
  BY <1>1, <1>3, WalksFinish, PTL

================================================================================
