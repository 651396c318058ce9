--------------------------- MODULE Documents_proofs ---------------------------
(***************************************************************************)
(* The blobs, the rows, the deprecation and the PURLs of documents stay in *)
(* step, for any number of clients and documents.  What every invariant    *)
(* rests on: two handlers that are under way at once know of each other,   *)
(* and a row that is written and not committed belongs to one of them.     *)
(***************************************************************************)
EXTENDS Documents, FiniteSetTheorems, TLAPS

Marks == UNION {[S -> BOOLEAN] : S \in SUBSET Advisories}

Identifiers == {Identifier[a] : a \in Advisories}

Transaction ==
  [ins : BOOLEAN, delRow : BOOLEAN, delSource : BOOLEAN, fresh : SUBSET Nodes,
   gone : SUBSET Nodes, marks : Marks, plan : Marks, ids : SUBSET Nodes]

NoDoc == CHOOSE d \in Docs : TRUE

UploadSteps == {"store", "write", "insert", "lookup", "vanished", "purls", "refs",
                "snapshot", "mark", "commit"}
DeleteSteps == {"find", "delete", "snapshot", "mark", "source", "gc", "sweep", "commit", "unlink"}
DownloadSteps == {"look", "retrieve", "answer"}

TypeOK ==
  /\ backend \in {"fs", "s3"} /\ corpus \subseteq Docs
  /\ blob \in [Docs -> {"absent", "partial", "full"}]
  /\ rows \subseteq Docs /\ dep \subseteq rows \cap Advisories /\ purls \subseteq Nodes
  /\ pc \in [Clients -> {"idle"} \cup UploadSteps \cup DeleteSteps \cup DownloadSteps]
  /\ kind \in [Clients -> {"none", "upload", "delete", "download"}]
  /\ doc \in [Clients -> Docs \cup {NoDoc}]
  /\ tx \in [Clients -> Transaction]
  /\ intact \in [Clients -> BOOLEAN]
  /\ got \in [Clients -> {"none", "absent", "partial", "full"}]
  /\ clash \in [Clients -> SUBSET {"blob", "read", "current", "purls"}]
  /\ excuse \in [blob : SUBSET Docs, current : SUBSET Identifiers, purls : SUBSET Base]

\* What the transaction t of a handler of kind k for document d has done when it is at p
Phase(p, k, d, t) ==
  /\ p = "idle" <=> k = "none"
  /\ p # "idle" => d \in Docs
  /\ k = "upload" => p \in UploadSteps
  /\ k = "delete" => p \in DeleteSteps
  /\ k = "download" => p \in DownloadSteps
  /\ t.ins => k = "upload" /\ p \in {"purls", "refs", "snapshot", "mark", "commit"}
  /\ k = "upload" /\ p \in {"purls", "refs", "snapshot", "mark"} => t.ins
  /\ t.delRow <=> k = "delete" /\ p \in {"snapshot", "mark", "source", "gc", "sweep", "commit"}
  /\ t.fresh # {} => t.ins /\ p \in {"refs", "commit"}
  /\ t.gone # {} => k = "delete" /\ p = "commit" /\ d \in Sboms
  /\ p \in {"snapshot", "mark"} => d \in Advisories
  /\ p \in {"gc", "sweep"} => d \in Sboms
  /\ k = "delete" /\ p \in {"delete", "snapshot", "mark", "source", "gc"} =>
       t.ids = IF d \in Sboms THEN PurlsOf[d] ELSE {}
  /\ p # "mark" => t.plan = NoMarks
  /\ d \in Sboms \/ ~(t.ins \/ t.delRow) => t.marks = NoMarks
  /\ \A a \in DOMAIN t.plan \cup DOMAIN t.marks : d \in Advisories /\ Identifier[a] = Identifier[d]

Phases == \A c \in Clients : Phase(pc[c], kind[c], doc[c], tx[c])

Active(c) == kind[c] # "none"

\* Handlers that are under way at once know of each other.
Overlaps ==
  /\ \A c, e \in Clients : c # e /\ Active(c) /\ Active(e) =>
       Clashes(kind[c], doc[c], kind[e], doc[e]) \subseteq clash[c]
  /\ \A c \in Clients :
       /\ "blob" \in clash[c] => kind[c] \in {"upload", "delete"}
       /\ "current" \in clash[c] => kind[c] \in {"upload", "delete"} /\ doc[c] \in Advisories
       /\ "purls" \in clash[c] => kind[c] = "delete" /\ doc[c] \in Sboms

\* Of a document one transaction inserts the row, or one deletes it.
OneWriter ==
  \A c \in Clients :
    /\ tx[c].ins => doc[c] \notin rows
    /\ tx[c].delRow => doc[c] \in rows
    /\ \A e \in Clients \ {c} : doc[e] = doc[c] =>
         /\ ~(tx[c].ins /\ tx[e].ins)
         /\ ~(tx[c].delRow /\ tx[e].delRow)

Base1 == TypeOK /\ Phases /\ Overlaps /\ OneWriter

-----------------------------------------------------------------------------
(* Blobs *)

\* The blob of d is whole, or will be, or is excused.
Good(d) ==
  \/ blob[d] = "full"
  \/ d \in excuse.blob
  \/ \E c \in Clients : pc[c] = "write" /\ doc[c] = d /\ intact[c]

BlobInv ==
  /\ \A d \in rows : Good(d)
  /\ \A d \in Docs : blob[d] = "partial" => backend = "fs"
  /\ \A c \in Clients :
       /\ kind[c] = "upload" /\ pc[c] # "store" => Good(doc[c])
       /\ kind[c] = "delete" /\ "blob" \in clash[c] => doc[c] \in excuse.blob
       /\ pc[c] = "unlink" /\ doc[c] \in rows => "blob" \in clash[c]
       /\ pc[c] = "lookup" /\ doc[c] \notin rows => "blob" \in clash[c]
       /\ pc[c] = "vanished" => "blob" \in clash[c]
       /\ pc[c] = "retrieve" =>
            blob[doc[c]] = "full" \/ doc[c] \in excuse.blob \/ "read" \in clash[c]
       /\ pc[c] = "answer" =>
            got[c] = "full" \/ doc[c] \in excuse.blob \/ "read" \in clash[c]
       /\ got[c] = "partial" => backend = "fs"

-----------------------------------------------------------------------------
(* Deprecation *)

Same(R, i) == {a \in R \cap Advisories : Identifier[a] = i}

Exact(S) == S = {} \/ \E m \in MostRecent(S) : S \ dep = {m}

\* f is what update_deprecated_advisory writes for the advisories S.
PlanExact(S, f) ==
  IF S = {} THEN f = NoMarks ELSE \E m \in MostRecent(S) : f = [a \in S |-> a # m]

CurrentInv ==
  /\ \A i \in Identifiers : i \notin excuse.current => Exact(Same(rows, i))
  /\ \A c \in Clients :
       /\ "current" \in clash[c] => Identifier[doc[c]] \in excuse.current
       /\ doc[c] \in Advisories /\ "current" \notin clash[c] /\ (tx[c].ins \/ tx[c].delRow) =>
            LET S == Same(Visible(c), Identifier[doc[c]])
            IN  /\ pc[c] = "mark" => PlanExact(S, tx[c].plan)
                /\ pc[c] \notin {"snapshot", "mark"} => PlanExact(S, tx[c].marks)

-----------------------------------------------------------------------------
(* PURLs *)

\* A row with no SBOM that needs it, but d
Needed(n, d) == \E s \in rows \cap Sboms : s # d /\ n \in Closure(PurlsOf[s])

\* What is about to go with the transaction of c
Leaving(c) == IF pc[c] = "sweep" THEN Below(tx[c].ids) ELSE tx[c].gone

Deletes(c) == kind[c] = "delete" /\ doc[c] \in Sboms

\* The committed PURLs
PurlRows ==
  /\ Parents(purls) \subseteq purls
  /\ \A d \in rows : Targets(d) \subseteq purls
  /\ \A a \in rows \cap Advisories : BasesOf[a] \subseteq excuse.purls
  /\ \A n \in purls : \/ BaseOfNode(n) \in excuse.purls
                      \/ \E s \in rows \cap Sboms : n \in Closure(PurlsOf[s])

\* What the transaction of c adds and removes
PurlTx(c) ==
  /\ tx[c].fresh \subseteq NodesOf(doc[c])
  /\ Parents(tx[c].fresh) \subseteq purls \cup tx[c].fresh
  /\ pc[c] = "commit" /\ tx[c].ins => Targets(doc[c]) \subseteq purls \cup tx[c].fresh
  /\ \A n \in purls : Parents({n}) \cap tx[c].gone # {} => n \in tx[c].gone
  /\ \A d \in rows \ {doc[c]} : Targets(d) \cap tx[c].gone = {}
  /\ Deletes(c) /\ pc[c] \in {"sweep", "commit"} =>
       \A n \in purls \cap Closure(PurlsOf[doc[c]]) :
         n \in Leaving(c) \/ BaseOfNode(n) \in excuse.purls \/ Needed(n, doc[c])

\* What c refers to stays, and what two deletions share is excused.
PurlPair(c, e) ==
  /\ Shared(c) \cap tx[e].gone = {}
  /\ Deletes(c) /\ Deletes(e) =>
       Closure(PurlsOf[doc[c]]) \cap Closure(PurlsOf[doc[e]]) \cap Base \subseteq excuse.purls

PurlInv ==
  /\ PurlRows
  /\ \A c \in Clients : PurlTx(c)
  /\ \A c, e \in Clients : c # e => PurlPair(c, e)

-----------------------------------------------------------------------------
(* Types *)

LEMMA PurlTypes ==
  /\ \A q \in Qualified : VersionOf[q] \in Versioned
  /\ \A v \in Versioned : BaseOf[v] \in Base
  /\ \A d \in Sboms : PurlsOf[d] \subseteq Qualified
  /\ \A d \in Advisories : BasesOf[d] \subseteq Base /\ Identifier[d] \in Identifiers
  /\ Docs = Sboms \cup Advisories /\ Sboms \cap Advisories = {}
BY PurlAssumption, DocumentsAssumption DEF Identifiers, Docs

LEMMA NodesType ==
  /\ \A qs \in SUBSET Qualified : Closure(qs) \subseteq Nodes
  /\ \A ns \in SUBSET Nodes : Below(ns) \subseteq Nodes /\ Parents(ns) \subseteq Nodes
  /\ \A d \in Docs : NodesOf(d) \subseteq Nodes /\ Targets(d) \subseteq NodesOf(d)
  /\ \A n \in Nodes : BaseOfNode(n) \in Base
<1>1. \A qs \in SUBSET Qualified : Closure(qs) \subseteq Nodes
  BY PurlTypes DEF Closure, Nodes
<1>2. \A ns \in SUBSET Nodes : Below(ns) \subseteq Nodes /\ Parents(ns) \subseteq Nodes
  BY PurlTypes DEF Below, Parents, Nodes
<1>3. \A d \in Docs : NodesOf(d) \subseteq Nodes /\ Targets(d) \subseteq NodesOf(d)
  BY PurlTypes, <1>1 DEF NodesOf, Targets, Closure, Nodes
<1>4. \A n \in Nodes : BaseOfNode(n) \in Base
  BY PurlTypes DEF BaseOfNode, Nodes
<1> QED
  BY <1>1, <1>2, <1>3, <1>4

LEMMA MarksType ==
  /\ NoMarks \in Marks
  /\ \A f \in Marks : DOMAIN f \subseteq Advisories /\ f \in [DOMAIN f -> BOOLEAN]
  /\ \A S \in SUBSET Advisories : \A f : f \in [S -> BOOLEAN] => f \in Marks
  /\ \A S \in SUBSET Advisories : \A m : [a \in S |-> a # m] \in Marks
  /\ \A f \in Marks : \A V : [a \in DOMAIN f \cap V |-> f[a]] \in Marks
<1>1. \A S \in SUBSET Advisories : \A f : f \in [S -> BOOLEAN] => f \in Marks
  BY DEF Marks
<1>2. \A f \in Marks : DOMAIN f \subseteq Advisories /\ f \in [DOMAIN f -> BOOLEAN]
  BY DEF Marks
<1>3. NoMarks \in [{} -> BOOLEAN]
  BY DEF NoMarks
<1>4. NoMarks \in Marks
  BY <1>1, <1>3
<1>5. ASSUME NEW S \in SUBSET Advisories, NEW m PROVE [a \in S |-> a # m] \in Marks
  <2>1. [a \in S |-> a # m] \in [S -> BOOLEAN]
    OBVIOUS
  <2> QED
    BY <2>1, <1>1
<1>6. ASSUME NEW f \in Marks, NEW V PROVE [a \in DOMAIN f \cap V |-> f[a]] \in Marks
  <2>1. [a \in DOMAIN f \cap V |-> f[a]] \in [DOMAIN f \cap V -> BOOLEAN]
    BY <1>2
  <2>2. DOMAIN f \cap V \in SUBSET Advisories
    BY <1>2
  <2> QED
    BY <2>1, <2>2, <1>1
<1> QED
  BY <1>1, <1>2, <1>4, <1>5, <1>6

LEMMA NoTxType == NoTx \in Transaction
BY MarksType DEF NoTx, Transaction

LEMMA InitBase == Init => Base1
<1> SUFFICES ASSUME Init PROVE Base1
  OBVIOUS
<1>1. TypeOK
  <2>1. backend \in {"fs", "s3"} /\ corpus \subseteq Docs
    BY DocumentsAssumption DEF Init
  <2> QED
    BY <2>1, NoTxType DEF Init, TypeOK, NoDoc
<1>2. Phases
  BY DEF Init, Phases, Phase, NoTx, NoMarks
<1>3. Overlaps
  BY DEF Init, Overlaps, Active
<1>4. OneWriter
  BY DEF Init, OneWriter, NoTx
<1> QED
  BY <1>1, <1>2, <1>3, <1>4 DEF Base1

\* What a step of c leaves to the other handlers
LEMMA Frame ==
  ASSUME TypeOK, NEW c \in Clients, Step(c)
  PROVE  \A e \in Clients \ {c} :
           /\ pc'[e] = pc[e] /\ kind'[e] = kind[e] /\ doc'[e] = doc[e]
           /\ tx'[e] = tx[e] /\ got'[e] = got[e] /\ clash[e] \subseteq clash'[e]
<1> USE DEF TypeOK, Goto, Idle
<1>1. ASSUME NEW k, NEW d, Begin(c, k, d) PROVE \A e \in Clients \ {c} :
           /\ pc'[e] = pc[e] /\ kind'[e] = kind[e] /\ doc'[e] = doc[e]
           /\ tx'[e] = tx[e] /\ got'[e] = got[e] /\ clash[e] \subseteq clash'[e]
  BY <1>1 DEF Begin
<1>2. CASE Fail(c)
  BY <1>2 DEF Fail
<1>3. CASE StorePut(c) \/ StoreCreate(c) \/ StoreWrite(c)
  BY <1>3 DEF StorePut, StoreCreate, StoreWrite
<1>4. CASE CreateDoc(c) \/ Lookup(c) \/ CreatePurls(c) \/ CreateRefs(c)
  BY <1>4 DEF CreateDoc, Lookup, CreatePurls, CreateRefs
<1>5. CASE DeprecateSnapshot(c) \/ DeprecateMark(c)
  BY <1>5 DEF DeprecateSnapshot, DeprecateMark
<1>6. CASE Find(c) \/ DeleteRow(c) \/ DeleteSource(c)
  BY <1>6 DEF Find, DeleteRow, DeleteSource
<1>7. CASE GcSnapshot(c) \/ GcSweep(c)
  BY <1>7 DEF GcSnapshot, GcSweep
<1>8. CASE Unlink(c) \/ Commit(c)
  BY <1>8 DEF Unlink, Commit
<1>9. CASE Look(c) \/ Retrieve(c) \/ Answer(c)
  BY <1>9 DEF Look, Retrieve, Answer
<1> QED
  BY <1>1, <1>2, <1>3, <1>4, <1>5, <1>6, <1>7, <1>8, <1>9 DEF Step

\* The handler of c has ended, or goes on with its document.
Ends(c) ==
  /\ Goto(c, "idle")
  /\ kind' = [kind EXCEPT ![c] = "none"]
  /\ doc' = [doc EXCEPT ![c] = NoDoc]
  /\ tx' = [tx EXCEPT ![c] = NoTx]
  /\ got' = [got EXCEPT ![c] = "none"]
  /\ clash' = [clash EXCEPT ![c] = {}]

Stays(c) == kind' = kind /\ doc' = doc /\ clash' = clash

LEMMA EndsOrStays ==
  ASSUME TypeOK, NEW c \in Clients, Step(c)
  PROVE  \/ \E k \in {"upload", "delete", "download"}, d \in corpus : Begin(c, k, d)
         \/ pc[c] # "idle" /\ Ends(c)
         \/ pc[c] # "idle" /\ pc'[c] # "idle" /\ Stays(c)
<1> USE DEF TypeOK, Goto, Idle, Ends, Stays, NoDoc
<1>2. CASE Fail(c)
  BY <1>2 DEF Fail
<1>3. CASE StorePut(c) \/ StoreCreate(c) \/ StoreWrite(c)
  BY <1>3 DEF StorePut, StoreCreate, StoreWrite
<1>4. CASE CreateDoc(c) \/ Lookup(c) \/ CreatePurls(c) \/ CreateRefs(c)
  BY <1>4 DEF CreateDoc, Lookup, CreatePurls, CreateRefs
<1>5. CASE DeprecateSnapshot(c) \/ DeprecateMark(c)
  BY <1>5 DEF DeprecateSnapshot, DeprecateMark
<1>6. CASE Find(c) \/ DeleteRow(c) \/ DeleteSource(c)
  BY <1>6 DEF Find, DeleteRow, DeleteSource
<1>7. CASE GcSnapshot(c) \/ GcSweep(c)
  BY <1>7 DEF GcSnapshot, GcSweep
<1>8. CASE Unlink(c) \/ Commit(c)
  BY <1>8 DEF Unlink, Commit
<1>9. CASE Look(c) \/ Retrieve(c) \/ Answer(c)
  BY <1>9 DEF Look, Retrieve, Answer
<1> QED
  BY <1>2, <1>3, <1>4, <1>5, <1>6, <1>7, <1>8, <1>9 DEF Step

LEMMA OrphansType ==
  \A captured, refs, ps, statuses : Orphans(captured, ps, refs, statuses) \subseteq ps
BY DEF Orphans, OrphanedQualified, OrphanedVersioned, OrphanedBase

LEMMA TxStep ==
  ASSUME TypeOK, Phases, NEW c \in Clients, Step(c)
  PROVE  tx' \in [Clients -> Transaction]
<1>0. tx \in [Clients -> Transaction]
  BY DEF TypeOK
<1>t. tx[c] \in Transaction
  BY <1>0
<1>d. pc[c] # "idle" => doc[c] \in Docs
  BY DEF Phases, Phase
<1>x. purls \subseteq Nodes
  BY DEF TypeOK
<1>1. CASE tx' = tx \/ tx' = [tx EXCEPT ![c] = NoTx]
  BY <1>1, <1>0, NoTxType
<1>2. CASE CreateDoc(c)
  <2>1. tx' = tx \/ tx' = [tx EXCEPT ![c].ins = TRUE]
    BY <1>2 DEF CreateDoc
  <2>2. [tx EXCEPT ![c].ins = TRUE] \in [Clients -> Transaction]
    BY <1>0 DEF Transaction
  <2> QED
    BY <2>1, <2>2, <1>0
<1>3. CASE CreatePurls(c)
  <2>1. NodesOf(doc[c]) \ purls \in SUBSET Nodes
    BY <1>d, <1>3, NodesType DEF CreatePurls
  <2> QED
    BY <1>3, <1>0, <2>1 DEF CreatePurls, Transaction
<1>4. CASE DeprecateSnapshot(c)
  <2> DEFINE S == {a \in Visible(c) \cap Advisories : Identifier[a] = Identifier[doc[c]]}
  <2>1. \/ UNCHANGED tx
        \/ \E m \in MostRecent(S) : tx' = [tx EXCEPT ![c].plan = [a \in S |-> a # m]]
    BY <1>4 DEF DeprecateSnapshot
  <2> SUFFICES ASSUME NEW m, tx' = [tx EXCEPT ![c].plan = [a \in S |-> a # m]]
               PROVE  tx' \in [Clients -> Transaction]
    BY <2>1, <1>1
  <2>2. [a \in S |-> a # m] \in Marks
    BY MarksType
  <2> HIDE DEF S
  <2> QED
    BY <2>2, <1>0 DEF Transaction
<1>5. CASE DeprecateMark(c)
  <2> DEFINE f == [a \in DOMAIN tx[c].plan \cap Visible(c) |-> tx[c].plan[a]]
  <2>1. f \in Marks
    BY <1>t, MarksType DEF Transaction
  <2>2. tx' = [tx EXCEPT ![c].marks = f, ![c].plan = NoMarks]
    BY <1>5 DEF DeprecateMark
  <2> HIDE DEF f
  <2> DEFINE u == [tx EXCEPT ![c].marks = f]
  <2>3. u \in [Clients -> Transaction]
    BY <2>1, <1>0 DEF Transaction
  <2>4. tx' = [u EXCEPT ![c].plan = NoMarks]
    BY <2>2, <1>0
  <2> HIDE DEF u
  <2> QED
    BY <2>3, <2>4, MarksType DEF Transaction
<1>6. CASE Find(c)
  <2> DEFINE S == IF doc[c] \in Sboms THEN PurlsOf[doc[c]] ELSE {}
  <2>1. S \in SUBSET Nodes
    BY PurlTypes DEF Nodes
  <2>2. tx' = [tx EXCEPT ![c].ids = S] \/ tx' = [tx EXCEPT ![c] = NoTx]
    BY <1>6 DEF Find, Idle
  <2> HIDE DEF S
  <2> QED
    BY <2>1, <2>2, <1>0, <1>1 DEF Transaction
<1>7. CASE DeleteRow(c)
  <2>1. tx' = [tx EXCEPT ![c].delRow = TRUE] \/ tx' = [tx EXCEPT ![c] = NoTx]
    BY <1>7 DEF DeleteRow, Idle
  <2> QED
    BY <2>1, <1>0, <1>1 DEF Transaction
<1>8. CASE DeleteSource(c)
  BY <1>8, <1>0 DEF DeleteSource, Transaction
<1>9. CASE GcSnapshot(c)
  <2>1. PICK S : S \subseteq purls /\ tx' = [tx EXCEPT ![c].ids = S]
    BY <1>9, OrphansType DEF GcSnapshot
  <2> QED
    BY <2>1, <1>x, <1>0 DEF Transaction
<1>10. CASE GcSweep(c)
  <2>1. Sweep(c) \in SUBSET Nodes
    BY <1>x DEF Sweep
  <2> DEFINE u == [tx EXCEPT ![c].gone = Sweep(c)]
  <2>2. u \in [Clients -> Transaction]
    BY <2>1, <1>0 DEF Transaction
  <2>3. tx' = [u EXCEPT ![c].ids = {}]
    BY <1>10, <1>0 DEF GcSweep
  <2> HIDE DEF u
  <2> QED
    BY <2>2, <2>3 DEF Transaction
<1> QED
  BY <1>1, <1>2, <1>3, <1>4, <1>5, <1>6, <1>7, <1>8, <1>9, <1>10
     DEF Step, Begin, Fail, Idle, StorePut, StoreCreate, StoreWrite, Lookup, CreateRefs,
         Unlink, Commit, Look, Retrieve, Answer

LEMMA VisibleType ==
  ASSUME TypeOK, Phases, NEW c \in Clients, pc[c] # "idle" PROVE Visible(c) \subseteq Docs
BY DEF TypeOK, Phases, Phase, Visible

LEMMA MostRecentIn == \A S : MostRecent(S) \subseteq S
BY DEF MostRecent

\* Only a commit changes the rows.
LEMMA OnlyCommit ==
  ASSUME NEW c \in Clients, Step(c), ~ Commit(c) PROVE UNCHANGED <<rows, dep, purls>>
BY DEF Step, Begin, Fail, StorePut, StoreCreate, StoreWrite, CreateDoc, Lookup, CreatePurls,
       CreateRefs, DeprecateSnapshot, DeprecateMark, Find, DeleteRow, DeleteSource, GcSnapshot,
       GcSweep, Unlink, Look, Retrieve, Answer

\* What becomes of the excuses otherwise
LEMMA OtherExcuses ==
  ASSUME NEW c \in Clients, Step(c), ~ Commit(c),
         ~ \E k \in {"upload", "delete", "download"}, d \in corpus : Begin(c, k, d)
  PROVE  \/ excuse' = excuse
         \/ pc[c] = "write" /\ excuse' = [excuse EXCEPT !.blob = @ \cup {doc[c]}]
         \/ excuse' = [excuse EXCEPT !.blob = @ \ {doc[c]}]
BY DEF Step, Fail, StorePut, StoreCreate, StoreWrite, Stored, CreateDoc, Lookup, CreatePurls,
       CreateRefs, DeprecateSnapshot, DeprecateMark, Find, DeleteRow, DeleteSource, GcSnapshot,
       GcSweep, Unlink, Look, Retrieve, Answer

LEMMA TypeStep == ASSUME TypeOK, Phases, NEW c \in Clients, Step(c) PROVE TypeOK'
<1> USE DEF Goto, Idle, UploadSteps, DeleteSteps, DownloadSteps
<1>t. tx' \in [Clients -> Transaction]
  BY TxStep
<1>d. pc[c] # "idle" => doc[c] \in Docs
  BY DEF Phases, Phase
<1>e. excuse \in [blob : SUBSET Docs, current : SUBSET Identifiers, purls : SUBSET Base]
  BY DEF TypeOK
<1>i. Docs = Sboms \cup Advisories /\ \A a \in Advisories : Identifier[a] \in Identifiers
  BY PurlTypes
<1>1. ASSUME NEW k \in {"upload", "delete", "download"}, NEW d \in corpus, Begin(c, k, d)
      PROVE  TypeOK'
  <2>1. clash' \in [Clients -> SUBSET {"blob", "read", "current", "purls"}]
    <3>1. \A k1, k2, d1, d2 : Clashes(k1, d1, k2, d2) \subseteq {"blob", "read", "current", "purls"}
      BY DEF Clashes
    <3> QED
      BY <1>1, <3>1 DEF Begin, TypeOK
  <2>2. excuse' \in [blob : SUBSET Docs, current : SUBSET Identifiers, purls : SUBSET Base]
    <3>1. d \in Docs /\ ("current" \in clash'[c] => d \in Advisories)
      BY <1>1 DEF Begin, Clashes, TypeOK
    <3>2. {Identifier[x] : x \in {y \in {d} : "current" \in clash'[c]}} \subseteq Identifiers
      BY <3>1, <1>i
    <3>3. UNION {Closure(PurlsOf[x]) \cap Base : x \in {y \in {d} : "purls" \in clash'[c]}}
            \subseteq Base
      OBVIOUS
    <3>4. excuse' = Excused(d, clash'[c])
      BY <1>1 DEF Begin
    <3> QED
      BY <3>1, <3>2, <3>3, <3>4, <1>e DEF Excused
  <2> QED
    BY <1>1, <2>1, <2>2, <1>t DEF Begin, First, TypeOK
<1> SUFFICES ASSUME ~ \E k \in {"upload", "delete", "download"}, d \in corpus : Begin(c, k, d)
             PROVE  TypeOK'
  BY <1>1
<1>2. /\ kind' \in [Clients -> {"none", "upload", "delete", "download"}]
      /\ doc' \in [Clients -> Docs \cup {NoDoc}]
      /\ clash' \in [Clients -> SUBSET {"blob", "read", "current", "purls"}]
  BY EndsOrStays DEF Ends, Stays, TypeOK
<1>3. /\ UNCHANGED <<backend, corpus>>
      /\ pc' \in [Clients -> {"idle"} \cup UploadSteps \cup DeleteSteps \cup DownloadSteps]
  <2>0. pc \in [Clients -> {"idle"} \cup UploadSteps \cup DeleteSteps \cup DownloadSteps]
    BY DEF TypeOK
  <2>1. CASE Fail(c) \/ StorePut(c) \/ StoreCreate(c) \/ StoreWrite(c) \/ CreateDoc(c) \/ Lookup(c)
    BY <2>0, <2>1 DEF Fail, StorePut, StoreCreate, StoreWrite, CreateDoc, Lookup
  <2>2. CASE CreatePurls(c) \/ CreateRefs(c) \/ DeprecateSnapshot(c) \/ DeprecateMark(c)
    BY <2>0, <2>2 DEF CreatePurls, CreateRefs, DeprecateSnapshot, DeprecateMark
  <2>3. CASE Find(c) \/ DeleteRow(c) \/ DeleteSource(c) \/ GcSnapshot(c) \/ GcSweep(c)
    BY <2>0, <2>3 DEF Find, DeleteRow, DeleteSource, GcSnapshot, GcSweep
  <2>4. CASE Unlink(c) \/ Commit(c) \/ Look(c) \/ Retrieve(c) \/ Answer(c)
    BY <2>0, <2>4 DEF Unlink, Commit, Look, Retrieve, Answer
  <2> QED
    BY <2>1, <2>2, <2>3, <2>4 DEF Step
<1>4. intact' \in [Clients -> BOOLEAN]
  <2>0. intact \in [Clients -> BOOLEAN]
    BY DEF TypeOK
  <2>1. CASE StoreCreate(c)
    BY <2>0, <2>1 DEF StoreCreate
  <2>2. CASE Unlink(c)
    BY <2>0, <2>2 DEF Unlink
  <2>3. CASE intact' = intact \/ intact' = [intact EXCEPT ![c] = FALSE]
    BY <2>0, <2>3
  <2>4. CASE Fail(c) \/ StorePut(c) \/ StoreWrite(c) \/ CreateDoc(c) \/ Lookup(c)
    BY <2>3, <2>4 DEF Fail, StorePut, StoreWrite, CreateDoc, Lookup
  <2>5. CASE CreatePurls(c) \/ CreateRefs(c) \/ DeprecateSnapshot(c) \/ DeprecateMark(c)
    BY <2>3, <2>5 DEF CreatePurls, CreateRefs, DeprecateSnapshot, DeprecateMark
  <2>6. CASE Find(c) \/ DeleteRow(c) \/ DeleteSource(c) \/ GcSnapshot(c) \/ GcSweep(c)
    BY <2>3, <2>6 DEF Find, DeleteRow, DeleteSource, GcSnapshot, GcSweep
  <2>7. CASE Commit(c) \/ Look(c) \/ Retrieve(c) \/ Answer(c)
    BY <2>3, <2>7 DEF Commit, Look, Retrieve, Answer
  <2> QED
    BY <2>1, <2>2, <2>4, <2>5, <2>6, <2>7 DEF Step
<1>5. /\ blob' \in [Docs -> {"absent", "partial", "full"}]
      /\ got' \in [Clients -> {"none", "absent", "partial", "full"}]
  <2>0. /\ blob \in [Docs -> {"absent", "partial", "full"}]
        /\ got \in [Clients -> {"none", "absent", "partial", "full"}]
    BY DEF TypeOK
  <2>1. CASE Fail(c) \/ StorePut(c) \/ StoreCreate(c) \/ StoreWrite(c) \/ CreateDoc(c) \/ Lookup(c)
    BY <2>0, <2>1 DEF Fail, StorePut, StoreCreate, StoreWrite, CreateDoc, Lookup
  <2>2. CASE CreatePurls(c) \/ CreateRefs(c) \/ DeprecateSnapshot(c) \/ DeprecateMark(c)
    BY <2>0, <2>2 DEF CreatePurls, CreateRefs, DeprecateSnapshot, DeprecateMark
  <2>3. CASE Find(c) \/ DeleteRow(c) \/ DeleteSource(c) \/ GcSnapshot(c) \/ GcSweep(c)
    BY <2>0, <2>3 DEF Find, DeleteRow, DeleteSource, GcSnapshot, GcSweep
  <2>4. CASE Unlink(c) \/ Commit(c) \/ Look(c) \/ Retrieve(c) \/ Answer(c)
    BY <2>0, <2>4, <1>d DEF Unlink, Commit, Look, Retrieve, Answer
  <2> QED
    BY <2>1, <2>2, <2>3, <2>4 DEF Step
<1>6. CASE ~ Commit(c)
  <2>1. UNCHANGED <<rows, dep, purls>>
    BY <1>6, OnlyCommit
  <2>2. excuse' \in [blob : SUBSET Docs, current : SUBSET Identifiers, purls : SUBSET Base]
    BY <1>6, <1>d, <1>e, OtherExcuses
  <2> QED
    BY <1>t, <1>2, <1>3, <1>4, <1>5, <2>1, <2>2 DEF TypeOK
<1>7. CASE Commit(c)
  <2> DEFINE t == tx[c]
  <2>1. t \in Transaction /\ DOMAIN t.marks \subseteq Advisories /\ doc[c] \in Docs
    BY <1>7, <1>d, MarksType DEF Commit, Transaction, TypeOK
  <2>2. rows' = Visible(c) /\ rows' \subseteq Docs
    BY <1>7, VisibleType DEF Commit
  <2>3. dep' \subseteq rows' \cap Advisories
    BY <1>7, <2>1, <2>2 DEF Commit, TypeOK
  <2>4. purls' \subseteq Nodes
    BY <1>7, <2>1 DEF Commit, Transaction, TypeOK
  <2>5. excuse' \in [blob : SUBSET Docs, current : SUBSET Identifiers, purls : SUBSET Base]
    <3> DEFINE S == excuse.current \
                      {Identifier[a] : a \in {x \in {doc[c]} : t.marks # NoMarks /\ "current" \notin clash[c]}}
               B == {b \in excuse.purls \cup (IF doc[c] \in Advisories THEN BasesOf[doc[c]] ELSE {}) :
                       b \in purls' \/ \E e \in Clients : b \in Contested(e)}
    <3>1. S \subseteq Identifiers /\ B \subseteq Base
      BY PurlTypes, <1>e
    <3>2. excuse' = [excuse EXCEPT !.current = S, !.purls = B]
      BY <1>7 DEF Commit
    <3> HIDE DEF S, B
    <3> QED
      BY <3>1, <3>2, <1>e
  <2> QED
    BY <1>t, <1>2, <1>3, <1>4, <1>5, <2>2, <2>3, <2>4, <2>5 DEF TypeOK
<1> QED
  BY <1>6, <1>7

-----------------------------------------------------------------------------
(* Control *)

LEMMA PhasesStep == ASSUME TypeOK, Phases, NEW c \in Clients, Step(c) PROVE Phases'
<1> SUFFICES Phase(pc'[c], kind'[c], doc'[c], tx'[c])
  BY Frame DEF Phases
<1> USE DEF Goto, Phase
<1>0. /\ pc \in [Clients -> {"idle"} \cup UploadSteps \cup DeleteSteps \cup DownloadSteps]
      /\ kind \in [Clients -> {"none", "upload", "delete", "download"}]
      /\ doc \in [Clients -> Docs \cup {NoDoc}]
      /\ tx \in [Clients -> Transaction]
      /\ corpus \subseteq Docs
  BY DEF TypeOK
<1>p. Phase(pc[c], kind[c], doc[c], tx[c])
  BY DEF Phases
<1>t. tx[c] \in Transaction
  BY <1>0
<1>d. Docs = Sboms \cup Advisories /\ Sboms \cap Advisories = {}
  BY PurlTypes
<1> USE DEF UploadSteps, DeleteSteps, DownloadSteps
<1>1. ASSUME NEW k \in {"upload", "delete", "download"}, NEW d \in corpus, Begin(c, k, d)
      PROVE  Phase(pc'[c], kind'[c], doc'[c], tx'[c])
  <2>1. /\ pc'[c] = First(k) /\ kind'[c] = k /\ doc'[c] = d /\ tx' = tx
        /\ pc[c] = "idle" /\ d \in Docs
    BY <1>0, <1>1 DEF Begin
  <2>2. First(k) = IF k = "upload" THEN "store" ELSE IF k = "delete" THEN "find" ELSE "look"
    BY DEF First
  <2>3. ~ tx[c].ins /\ ~ tx[c].delRow /\ tx[c].fresh = {} /\ tx[c].gone = {}
    BY <1>p, <2>1
  <2>4. tx[c].plan = NoMarks /\ tx[c].marks = NoMarks /\ DOMAIN NoMarks = {}
    BY <1>p, <2>1, <2>3 DEF NoMarks
  <2> QED
    BY <2>1, <2>2, <2>3, <2>4
<1>2. CASE Ends(c)
  BY <1>0, <1>2 DEF Ends, NoTx, NoMarks
<1>3. CASE StorePut(c) \/ StoreCreate(c) \/ StoreWrite(c)
  <2>1. /\ pc[c] \in {"store", "write"} /\ pc'[c] \in {"write", "insert"}
        /\ kind' = kind /\ doc' = doc /\ tx' = tx
    BY <1>0, <1>3 DEF StorePut, StoreCreate, StoreWrite
  <2>2. /\ kind[c] = "upload" /\ ~ tx[c].ins /\ ~ tx[c].delRow /\ tx[c].fresh = {} /\ tx[c].gone = {}
        /\ tx[c].plan = NoMarks /\ tx[c].marks = NoMarks
    BY <1>0, <1>p, <2>1
  <2>3. doc[c] \in Docs /\ kind'[c] = "upload" /\ doc'[c] = doc[c] /\ tx'[c] = tx[c] /\ DOMAIN NoMarks = {}
    BY <1>p, <2>1, <2>2 DEF NoMarks
  <2> QED
    BY <2>1, <2>2, <2>3
<1>4. CASE CreateDoc(c)
  <2>1. /\ pc[c] = "insert" /\ kind' = kind /\ doc' = doc
        /\ \/ pc'[c] = "lookup" /\ tx' = tx
           \/ /\ pc'[c] = IF doc[c] \in Sboms THEN "purls" ELSE "snapshot"
              /\ tx' = [tx EXCEPT ![c].ins = TRUE]
    BY <1>0, <1>4 DEF CreateDoc
  <2>2. kind[c] = "upload" /\ doc[c] \in Docs /\ ~ tx[c].delRow
    BY <1>0, <1>p, <2>1
  <2>3. CASE pc'[c] = "lookup" /\ tx' = tx
    BY <1>p, <2>1, <2>2, <2>3
  <2>4. CASE /\ pc'[c] = IF doc[c] \in Sboms THEN "purls" ELSE "snapshot"
             /\ tx' = [tx EXCEPT ![c].ins = TRUE]
    <3>1. /\ tx'[c].ins = TRUE /\ tx'[c].delRow = tx[c].delRow /\ tx'[c].gone = tx[c].gone
          /\ tx'[c].fresh = tx[c].fresh /\ tx'[c].marks = tx[c].marks /\ tx'[c].plan = tx[c].plan
      BY <1>0, <2>4 DEF Transaction
    <3>2. tx[c].marks = NoMarks /\ tx[c].plan = NoMarks /\ tx[c].fresh = {} /\ tx[c].gone = {}
      BY <1>p, <2>1, <2>2
    <3>3. DOMAIN NoMarks = {}
      BY DEF NoMarks
    <3>4. pc'[c] \in {"purls", "snapshot"} /\ (pc'[c] = "snapshot" => doc[c] \in Advisories)
      BY <1>d, <2>2, <2>4
    <3> QED
      BY <2>1, <2>2, <3>1, <3>2, <3>3, <3>4
  <2> QED
    BY <2>1, <2>3, <2>4
<1>5. CASE Lookup(c)
  BY <1>0, <1>p, <1>5 DEF Lookup
<1>6. CASE CreatePurls(c)
  <2>1. /\ pc[c] = "purls" /\ pc'[c] = "refs" /\ kind' = kind /\ doc' = doc
        /\ \E S : tx' = [tx EXCEPT ![c].fresh = S]
    BY <1>0, <1>6 DEF CreatePurls
  <2>2. /\ tx'[c].ins = tx[c].ins /\ tx'[c].delRow = tx[c].delRow /\ tx'[c].gone = tx[c].gone
        /\ tx'[c].plan = tx[c].plan /\ tx'[c].marks = tx[c].marks /\ tx'[c].ids = tx[c].ids
    BY <1>0, <2>1 DEF Transaction
  <2> QED
    BY <1>0, <1>p, <2>1, <2>2
<1>7. CASE CreateRefs(c)
  BY <1>0, <1>p, <1>7 DEF CreateRefs
<1>8. CASE DeprecateSnapshot(c)
  <2> DEFINE S == {a \in Visible(c) \cap Advisories : Identifier[a] = Identifier[doc[c]]}
  <2>1. /\ pc[c] = "snapshot" /\ pc'[c] = "mark" /\ kind' = kind /\ doc' = doc
        /\ \/ tx' = tx
           \/ \E f : DOMAIN f = S /\ tx' = [tx EXCEPT ![c].plan = f]
    BY <1>0, <1>8 DEF DeprecateSnapshot
  <2> HIDE DEF S
  <2>2. /\ tx'[c].ins = tx[c].ins /\ tx'[c].delRow = tx[c].delRow /\ tx'[c].gone = tx[c].gone
        /\ tx'[c].fresh = tx[c].fresh /\ tx'[c].marks = tx[c].marks /\ tx'[c].ids = tx[c].ids
    BY <1>0, <2>1 DEF Transaction
  <2>3. tx'[c].plan = tx[c].plan \/ DOMAIN tx'[c].plan = S
    BY <1>0, <2>1 DEF Transaction
  <2>4. \A a \in S : Identifier[a] = Identifier[doc[c]]
    BY DEF S
  <2> QED
    BY <1>0, <1>p, <2>1, <2>2, <2>3, <2>4
<1>9. CASE DeprecateMark(c)
  <2>1. /\ pc[c] = "mark" /\ pc'[c] = IF kind[c] = "upload" THEN "purls" ELSE "source"
        /\ kind' = kind /\ doc' = doc
        /\ tx' = [tx EXCEPT ![c].marks = [a \in DOMAIN tx[c].plan \cap Visible(c) |-> tx[c].plan[a]],
                            ![c].plan = NoMarks]
    BY <1>0, <1>9 DEF DeprecateMark
  <2>2. /\ tx'[c].ins = tx[c].ins /\ tx'[c].delRow = tx[c].delRow /\ tx'[c].gone = tx[c].gone
        /\ tx'[c].fresh = tx[c].fresh /\ tx'[c].ids = tx[c].ids /\ tx'[c].plan = NoMarks
        /\ tx'[c].marks = [a \in DOMAIN tx[c].plan \cap Visible(c) |-> tx[c].plan[a]]
    BY <1>0, <2>1 DEF Transaction
  <2>3. DOMAIN tx'[c].marks \subseteq DOMAIN tx[c].plan /\ DOMAIN NoMarks = {}
    BY <2>2 DEF NoMarks
  <2>4. doc[c] \in Advisories /\ doc[c] \notin Sboms /\ (tx[c].ins \/ tx[c].delRow)
    BY <1>0, <1>p, <1>d, <2>1
  <2> QED
    BY <1>0, <1>p, <2>1, <2>2, <2>3, <2>4
<1>10. CASE Find(c) /\ ~ Ends(c)
  <2> DEFINE S == IF doc[c] \in Sboms THEN PurlsOf[doc[c]] ELSE {}
  <2>1. /\ pc[c] = "find" /\ pc'[c] = "delete" /\ kind' = kind /\ doc' = doc
        /\ tx' = [tx EXCEPT ![c].ids = S]
    BY <1>0, <1>10 DEF Find, Idle, Ends, NoDoc
  <2> HIDE DEF S
  <2>2. /\ tx'[c].ins = tx[c].ins /\ tx'[c].delRow = tx[c].delRow /\ tx'[c].gone = tx[c].gone
        /\ tx'[c].fresh = tx[c].fresh /\ tx'[c].marks = tx[c].marks /\ tx'[c].plan = tx[c].plan
        /\ tx'[c].ids = S
    BY <1>0, <2>1 DEF Transaction
  <2>3. S = IF doc[c] \in Sboms THEN PurlsOf[doc[c]] ELSE {}
    BY DEF S
  <2>4. /\ kind[c] = "delete" /\ ~ tx[c].ins /\ ~ tx[c].delRow /\ tx[c].fresh = {} /\ tx[c].gone = {}
        /\ tx[c].plan = NoMarks /\ tx[c].marks = NoMarks
    BY <1>0, <1>p, <2>1
  <2>5. doc[c] \in Docs /\ kind'[c] = "delete" /\ doc'[c] = doc[c] /\ DOMAIN NoMarks = {}
    BY <1>p, <2>1, <2>4 DEF NoMarks
  <2> QED
    BY <2>1, <2>2, <2>3, <2>4, <2>5
<1>11. CASE DeleteRow(c) /\ ~ Ends(c)
  <2>1. /\ pc[c] = "delete" /\ kind' = kind /\ doc' = doc
        /\ pc'[c] = IF doc[c] \in Sboms THEN "source" ELSE "snapshot"
        /\ tx' = [tx EXCEPT ![c].delRow = TRUE]
    BY <1>0, <1>11 DEF DeleteRow, Idle, Ends, NoDoc
  <2>2. kind[c] = "delete" /\ doc[c] \in Docs /\ ~ tx[c].ins /\ ~ tx[c].delRow
    BY <1>0, <1>p, <2>1
  <2>3. /\ tx'[c].delRow = TRUE /\ tx'[c].ins = tx[c].ins /\ tx'[c].gone = tx[c].gone
        /\ tx'[c].fresh = tx[c].fresh /\ tx'[c].marks = tx[c].marks /\ tx'[c].plan = tx[c].plan
        /\ tx'[c].ids = tx[c].ids
    BY <1>0, <2>1 DEF Transaction
  <2>4. tx[c].marks = NoMarks /\ tx[c].plan = NoMarks /\ tx[c].fresh = {} /\ tx[c].gone = {}
    BY <1>p, <2>1, <2>2
  <2>5. DOMAIN NoMarks = {}
    BY DEF NoMarks
  <2>6. pc'[c] \in {"source", "snapshot"} /\ (pc'[c] = "snapshot" => doc[c] \in Advisories)
    BY <1>d, <2>1, <2>2
  <2> QED
    BY <1>p, <2>1, <2>2, <2>3, <2>4, <2>5, <2>6
<1>12. CASE DeleteSource(c)
  BY <1>0, <1>p, <1>t, <1>d, <1>12 DEF DeleteSource, Transaction
<1>13. CASE GcSnapshot(c)
  BY <1>0, <1>p, <1>t, <1>13 DEF GcSnapshot, Transaction
<1>14. CASE GcSweep(c)
  BY <1>0, <1>p, <1>t, <1>14 DEF GcSweep, Transaction
<1>15. CASE Commit(c) /\ ~ Ends(c)
  BY <1>0, <1>p, <1>15 DEF Commit, Idle, Ends, NoDoc, NoTx, NoMarks
<1>16. CASE Look(c) /\ ~ Ends(c)
  BY <1>0, <1>p, <1>16 DEF Look, Idle, Ends, NoDoc
<1>17. CASE Retrieve(c)
  BY <1>0, <1>p, <1>17 DEF Retrieve
<1>18. Fail(c) \/ Answer(c) \/ Unlink(c) => Ends(c)
  BY DEF Fail, Answer, Unlink, Idle, Ends, NoDoc
<1> QED
  BY <1>1, <1>2, <1>3, <1>4, <1>5, <1>6, <1>7, <1>8, <1>9, <1>10, <1>11, <1>12, <1>13,
     <1>14, <1>15, <1>16, <1>17, <1>18 DEF Step

LEMMA ClashesSymmetric ==
  \A k, k2, d, d2 : Clashes(k, d, k2, d2) \ {"read"} = Clashes(k2, d2, k, d) \ {"read"}
BY DEF Clashes

LEMMA OverlapsStep ==
  ASSUME TypeOK, Phases, Overlaps, NEW c \in Clients, Step(c) PROVE Overlaps'
<1>0. /\ pc \in [Clients -> {"idle"} \cup UploadSteps \cup DeleteSteps \cup DownloadSteps]
      /\ kind \in [Clients -> {"none", "upload", "delete", "download"}]
      /\ doc \in [Clients -> Docs \cup {NoDoc}]
      /\ clash \in [Clients -> SUBSET {"blob", "read", "current", "purls"}]
      /\ corpus \subseteq Docs
  BY DEF TypeOK
<1>a. \A e \in Clients : Active(e) <=> pc[e] # "idle"
  BY DEF Phases, Phase, Active
<1>1. ASSUME NEW k \in {"upload", "delete", "download"}, NEW d \in corpus, Begin(c, k, d)
      PROVE  Overlaps'
  <2>1. /\ kind'[c] = k /\ doc'[c] = d
        /\ \A e \in Clients \ {c} : kind'[e] = kind[e] /\ doc'[e] = doc[e]
    BY <1>0, <1>1 DEF Begin
  <2>2. /\ clash'[c] = UNION {Clashes(k, d, kind[o], doc[o]) : o \in Others(c)}
        /\ \A e \in Clients \ {c} :
             clash'[e] = clash[e] \cup (IF e \in Others(c) THEN Clashes(kind[e], doc[e], k, d) ELSE {})
    BY <1>1 DEF Begin
  <2>3. Others(c) = {e \in Clients \ {c} : Active(e)}
    BY <1>a DEF Others
  <2>4. ASSUME NEW a \in Clients, NEW e \in Clients, a # e, Active(a)', Active(e)'
        PROVE  Clashes(kind'[a], doc'[a], kind'[e], doc'[e]) \subseteq clash'[a]
    <3>1. CASE a = c
      BY <2>1, <2>2, <2>3, <2>4, <3>1 DEF Active
    <3>2. CASE e = c
      BY <2>1, <2>2, <2>3, <2>4, <3>2 DEF Active
    <3>3. CASE c \notin {a, e}
      BY <2>1, <2>2, <2>4, <3>3 DEF Active, Overlaps
    <3> QED
      BY <3>1, <3>2, <3>3
  <2>5. ASSUME NEW a \in Clients
        PROVE  /\ "blob" \in clash'[a] => kind'[a] \in {"upload", "delete"}
               /\ "current" \in clash'[a] => kind'[a] \in {"upload", "delete"} /\ doc'[a] \in Advisories
               /\ "purls" \in clash'[a] => kind'[a] = "delete" /\ doc'[a] \in Sboms
    <3>1. \A k1, k2, d1, d2 :
            /\ "blob" \in Clashes(k1, d1, k2, d2) => k1 \in {"upload", "delete"}
            /\ "current" \in Clashes(k1, d1, k2, d2) => k1 # "download" /\ d1 \in Advisories
            /\ "purls" \in Clashes(k1, d1, k2, d2) => k1 = "delete" /\ d1 \in Sboms
      BY DEF Clashes
    <3>2. CASE a = c
      BY <2>1, <2>2, <3>1, <3>2
    <3>3. CASE a # c
      BY <1>0, <2>1, <2>2, <2>3, <3>1, <3>3 DEF Overlaps, Active
    <3> QED
      BY <3>2, <3>3
  <2> QED
    BY <2>4, <2>5 DEF Overlaps
<1>2. CASE Ends(c)
  BY <1>0, <1>2, Frame DEF Ends, Overlaps, Active
<1>3. CASE Stays(c)
  BY <1>3 DEF Stays, Overlaps, Active
<1> QED
  BY <1>1, <1>2, <1>3, EndsOrStays

LEMMA OneWriterStep ==
  ASSUME Base1, NEW c \in Clients, Step(c), Phases' PROVE OneWriter'
<1>0. /\ kind \in [Clients -> {"none", "upload", "delete", "download"}]
      /\ doc \in [Clients -> Docs \cup {NoDoc}]
      /\ tx \in [Clients -> Transaction]
  BY DEF Base1, TypeOK
<1>p. \A e \in Clients : Phase(pc[e], kind[e], doc[e], tx[e])
  BY DEF Base1, Phases
<1>f. \A e \in Clients \ {c} : pc'[e] = pc[e] /\ doc'[e] = doc[e] /\ tx'[e] = tx[e]
  BY Frame DEF Base1
<1>o. OneWriter
  BY DEF Base1
<1>1. CASE Begin(c, kind'[c], doc'[c])
  <2>1. rows' = rows /\ tx' = tx /\ ~ tx[c].ins /\ ~ tx[c].delRow
    BY <1>1, <1>p DEF Begin, Phase
  <2> QED
    BY <1>f, <1>o, <2>1 DEF OneWriter
<1>2. CASE CreateDoc(c)
  <2>1. \A e \in Clients \ {c} : doc[e] = doc[c] => ~ tx[e].ins
    BY <1>2, <1>p DEF CreateDoc, DigestBusy, Others, Phase
  <2>2. rows' = rows /\ doc' = doc /\ (tx' = tx \/ (doc[c] \notin rows /\ tx' = [tx EXCEPT ![c].ins = TRUE]))
    BY <1>2 DEF CreateDoc
  <2>3. tx'[c].delRow = tx[c].delRow
    BY <1>0, <2>2 DEF Transaction
  <2> QED
    BY <1>0, <1>f, <1>o, <2>1, <2>2, <2>3 DEF OneWriter
<1>3. CASE DeleteRow(c)
  <2>1. \A e \in Clients \ {c} : doc[e] = doc[c] => ~ tx[e].delRow
    BY <1>3, <1>p DEF DeleteRow, LockedRows, Others, Phase
  <2>2. rows' = rows
    BY <1>3 DEF DeleteRow
  <2>3. CASE doc[c] \in rows
    <3>1. doc' = doc /\ tx' = [tx EXCEPT ![c].delRow = TRUE]
      BY <1>3, <2>3 DEF DeleteRow
    <3>2. tx'[c].ins = tx[c].ins
      BY <1>0, <3>1 DEF Transaction
    <3> QED
      BY <1>0, <1>f, <1>o, <2>1, <2>2, <2>3, <3>1, <3>2 DEF OneWriter
  <2>4. CASE doc[c] \notin rows
    <3>1. tx'[c] = NoTx
      BY <1>0, <1>3, <2>4 DEF DeleteRow, Idle
    <3> QED
      BY <1>f, <1>o, <2>2, <3>1 DEF OneWriter, NoTx
  <2> QED
    BY <2>3, <2>4
<1>4. CASE Commit(c)
  <2>1. tx'[c] = NoTx
    BY <1>0, <1>4 DEF Commit, Idle
  <2>2. ASSUME NEW e \in Clients \ {c}
        PROVE  /\ tx[e].ins => doc[e] \notin rows'
               /\ tx[e].delRow => doc[e] \in rows'
    <3>1. rows' = (rows \cup {d \in {doc[c]} : tx[c].ins}) \ {d \in {doc[c]} : tx[c].delRow}
      BY <1>4 DEF Commit, Visible
    <3> QED
      BY <1>o, <3>1 DEF OneWriter
  <2> QED
    BY <1>f, <1>o, <2>1, <2>2 DEF OneWriter, NoTx
<1>5. CASE Ends(c) /\ ~ Commit(c)
  BY <1>0, <1>f, <1>o, <1>5, OnlyCommit DEF Ends, NoTx, OneWriter
<1>6. CASE Stays(c) /\ tx'[c].ins = tx[c].ins /\ tx'[c].delRow = tx[c].delRow /\ ~ Commit(c)
  BY <1>f, <1>o, <1>6, OnlyCommit DEF Stays, OneWriter
<1>7. CASE ~ (CreateDoc(c) \/ DeleteRow(c) \/ Commit(c) \/ Ends(c) \/ \E k, d : Begin(c, k, d))
  <2>1. Stays(c)
    BY <1>7, EndsOrStays DEF Base1
  <2>2. tx'[c].ins = tx[c].ins /\ tx'[c].delRow = tx[c].delRow
    <3>1. CASE tx' = tx
      BY <3>1
    <3>2. CASE CreatePurls(c)
      BY <1>0, <3>2 DEF CreatePurls, Transaction
    <3>3. CASE DeprecateSnapshot(c)
      BY <1>0, <3>3 DEF DeprecateSnapshot, Transaction
    <3>4. CASE DeprecateMark(c)
      BY <1>0, <3>4 DEF DeprecateMark, Transaction
    <3>5. CASE Find(c)
      BY <1>0, <1>7, <3>5 DEF Find, Idle, Ends, NoDoc, Transaction
    <3>6. CASE DeleteSource(c)
      BY <1>0, <3>6 DEF DeleteSource, Transaction
    <3>7. CASE GcSnapshot(c)
      BY <1>0, <3>7 DEF GcSnapshot, Transaction
    <3>8. CASE GcSweep(c)
      BY <1>0, <3>8 DEF GcSweep, Transaction
    <3> QED
      BY <1>7, <3>1, <3>2, <3>3, <3>4, <3>5, <3>6, <3>7, <3>8
         DEF Step, Fail, Idle, Ends, NoDoc, StorePut, StoreCreate, StoreWrite, Lookup, CreateRefs,
             Unlink, Look, Retrieve, Answer
  <2> QED
    BY <1>6, <1>7, <2>1, <2>2
<1>8. ASSUME NEW k, NEW d, Begin(c, k, d) PROVE Begin(c, kind'[c], doc'[c])
  BY <1>0, <1>8 DEF Begin
<1> QED
  BY <1>1, <1>2, <1>3, <1>4, <1>5, <1>7, <1>8

LEMMA BaseStep == ASSUME Base1, NEW c \in Clients, Step(c) PROVE Base1'
BY TypeStep, PhasesStep, OverlapsStep, OneWriterStep DEF Base1

-----------------------------------------------------------------------------
(* The proof of BlobInv *)

\* What a step of c can do to the rows, the blobs and their excuses
LEMMA RowsStep ==
  ASSUME Base1, NEW c \in Clients, Step(c), NEW d, (d \in rows) # (d \in rows')
  PROVE  /\ Commit(c) /\ d = doc[c]
         /\ d \in rows' => tx[c].ins /\ kind[c] = "upload"
         /\ d \notin rows' => tx[c].delRow /\ kind[c] = "delete"
<1>1. Commit(c)
  BY OnlyCommit
<1>2. rows' = (rows \cup {x \in {doc[c]} : tx[c].ins}) \ {x \in {doc[c]} : tx[c].delRow}
  BY <1>1 DEF Commit, Visible
<1>3. (tx[c].ins => kind[c] = "upload") /\ (tx[c].delRow => kind[c] = "delete")
  BY DEF Base1, Phases, Phase
<1> QED
  BY <1>1, <1>2, <1>3

LEMMA BlobStep ==
  ASSUME Base1, NEW c \in Clients, Step(c), NEW d \in Docs, blob'[d] # blob[d]
  PROVE  /\ doc[c] = d /\ kind[c] \in {"upload", "delete"}
         /\ Unlink(c) \/ pc[c] \in {"store", "write"}
<1>1. blob \in [Docs -> {"absent", "partial", "full"}] /\ kind \in [Clients -> {"none", "upload", "delete", "download"}]
  BY DEF Base1, TypeOK
<1>2. StorePut(c) \/ StoreCreate(c) \/ StoreWrite(c) \/ Unlink(c)
  BY DEF Step, Begin, Fail, CreateDoc, Lookup, CreatePurls, CreateRefs, DeprecateSnapshot,
         DeprecateMark, Find, DeleteRow, DeleteSource, GcSnapshot, GcSweep, Commit, Look, Retrieve,
         Answer
<1>3. pc[c] \in {"store", "write", "unlink"} /\ (pc[c] = "unlink" => Unlink(c))
  BY <1>2 DEF StorePut, StoreCreate, StoreWrite, Unlink
<1>4. Phase(pc[c], kind[c], doc[c], tx[c])
  BY DEF Base1, Phases
<1>5. kind[c] \in {"upload", "delete"}
  BY <1>1, <1>3, <1>4 DEF Phase, DownloadSteps
<1>6. doc[c] = d
  BY <1>1, <1>2 DEF StorePut, StoreCreate, StoreWrite, Unlink
<1> QED
  BY <1>2, <1>3, <1>5, <1>6

LEMMA ExcuseStep ==
  ASSUME Base1, NEW c \in Clients, Step(c), NEW d \in excuse.blob, d \notin excuse'.blob
  PROVE  /\ doc[c] = d /\ kind[c] = "upload" /\ "blob" \notin clash[c]
         /\ blob'[d] = "full" /\ pc[c] \in {"store", "write"}
<1>1. /\ blob \in [Docs -> {"absent", "partial", "full"}]
      /\ kind \in [Clients -> {"none", "upload", "delete", "download"}]
      /\ excuse \in [blob : SUBSET Docs, current : SUBSET Identifiers, purls : SUBSET Base]
  BY DEF Base1, TypeOK
<1>2. StorePut(c) \/ StoreWrite(c)
  <2>1. CASE Commit(c)
    BY <1>1, <2>1 DEF Commit
  <2>2. CASE Fail(c)
    BY <1>1, <2>2 DEF Fail
  <2>3. ASSUME NEW k, NEW x, Begin(c, k, x) PROVE FALSE
    BY <1>1, <2>3 DEF Begin, Excused
  <2> QED
    BY <2>1, <2>2, <2>3
       DEF Step, StoreCreate, CreateDoc, Lookup, CreatePurls, CreateRefs, DeprecateSnapshot,
           DeprecateMark, Find, DeleteRow, DeleteSource, GcSnapshot, GcSweep, Unlink, Look,
           Retrieve, Answer
<1>3. pc[c] \in {"store", "write"} /\ \E whole \in BOOLEAN : Stored(c, whole)
  BY <1>2 DEF StorePut, StoreWrite, Base1, TypeOK
<1>4. doc[c] = d /\ "blob" \notin clash[c]
  BY <1>1, <1>3 DEF Stored
<1>5. Phase(pc[c], kind[c], doc[c], tx[c])
  BY DEF Base1, Phases
<1>6. kind[c] = "upload"
  BY <1>1, <1>3, <1>5 DEF Phase, DownloadSteps, DeleteSteps
<1>7. blob'[d] = "full"
  BY <1>1, <1>2, <1>4 DEF StorePut, StoreWrite, Stored
<1> QED
  BY <1>3, <1>4, <1>6, <1>7

\* What is good stays good, unless it is unlinked.
LEMMA GoodStep ==
  ASSUME Base1, NEW c \in Clients, Step(c), NEW d \in Docs, Good(d), ~ (Unlink(c) /\ d = doc[c])
  PROVE  Good(d)'
<1>1. /\ blob \in [Docs -> {"absent", "partial", "full"}]
      /\ pc \in [Clients -> {"idle"} \cup UploadSteps \cup DeleteSteps \cup DownloadSteps]
      /\ intact \in [Clients -> BOOLEAN]
      /\ excuse \in [blob : SUBSET Docs, current : SUBSET Identifiers, purls : SUBSET Base]
  BY DEF Base1, TypeOK
<1>f. \A e \in Clients \ {c} : pc'[e] = pc[e] /\ doc'[e] = doc[e]
  BY Frame DEF Base1
<1>2. CASE d \in excuse.blob
  BY <1>2, ExcuseStep DEF Good
<1>3. CASE StoreCreate(c)
  <2>1. CASE d = doc[c]
    BY <1>1, <1>3, <2>1 DEF StoreCreate, Goto, Good
  <2>2. CASE d # doc[c]
    <3>1. blob'[d] = blob[d] /\ excuse' = excuse /\ pc[c] = "store"
      BY <1>1, <1>3, <2>2 DEF StoreCreate
    <3>2. \A e \in Clients : pc[e] = "write" /\ doc[e] = d /\ intact[e] =>
            pc'[e] = "write" /\ doc'[e] = d /\ intact'[e]
      BY <1>1, <1>3, <1>f, <2>2, <3>1 DEF StoreCreate
    <3> QED
      BY <3>1, <3>2 DEF Good
  <2> QED
    BY <2>1, <2>2
<1>4. CASE Unlink(c)
  <2>1. blob'[d] = blob[d] /\ excuse' = excuse /\ pc[c] = "unlink"
    BY <1>1, <1>4 DEF Unlink
  <2>2. \A e \in Clients : pc[e] = "write" /\ doc[e] = d /\ intact[e] =>
          pc'[e] = "write" /\ doc'[e] = d /\ intact'[e]
    BY <1>1, <1>4, <1>f, <2>1 DEF Unlink
  <2> QED
    BY <2>1, <2>2 DEF Good
<1>5. CASE StorePut(c) \/ StoreWrite(c)
  <2>1. CASE blob[d] = "full"
    BY <1>1, <1>5, <2>1 DEF StorePut, StoreWrite, Good
  <2>2. ASSUME NEW e \in Clients, pc[e] = "write", doc[e] = d, intact[e] PROVE Good(d)'
    <3>1. CASE e = c
      BY <1>1, <1>5, <2>2, <3>1 DEF StorePut, StoreWrite, Good
    <3>2. CASE e # c
      <4>1. intact'[e]
        BY <1>1, <1>5, <2>2, <3>2 DEF StorePut, StoreWrite
      <4> QED
        BY <1>f, <2>2, <3>2, <4>1 DEF Good
    <3> QED
      BY <3>1, <3>2
  <2> QED
    BY <1>2, <2>1, <2>2 DEF Good
<1>6. CASE Fail(c)
  <2>1. blob' = blob /\ \A e \in Clients \ {c} : intact'[e] = intact[e]
    BY <1>1, <1>6 DEF Fail, Idle
  <2>2. pc[c] = "write" => doc[c] \in excuse'.blob
    BY <1>1, <1>6 DEF Fail
  <2> QED
    BY <1>2, <1>f, <2>1, <2>2 DEF Good
<1>7. CASE ~ (StorePut(c) \/ StoreCreate(c) \/ StoreWrite(c) \/ Unlink(c) \/ Fail(c))
  <2>1. pc[c] # "write" /\ blob' = blob
    BY <1>7 DEF Step, Begin, CreateDoc, Lookup, CreatePurls, CreateRefs, DeprecateSnapshot,
         DeprecateMark, Find, DeleteRow, DeleteSource, GcSnapshot, GcSweep, Commit, Look, Retrieve,
         Answer
  <2>2. \A e \in Clients \ {c} : intact'[e] = intact[e]
    BY <1>1, <1>7 DEF Step, Idle, Begin, CreateDoc, Lookup, CreatePurls, CreateRefs, DeprecateSnapshot,
         DeprecateMark, Find, DeleteRow, DeleteSource, GcSnapshot, GcSweep, Commit, Look, Retrieve,
         Answer
  <2> QED
    BY <1>2, <1>f, <2>1, <2>2 DEF Good
<1> QED
  BY <1>3, <1>4, <1>5, <1>6, <1>7

\* Where a step of c has come from
LEMMA Arrival ==
  ASSUME Base1, NEW c \in Clients, Step(c)
  PROVE  /\ pc'[c] \notin {"idle", "store", "find", "look"} => Stays(c)
         /\ pc'[c] = "unlink" => Commit(c) /\ tx[c].delRow
         /\ pc'[c] = "lookup" => CreateDoc(c) /\ doc[c] \in rows
         /\ pc'[c] = "vanished" => Lookup(c) /\ doc[c] \notin rows
         /\ pc'[c] = "retrieve" => Look(c) /\ doc[c] \in rows
         /\ pc'[c] = "answer" => Retrieve(c)
<1> USE DEF Goto, Idle
<1>1. pc \in [Clients -> {"idle"} \cup UploadSteps \cup DeleteSteps \cup DownloadSteps]
  BY DEF Base1, TypeOK
<1>2. ASSUME NEW k, NEW d, Begin(c, k, d) PROVE pc'[c] \in {"store", "find", "look"}
  BY <1>1, <1>2 DEF Begin, First
<1>3. Ends(c) => pc'[c] = "idle"
  BY <1>1 DEF Ends
<1>4. CASE Fail(c) \/ StorePut(c) \/ StoreCreate(c) \/ StoreWrite(c) \/ CreateDoc(c) \/ Lookup(c)
  BY <1>1, <1>4, <1>2, <1>3, EndsOrStays
     DEF Fail, StorePut, StoreCreate, StoreWrite, CreateDoc, Lookup, Base1
<1>5. CASE CreatePurls(c) \/ CreateRefs(c) \/ DeprecateSnapshot(c) \/ DeprecateMark(c)
  BY <1>1, <1>5, <1>2, <1>3, EndsOrStays
     DEF CreatePurls, CreateRefs, DeprecateSnapshot, DeprecateMark, Base1
<1>6. CASE Find(c) \/ DeleteRow(c) \/ DeleteSource(c) \/ GcSnapshot(c) \/ GcSweep(c)
  BY <1>1, <1>6, <1>2, <1>3, EndsOrStays DEF Find, DeleteRow, DeleteSource, GcSnapshot, GcSweep, Base1
<1>7. CASE Unlink(c) \/ Commit(c)
  BY <1>1, <1>7, <1>2, <1>3, EndsOrStays DEF Unlink, Commit, Base1
<1>8. CASE Look(c) \/ Retrieve(c) \/ Answer(c)
  BY <1>1, <1>8, <1>2, <1>3, EndsOrStays DEF Look, Retrieve, Answer, Base1
<1> QED
  BY <1>2, <1>4, <1>5, <1>6, <1>7, <1>8 DEF Step

\* An upload and a deletion of the same document that are under way at once
LEMMA BlobClash ==
  ASSUME Base1, NEW c \in Clients, NEW e \in Clients, doc[c] = doc[e], {kind[c], kind[e]} = {"upload", "delete"}
  PROVE  "blob" \in clash[c] /\ "blob" \in clash[e]
<1>1. c # e /\ Active(c) /\ Active(e)
  BY DEF Active
<1>2. "blob" \in Clashes(kind[c], doc[c], kind[e], doc[e]) /\ "blob" \in Clashes(kind[e], doc[e], kind[c], doc[c])
  BY DEF Clashes
<1> QED
  BY <1>1, <1>2 DEF Base1, Overlaps

LEMMA ReadClash ==
  ASSUME Base1, NEW c \in Clients, NEW e \in Clients, doc[c] = doc[e],
         kind[c] = "download", kind[e] \in {"upload", "delete"}
  PROVE  "read" \in clash[c]
BY DEF Base1, Overlaps, Active, Clashes

LEMMA KindOf ==
  ASSUME Base1, NEW c \in Clients
  PROVE  /\ pc[c] \in {"store", "write", "insert", "lookup", "vanished", "purls", "refs"} => kind[c] = "upload"
         /\ pc[c] \in {"find", "delete", "source", "gc", "sweep", "unlink"} => kind[c] = "delete"
         /\ pc[c] \in {"look", "retrieve", "answer"} => kind[c] = "download"
         /\ pc[c] # "idle" => doc[c] \in Docs
<1>1. kind[c] \in {"none", "upload", "delete", "download"} /\ Phase(pc[c], kind[c], doc[c], tx[c])
  BY DEF Base1, TypeOK, Phases
<1> QED
  BY <1>1 DEF Phase, UploadSteps, DeleteSteps, DownloadSteps

LEMMA GoodRows ==
  ASSUME Base1, BlobInv, NEW c \in Clients, Step(c) PROVE \A d \in rows' : Good(d)'
<1> SUFFICES ASSUME NEW d \in rows' PROVE Good(d)'
  OBVIOUS
<1>1. d \in Docs /\ Good(d)
  <2>1. CASE d \in rows
    BY <2>1 DEF BlobInv, Base1, TypeOK
  <2>2. CASE d \notin rows
    <3>1. Commit(c) /\ d = doc[c] /\ kind[c] = "upload"
      BY <2>2, RowsStep
    <3> QED
      BY <3>1, KindOf DEF BlobInv, Commit
  <2> QED
    BY <2>1, <2>2
<1>2. CASE Unlink(c) /\ d = doc[c]
  <2>1. d \in rows /\ kind[c] = "delete" /\ pc[c] = "unlink"
    BY <1>2, KindOf DEF Unlink
  <2>2. d \in excuse.blob
    BY <1>2, <2>1 DEF BlobInv
  <2> QED
    BY <1>2, <2>2 DEF Unlink, Good
<1> QED
  BY <1>1, <1>2, GoodStep

LEMMA GoodUploads ==
  ASSUME Base1, BlobInv, NEW c \in Clients, Step(c), NEW e \in Clients, kind'[e] = "upload", pc'[e] # "store"
  PROVE  Good(doc[e])'
<1>0. /\ blob \in [Docs -> {"absent", "partial", "full"}]
      /\ kind \in [Clients -> {"none", "upload", "delete", "download"}]
      /\ pc \in [Clients -> {"idle"} \cup UploadSteps \cup DeleteSteps \cup DownloadSteps]
      /\ doc \in [Clients -> Docs \cup {NoDoc}]
      /\ intact \in [Clients -> BOOLEAN]
      /\ excuse \in [blob : SUBSET Docs, current : SUBSET Identifiers, purls : SUBSET Base]
  BY DEF Base1, TypeOK
<1>1. doc'[e] = doc[e] /\ kind[e] = "upload" /\ doc[e] \in Docs
  <2>1. CASE e = c
    <3>1. ASSUME NEW k, NEW d, Begin(c, k, d) PROVE kind'[c] # "upload" \/ pc'[c] = "store"
      BY <1>0, <3>1 DEF Begin, Goto, First
    <3>2. ~ Ends(c)
      BY <1>0, <2>1 DEF Ends
    <3>3. Stays(c) /\ pc[c] # "idle"
      BY <2>1, <3>1, <3>2, EndsOrStays DEF Base1
    <3> QED
      BY <2>1, <3>3, KindOf DEF Stays
  <2>2. CASE e # c
    BY <2>2, Frame DEF Base1, Phases, Phase
  <2> QED
    BY <2>1, <2>2
<1>2. CASE e = c /\ pc[c] = "store"
  <2>1. StorePut(c) \/ StoreCreate(c)
    <3>1. ~ Ends(c)
      BY <1>0, <1>2 DEF Ends
    <3> QED
      BY <1>2, <3>1
         DEF Step, Begin, Fail, Idle, Ends, NoDoc, StoreWrite, CreateDoc, Lookup, CreatePurls, CreateRefs,
             DeprecateSnapshot, DeprecateMark, Find, DeleteRow, DeleteSource, GcSnapshot, GcSweep,
             Unlink, Commit, Look, Retrieve, Answer
  <2> QED
    BY <1>0, <1>1, <1>2, <2>1 DEF StorePut, StoreCreate, Good, Goto
<1>3. CASE ~ (e = c /\ pc[c] = "store")
  <2>1. Good(doc[e])
    BY <1>1, <1>3, Frame DEF BlobInv, Base1
  <2>2. CASE Unlink(c) /\ doc[e] = doc[c]
    <3>1. kind[c] = "delete" /\ "blob" \in clash[c]
      BY <1>1, <2>2, KindOf, BlobClash DEF Unlink
    <3>2. doc[c] \in excuse.blob /\ excuse' = excuse
      BY <2>2, <3>1 DEF BlobInv, Unlink
    <3> QED
      BY <1>1, <2>2, <3>2 DEF Good
  <2>3. CASE ~ (Unlink(c) /\ doc[e] = doc[c])
    BY <1>1, <2>1, <2>3, GoodStep
  <2> QED
    BY <2>2, <2>3
<1> QED
  BY <1>1, <1>2, <1>3

LEMMA PartialOnlyFs ==
  ASSUME Base1, BlobInv, NEW c \in Clients, Step(c)
  PROVE  /\ \A d \in Docs : blob'[d] = "partial" => backend' = "fs"
         /\ \A e \in Clients : got'[e] = "partial" => backend' = "fs"
<1>0. /\ blob \in [Docs -> {"absent", "partial", "full"}]
      /\ got \in [Clients -> {"none", "absent", "partial", "full"}]
      /\ \A d \in Docs : blob[d] = "partial" => backend = "fs"
      /\ \A e \in Clients : got[e] = "partial" => backend = "fs"
  BY DEF Base1, TypeOK, BlobInv
<1>1. backend' = backend
  BY DEF Step, Begin, Fail, StorePut, StoreCreate, StoreWrite, CreateDoc, Lookup, CreatePurls, CreateRefs,
         DeprecateSnapshot, DeprecateMark, Find, DeleteRow, DeleteSource, GcSnapshot, GcSweep,
         Unlink, Commit, Look, Retrieve, Answer
<1>2. ASSUME NEW d \in Docs, blob'[d] = "partial" PROVE backend' = "fs"
  <2>1. CASE blob'[d] = blob[d]
    BY <1>0, <1>1, <1>2, <2>1
  <2>2. CASE blob'[d] # blob[d]
    <3>1. StorePut(c) \/ StoreCreate(c) \/ StoreWrite(c) \/ Unlink(c)
      BY <2>2 DEF Step, Begin, Fail, CreateDoc, Lookup, CreatePurls, CreateRefs, DeprecateSnapshot,
         DeprecateMark, Find, DeleteRow, DeleteSource, GcSnapshot, GcSweep, Commit, Look, Retrieve, Answer
    <3> QED
      BY <1>0, <1>1, <1>2, <2>2, <3>1 DEF StorePut, StoreCreate, StoreWrite, Unlink
  <2> QED
    BY <2>1, <2>2
<1>3. ASSUME NEW e \in Clients, got'[e] = "partial" PROVE backend' = "fs"
  <2>1. CASE Retrieve(c) /\ e = c
    <3>1. doc[c] \in Docs /\ got'[c] = blob[doc[c]]
      BY <1>0, <2>1, KindOf DEF Retrieve
    <3> QED
      BY <1>0, <1>1, <1>3, <2>1, <3>1
  <2>2. CASE e # c
    BY <1>0, <1>1, <1>3, <2>2, Frame DEF Base1
  <2>3. CASE ~ Retrieve(c)
    <3>1. got' = got \/ got' = [got EXCEPT ![c] = "none"]
      BY <2>3 DEF Step, Idle, Begin, Fail, StorePut, StoreCreate, StoreWrite, CreateDoc, Lookup,
         CreatePurls, CreateRefs, DeprecateSnapshot, DeprecateMark, Find, DeleteRow, DeleteSource,
         GcSnapshot, GcSweep, Unlink, Commit, Look, Answer
    <3> QED
      BY <1>0, <1>1, <1>3, <3>1
  <2> QED
    BY <2>1, <2>2, <2>3
<1> QED
  BY <1>2, <1>3

LEMMA ClashedDeletions ==
  ASSUME Base1, BlobInv, NEW c \in Clients, Step(c), NEW e \in Clients, kind'[e] = "delete", "blob" \in clash'[e]
  PROVE  doc'[e] \in excuse'.blob
<1>0. /\ kind \in [Clients -> {"none", "upload", "delete", "download"}]
      /\ doc \in [Clients -> Docs \cup {NoDoc}]
      /\ clash \in [Clients -> SUBSET {"blob", "read", "current", "purls"}]
      /\ excuse \in [blob : SUBSET Docs, current : SUBSET Identifiers, purls : SUBSET Base]
  BY DEF Base1, TypeOK
<1>1. CASE kind[e] = "delete" /\ "blob" \in clash[e] /\ doc'[e] = doc[e]
  <2>1. doc[e] \in excuse.blob
    BY <1>1 DEF BlobInv
  <2>2. ~ (doc[c] = doc[e] /\ kind[c] = "upload" /\ "blob" \notin clash[c])
    BY <1>1, BlobClash
  <2> QED
    BY <1>1, <2>1, <2>2, ExcuseStep
<1>2. ASSUME NEW k, NEW d, Begin(c, k, d), ~ (kind[e] = "delete" /\ "blob" \in clash[e] /\ doc'[e] = doc[e])
      PROVE  doc'[e] \in excuse'.blob
  <2>1. /\ kind' = [kind EXCEPT ![c] = k] /\ doc' = [doc EXCEPT ![c] = d]
        /\ clash'[c] = UNION {Clashes(k, d, kind[o], doc[o]) : o \in Others(c)}
        /\ excuse' = Excused(d, clash'[c])
    BY <1>0, <1>2 DEF Begin
  <2>2. CASE e = c
    BY <1>0, <2>1, <2>2 DEF Excused
  <2>3. CASE e # c
    <3>1. clash'[e] = clash[e] \cup (IF e \in Others(c) THEN Clashes(kind[e], doc[e], k, d) ELSE {})
      BY <1>2, <2>3 DEF Begin
    <3>2. e \in Others(c) /\ "blob" \in Clashes(kind[e], doc[e], k, d)
      BY <1>0, <1>2, <2>1, <2>3, <3>1
    <3>3. doc[e] = d /\ "blob" \in Clashes(k, d, kind[e], doc[e])
      BY <3>2 DEF Clashes
    <3>4. "blob" \in clash'[c]
      BY <2>1, <3>2, <3>3
    <3> QED
      BY <1>0, <2>1, <2>3, <3>3, <3>4 DEF Excused
  <2> QED
    BY <2>2, <2>3
<1>3. CASE ~ \E k, d : Begin(c, k, d)
  <2>1. CASE Ends(c)
    <3>1. e # c
      BY <1>0, <2>1 DEF Ends
    <3> QED
      BY <1>0, <1>1, <2>1, <3>1 DEF Ends
  <2>2. CASE Stays(c)
    BY <1>1, <2>2 DEF Stays
  <2> QED
    BY <1>3, <2>1, <2>2, EndsOrStays DEF Base1
<1> QED
  BY <1>1, <1>2, <1>3

\* Who goes on at p has been there or has come there with this step.
LEMMA Presence ==
  ASSUME Base1, NEW c \in Clients, Step(c), NEW e \in Clients,
         pc'[e] \in {"unlink", "lookup", "vanished", "retrieve", "answer"}
  PROVE  /\ e # c => pc'[e] = pc[e] /\ got'[e] = got[e]
         /\ doc'[e] = doc[e] /\ kind'[e] = kind[e] /\ clash[e] \subseteq clash'[e] /\ doc[e] \in Docs
<1>1. CASE e = c
  <2>1. Stays(c)
    BY <1>1, Arrival
  <2>2. doc'[e] \in Docs
    BY BaseStep DEF Base1, Phases, Phase
  <2> QED
    BY <1>1, <2>1, <2>2 DEF Stays
<1>2. CASE e # c
  BY <1>2, Frame, KindOf DEF Base1
<1> QED
  BY <1>1, <1>2

LEMMA RowsGone ==
  ASSUME Base1, BlobInv, NEW c \in Clients, Step(c), NEW e \in Clients
  PROVE  /\ pc'[e] = "unlink" /\ doc'[e] \in rows' => "blob" \in clash'[e]
         /\ pc'[e] = "lookup" /\ doc'[e] \notin rows' => "blob" \in clash'[e]
         /\ pc'[e] = "vanished" => "blob" \in clash'[e]
<1>1. ASSUME pc'[e] = "unlink", doc'[e] \in rows' PROVE "blob" \in clash'[e]
  <2>1. doc'[e] = doc[e] /\ kind'[e] = kind[e] /\ clash[e] \subseteq clash'[e]
    BY <1>1, Presence
  <2>2. e # c
    <3>1. ASSUME e = c PROVE Commit(c) /\ tx[c].delRow
      BY <1>1, <3>1, Arrival
    <3> QED
      BY <1>1, <2>1, <3>1 DEF Commit, Visible
  <2>3. pc[e] = "unlink" /\ kind[e] = "delete"
    BY <1>1, <2>2, Presence, KindOf
  <2>4. CASE doc[e] \in rows
    BY <2>1, <2>3, <2>4 DEF BlobInv
  <2>5. CASE doc[e] \notin rows
    BY <1>1, <2>1, <2>3, <2>5, RowsStep, BlobClash
  <2> QED
    BY <2>4, <2>5
<1>2. ASSUME pc'[e] = "lookup", doc'[e] \notin rows' PROVE "blob" \in clash'[e]
  <2>1. doc'[e] = doc[e] /\ kind'[e] = kind[e] /\ clash[e] \subseteq clash'[e]
    BY <1>2, Presence
  <2>2. e # c
    <3>1. ASSUME e = c PROVE CreateDoc(c) /\ doc[c] \in rows
      BY <1>2, <3>1, Arrival
    <3> QED
      BY <1>2, <2>1, <3>1 DEF CreateDoc
  <2>3. pc[e] = "lookup" /\ kind[e] = "upload"
    BY <1>2, <2>2, Presence, KindOf
  <2>4. CASE doc[e] \notin rows
    BY <2>1, <2>3, <2>4 DEF BlobInv
  <2>5. CASE doc[e] \in rows
    BY <1>2, <2>1, <2>3, <2>5, RowsStep, BlobClash
  <2> QED
    BY <2>4, <2>5
<1>3. ASSUME pc'[e] = "vanished" PROVE "blob" \in clash'[e]
  <2>1. clash[e] \subseteq clash'[e]
    BY <1>3, Presence
  <2>2. CASE e = c
    BY <1>3, <2>1, <2>2, Arrival DEF Lookup, BlobInv
  <2>3. CASE e # c
    BY <1>3, <2>1, <2>3, Presence DEF BlobInv
  <2> QED
    BY <2>2, <2>3
<1> QED
  BY <1>1, <1>2, <1>3

LEMMA Reads ==
  ASSUME Base1, BlobInv, NEW c \in Clients, Step(c), NEW e \in Clients
  PROVE  /\ pc'[e] = "retrieve" =>
              blob'[doc'[e]] = "full" \/ doc'[e] \in excuse'.blob \/ "read" \in clash'[e]
         /\ pc'[e] = "answer" =>
              got'[e] = "full" \/ doc'[e] \in excuse'.blob \/ "read" \in clash'[e]
<1>1. ASSUME pc'[e] = "retrieve", "read" \notin clash'[e]
      PROVE  blob'[doc'[e]] = "full" \/ doc'[e] \in excuse'.blob
  <2>1. doc'[e] = doc[e] /\ kind'[e] = kind[e] /\ "read" \notin clash[e] /\ doc[e] \in Docs
    BY <1>1, Presence
  <2>2. kind[e] = "download"
    <3>1. pc[e] \in {"look", "retrieve"}
      BY <1>1, Presence, Arrival DEF Look
    <3> QED
      BY <3>1, KindOf
  <2>3. ~ (doc[c] = doc[e] /\ kind[c] \in {"upload", "delete"})
    BY <2>1, <2>2, ReadClash
  <2>4. blob[doc[e]] = "full" \/ doc[e] \in excuse.blob
    <3>1. CASE e = c
      <4>1. Look(c) /\ doc[c] \in rows
        BY <1>1, <3>1, Arrival
      <4>2. Good(doc[c])
        BY <4>1 DEF BlobInv
      <4>3. ASSUME NEW o \in Clients, pc[o] = "write", doc[o] = doc[c] PROVE FALSE
        BY <2>1, <2>2, <3>1, <4>3, KindOf, ReadClash
      <4> QED
        BY <3>1, <4>2, <4>3 DEF Good
    <3>2. CASE e # c
      BY <1>1, <2>1, <3>2, Presence DEF BlobInv
    <3> QED
      BY <3>1, <3>2
  <2> QED
    BY <2>1, <2>3, <2>4, BlobStep, ExcuseStep
<1>2. ASSUME pc'[e] = "answer", "read" \notin clash'[e]
      PROVE  got'[e] = "full" \/ doc'[e] \in excuse'.blob
  <2>1. doc'[e] = doc[e] /\ kind'[e] = kind[e] /\ "read" \notin clash[e] /\ doc[e] \in Docs
    BY <1>2, Presence
  <2>2. kind[e] = "download"
    <3>1. pc[e] \in {"retrieve", "answer"}
      BY <1>2, Presence, Arrival DEF Retrieve
    <3> QED
      BY <3>1, KindOf
  <2>3. ~ (doc[c] = doc[e] /\ kind[c] \in {"upload", "delete"})
    BY <2>1, <2>2, ReadClash
  <2>4. got'[e] = "full" \/ doc[e] \in excuse.blob
    <3>1. CASE e = c
      <4>1. Retrieve(c)
        BY <1>2, <3>1, Arrival
      <4>2. got'[c] = blob[doc[c]] /\ pc[c] = "retrieve"
        BY <4>1 DEF Retrieve, Base1, TypeOK
      <4> QED
        BY <2>1, <3>1, <4>2 DEF BlobInv
    <3>2. CASE e # c
      BY <1>2, <2>1, <3>2, Presence DEF BlobInv
    <3> QED
      BY <3>1, <3>2
  <2> QED
    BY <2>1, <2>3, <2>4, ExcuseStep
<1> QED
  BY <1>1, <1>2

LEMMA BlobInvStep == ASSUME Base1, BlobInv, NEW c \in Clients, Step(c) PROVE BlobInv'
BY GoodRows, GoodUploads, PartialOnlyFs, ClashedDeletions, RowsGone, Reads DEF BlobInv

-----------------------------------------------------------------------------
(* The proof of CurrentInv *)

\* Which step changes what of a transaction that goes on
LEMMA TxFields ==
  ASSUME Base1, NEW c \in Clients, Step(c), Stays(c), ~ Commit(c)
  PROVE  /\ CreateDoc(c) \/ tx'[c].ins = tx[c].ins
         /\ DeleteRow(c) \/ tx'[c].delRow = tx[c].delRow
         /\ CreatePurls(c) \/ tx'[c].fresh = tx[c].fresh
         /\ GcSweep(c) \/ tx'[c].gone = tx[c].gone
         /\ DeprecateMark(c) \/ tx'[c].marks = tx[c].marks
         /\ DeprecateSnapshot(c) \/ DeprecateMark(c) \/ tx'[c].plan = tx[c].plan
         /\ Find(c) \/ GcSnapshot(c) \/ GcSweep(c) \/ tx'[c].ids = tx[c].ids
<1>0. tx \in [Clients -> Transaction]
  BY DEF Base1, TypeOK
<1>e. ~ Ends(c) \/ tx' = tx
  <2>1. pc[c] # "idle" => kind[c] # "none" /\ kind \in [Clients -> {"none", "upload", "delete", "download"}]
    BY DEF Base1, TypeOK, Phases, Phase
  <2>2. ASSUME NEW k, NEW d, Begin(c, k, d) PROVE tx' = tx
    BY <2>2 DEF Begin
  <2>3. CASE pc[c] # "idle"
    BY <2>1, <2>3 DEF Ends, Stays
  <2>4. pc[c] # "idle" \/ \E k, d : Begin(c, k, d)
    BY EndsOrStays DEF Base1
  <2> QED
    BY <2>2, <2>3, <2>4
<1>1. CASE tx' = tx
  BY <1>1
<1>2. CASE CreateDoc(c)
  <2>1. tx' = tx \/ tx' = [tx EXCEPT ![c].ins = TRUE]
    BY <1>2 DEF CreateDoc
  <2> QED
    BY <1>0, <1>1, <1>2, <2>1 DEF Transaction
<1>3. CASE CreatePurls(c)
  <2>1. \E S : tx' = [tx EXCEPT ![c].fresh = S]
    BY <1>3 DEF CreatePurls
  <2> QED
    BY <1>0, <1>3, <2>1 DEF Transaction
<1>4. CASE DeprecateSnapshot(c)
  <2>1. tx' = tx \/ \E f : tx' = [tx EXCEPT ![c].plan = f]
    BY <1>4 DEF DeprecateSnapshot
  <2> QED
    BY <1>0, <1>1, <1>4, <2>1 DEF Transaction
<1>5. CASE DeprecateMark(c)
  <2>1. \E f : tx' = [tx EXCEPT ![c].marks = f, ![c].plan = NoMarks]
    BY <1>5 DEF DeprecateMark
  <2> QED
    BY <1>0, <1>5, <2>1 DEF Transaction
<1>6. CASE Find(c) \/ GcSnapshot(c)
  <2>1. \/ Ends(c)
        \/ \E S : tx' = [tx EXCEPT ![c].ids = S]
    BY <1>6 DEF Find, GcSnapshot, Idle, Ends, NoDoc
  <2> QED
    BY <1>0, <1>e, <1>1, <1>6, <2>1 DEF Transaction
<1>7. CASE DeleteRow(c)
  <2>1. Ends(c) \/ tx' = [tx EXCEPT ![c].delRow = TRUE]
    BY <1>7 DEF DeleteRow, Idle, Ends, NoDoc
  <2> QED
    BY <1>0, <1>e, <1>1, <1>7, <2>1 DEF Transaction
<1>8. CASE DeleteSource(c)
  BY <1>0, <1>8 DEF DeleteSource, Transaction
<1>9. CASE GcSweep(c)
  <2>1. \E S : tx' = [tx EXCEPT ![c].gone = S, ![c].ids = {}]
    BY <1>9 DEF GcSweep
  <2> QED
    BY <1>0, <1>9, <2>1 DEF Transaction
<1> QED
  BY <1>e, <1>1, <1>2, <1>3, <1>4, <1>5, <1>6, <1>7, <1>8, <1>9
     DEF Step, Idle, Ends, NoDoc, Begin, Fail, StorePut, StoreCreate, StoreWrite, Lookup, CreateRefs,
         Unlink, Look, Retrieve, Answer

\* Two uploads or deletions of advisories of one identifier that are under way at once
LEMMA CurrentClash ==
  ASSUME Base1, NEW c \in Clients, NEW e \in Clients, c # e,
         {kind[c], kind[e]} \subseteq {"upload", "delete"}, {doc[c], doc[e]} \subseteq Advisories,
         Identifier[doc[c]] = Identifier[doc[e]]
  PROVE  "current" \in clash[c]
<1>1. Active(c) /\ Active(e)
  BY DEF Active
<1>2. "current" \in Clashes(kind[c], doc[c], kind[e], doc[e])
  BY DEF Clashes
<1> QED
  BY <1>1, <1>2 DEF Base1, Overlaps

LEMMA Writers ==
  ASSUME Base1, NEW c \in Clients, tx[c].ins \/ tx[c].delRow \/ pc[c] = "commit"
  PROVE  kind[c] \in {"upload", "delete"} /\ doc[c] \in Docs
<1>1. kind[c] \in {"none", "upload", "delete", "download"} /\ Phase(pc[c], kind[c], doc[c], tx[c])
  BY DEF Base1, TypeOK, Phases
<1> QED
  BY <1>1 DEF Phase, DownloadSteps

\* What a commit does to the deprecation
LEMMA CommitDep ==
  ASSUME Base1, NEW c \in Clients, Commit(c)
  PROVE  /\ rows' = Visible(c)
         /\ dep' = ((dep \ DOMAIN tx[c].marks) \cup {a \in DOMAIN tx[c].marks : tx[c].marks[a]}) \cap Visible(c)
         /\ excuse'.current = excuse.current \
              {Identifier[a] : a \in {x \in {doc[c]} : tx[c].marks # NoMarks /\ "current" \notin clash[c]}}
<1>1. excuse \in [blob : SUBSET Docs, current : SUBSET Identifiers, purls : SUBSET Base]
  BY DEF Base1, TypeOK
<1> QED
  BY <1>1 DEF Commit

LEMMA ExcuseCurrentStep ==
  ASSUME Base1, NEW c \in Clients, Step(c), ~ Commit(c)
  PROVE  excuse.current \subseteq excuse'.current
<1>1. excuse \in [blob : SUBSET Docs, current : SUBSET Identifiers, purls : SUBSET Base]
  BY DEF Base1, TypeOK
<1>2. ASSUME NEW k, NEW d, Begin(c, k, d) PROVE excuse.current \subseteq excuse'.current
  BY <1>1, <1>2 DEF Begin, Excused
<1>3. CASE ~ \E k, d : Begin(c, k, d)
  BY <1>1, <1>3, OtherExcuses
<1> QED
  BY <1>2, <1>3

LEMMA ExactCommit ==
  ASSUME Base1, CurrentInv, NEW c \in Clients, Commit(c), NEW i \in Identifiers, i \notin excuse'.current
  PROVE  Exact(Same(rows, i))'
<1>0. dep \subseteq rows \cap Advisories /\ Phase(pc[c], kind[c], doc[c], tx[c]) /\ pc[c] = "commit"
  BY DEF Base1, TypeOK, Phases, Commit
<1>1. CASE ~ (tx[c].ins \/ tx[c].delRow) \/ doc[c] \notin Advisories
  <2>1. tx[c].marks = NoMarks /\ DOMAIN NoMarks = {}
    BY <1>0, <1>1, PurlTypes DEF Phase, NoMarks
  <2>2. i \notin excuse.current
    BY <2>1, CommitDep
  <2>3. Same(rows', i) = Same(rows, i)
    BY <1>1, CommitDep DEF Same, Visible
  <2>4. \A a \in Same(rows, i) : a \in dep' <=> a \in dep
    BY <1>0, <2>1, <2>3, CommitDep DEF Same
  <2>5. Exact(Same(rows, i))
    BY <2>2 DEF CurrentInv
  <2> QED
    BY <2>3, <2>4, <2>5 DEF Exact
<1>2. CASE (tx[c].ins \/ tx[c].delRow) /\ doc[c] \in Advisories /\ i # Identifier[doc[c]]
  <2>1. \A a \in DOMAIN tx[c].marks : Identifier[a] # i
    BY <1>0, <1>2 DEF Phase
  <2>2. i \notin excuse.current
    BY <1>2, CommitDep
  <2>3. Same(rows', i) = Same(rows, i)
    BY <1>2, CommitDep DEF Same, Visible
  <2>4. \A a \in Same(rows, i) : a \in dep' <=> a \in dep
    BY <1>0, <2>1, <2>3, CommitDep DEF Same
  <2>5. Exact(Same(rows, i))
    BY <2>2 DEF CurrentInv
  <2> QED
    BY <2>3, <2>4, <2>5 DEF Exact
<1>3. CASE (tx[c].ins \/ tx[c].delRow) /\ doc[c] \in Advisories /\ i = Identifier[doc[c]]
  <2> DEFINE S == Same(Visible(c), i)
  <2>1. "current" \notin clash[c]
    BY <1>3, CommitDep DEF CurrentInv
  <2>2. PlanExact(S, tx[c].marks)
    BY <1>0, <1>3, <2>1 DEF CurrentInv
  <2>3. Same(rows', i) = S
    BY CommitDep
  <2>4. CASE S = {}
    BY <2>3, <2>4 DEF Exact
  <2>5. ASSUME NEW m \in MostRecent(S), tx[c].marks = [a \in S |-> a # m] PROVE Exact(Same(rows, i))'
    <3>1. DOMAIN tx[c].marks = S /\ \A a \in S : tx[c].marks[a] = (a # m)
      BY <2>5
    <3>2. \A a \in S : a \in dep' <=> a # m
      BY <3>1, CommitDep DEF Same
    <3>3. m \in S
      BY <2>5, MostRecentIn
    <3>4. S \ dep' = {m}
      BY <3>2, <3>3
    <3> QED
      BY <2>3, <2>5, <3>4 DEF Exact
  <2> QED
    BY <2>2, <2>4, <2>5 DEF PlanExact
<1> QED
  BY <1>1, <1>2, <1>3

LEMMA ExactStep ==
  ASSUME Base1, CurrentInv, NEW c \in Clients, Step(c), NEW i \in Identifiers, i \notin excuse'.current
  PROVE  Exact(Same(rows, i))'
<1>1. CASE Commit(c)
  BY <1>1, ExactCommit
<1>2. CASE ~ Commit(c)
  <2>1. i \notin excuse.current /\ rows' = rows /\ dep' = dep
    BY <1>2, OnlyCommit, ExcuseCurrentStep
  <2> QED
    BY <2>1 DEF CurrentInv, Exact, Same
<1> QED
  BY <1>1, <1>2

LEMMA ClashedCurrent ==
  ASSUME Base1, CurrentInv, NEW c \in Clients, Step(c), NEW e \in Clients, "current" \in clash'[e]
  PROVE  Identifier[doc'[e]] \in excuse'.current
<1>0. /\ kind \in [Clients -> {"none", "upload", "delete", "download"}]
      /\ doc \in [Clients -> Docs \cup {NoDoc}]
      /\ clash \in [Clients -> SUBSET {"blob", "read", "current", "purls"}]
      /\ excuse \in [blob : SUBSET Docs, current : SUBSET Identifiers, purls : SUBSET Base]
  BY DEF Base1, TypeOK
<1>1. CASE "current" \in clash[e] /\ doc'[e] = doc[e]
  <2>1. Identifier[doc[e]] \in excuse.current /\ kind[e] \in {"upload", "delete"} /\ doc[e] \in Advisories
    BY <1>1 DEF CurrentInv, Base1, Overlaps
  <2>2. CASE ~ Commit(c)
    BY <1>1, <2>1, <2>2, ExcuseCurrentStep
  <2>3. CASE Commit(c)
    <3>1. Identifier[doc[c]] = Identifier[doc[e]] /\ tx[c].marks # NoMarks => "current" \in clash[c]
      <4>1. Phase(pc[c], kind[c], doc[c], tx[c]) /\ pc[c] = "commit"
        BY <2>3 DEF Base1, Phases, Commit
      <4>2. tx[c].marks # NoMarks => doc[c] \in Advisories /\ kind[c] \in {"upload", "delete"}
        BY <4>1, Writers, PurlTypes DEF Phase
      <4> QED
        BY <1>1, <2>1, <4>2, CurrentClash
    <3> QED
      BY <1>1, <2>1, <2>3, <3>1, CommitDep
  <2> QED
    BY <2>2, <2>3
<1>2. ASSUME NEW k, NEW d, Begin(c, k, d), ~ ("current" \in clash[e] /\ doc'[e] = doc[e])
      PROVE  Identifier[doc'[e]] \in excuse'.current
  <2>1. /\ kind' = [kind EXCEPT ![c] = k] /\ doc' = [doc EXCEPT ![c] = d]
        /\ clash'[c] = UNION {Clashes(k, d, kind[o], doc[o]) : o \in Others(c)}
        /\ excuse' = Excused(d, clash'[c])
    BY <1>0, <1>2 DEF Begin
  <2>2. "current" \in clash'[c] => Identifier[d] \in excuse'.current
    BY <2>1 DEF Excused
  <2>3. CASE e = c
    BY <1>0, <2>1, <2>2, <2>3
  <2>4. CASE e # c
    <3>1. clash'[e] = clash[e] \cup (IF e \in Others(c) THEN Clashes(kind[e], doc[e], k, d) ELSE {})
      BY <1>2, <2>4 DEF Begin
    <3>2. e \in Others(c) /\ "current" \in Clashes(kind[e], doc[e], k, d)
      BY <1>0, <1>2, <2>1, <2>4, <3>1
    <3>3. Identifier[doc[e]] = Identifier[d] /\ "current" \in Clashes(k, d, kind[e], doc[e])
      BY <3>2 DEF Clashes
    <3>4. "current" \in clash'[c]
      BY <2>1, <3>2, <3>3
    <3> QED
      BY <1>0, <2>1, <2>2, <2>4, <3>3, <3>4
  <2> QED
    BY <2>3, <2>4
<1>3. CASE ~ \E k, d : Begin(c, k, d)
  <2>1. CASE Ends(c)
    <3>1. e # c
      BY <1>0, <2>1 DEF Ends
    <3> QED
      BY <1>0, <1>1, <2>1, <3>1 DEF Ends
  <2>2. CASE Stays(c)
    BY <1>1, <2>2 DEF Stays
  <2> QED
    BY <1>3, <2>1, <2>2, EndsOrStays DEF Base1
<1> QED
  BY <1>1, <1>2, <1>3

LEMMA Guards ==
  ASSUME NEW c \in Clients
  PROVE  /\ StorePut(c) \/ StoreCreate(c) => pc[c] = "store"
         /\ StoreWrite(c) => pc[c] = "write"
         /\ CreateDoc(c) => pc[c] = "insert"
         /\ Lookup(c) => pc[c] = "lookup"
         /\ CreatePurls(c) => pc[c] = "purls"
         /\ CreateRefs(c) => pc[c] = "refs"
         /\ DeprecateSnapshot(c) => pc[c] = "snapshot"
         /\ DeprecateMark(c) => pc[c] = "mark"
         /\ Find(c) => pc[c] = "find"
         /\ DeleteRow(c) => pc[c] = "delete"
         /\ DeleteSource(c) => pc[c] = "source"
         /\ GcSnapshot(c) => pc[c] = "gc"
         /\ GcSweep(c) => pc[c] = "sweep"
         /\ Unlink(c) => pc[c] = "unlink"
         /\ Commit(c) => pc[c] = "commit"
         /\ Look(c) => pc[c] = "look"
         /\ Retrieve(c) => pc[c] = "retrieve"
         /\ Answer(c) => pc[c] \in {"answer", "vanished"}
BY DEF StorePut, StoreCreate, StoreWrite, CreateDoc, Lookup, CreatePurls, CreateRefs,
       DeprecateSnapshot, DeprecateMark, Find, DeleteRow, DeleteSource, GcSnapshot, GcSweep,
       Unlink, Commit, Look, Retrieve, Answer

\* What comes next
LEMMA Departure ==
  ASSUME NEW c \in Clients, Step(c), ~ Ends(c), pc[c] # "idle"
  PROVE  /\ pc[c] = "lookup" => Lookup(c)
         /\ pc[c] = "purls" => CreatePurls(c)
         /\ pc[c] = "refs" => CreateRefs(c)
         /\ pc[c] = "snapshot" => DeprecateSnapshot(c)
         /\ pc[c] = "mark" => DeprecateMark(c)
         /\ pc[c] = "source" => DeleteSource(c)
         /\ pc[c] = "gc" => GcSnapshot(c)
         /\ pc[c] = "sweep" => GcSweep(c)
         /\ pc[c] = "commit" => Commit(c)
<1>1. ~ Fail(c)
  BY DEF Fail, Idle, Ends, NoDoc
<1>2. \A k, d : ~ Begin(c, k, d)
  BY DEF Begin
<1> QED
  BY <1>1, <1>2, Guards DEF Step

\* What has come before
LEMMA Arrival2 ==
  ASSUME Base1, NEW c \in Clients, Step(c)
  PROVE  /\ pc'[c] = "snapshot" => CreateDoc(c) \/ DeleteRow(c)
         /\ pc'[c] = "mark" => DeprecateSnapshot(c)
         /\ pc'[c] = "refs" => CreatePurls(c)
         /\ pc'[c] = "sweep" => GcSnapshot(c)
         /\ pc'[c] = "commit" => Lookup(c) \/ CreateRefs(c) \/ DeleteSource(c) \/ GcSweep(c)
<1> USE DEF Goto, Idle
<1>1. pc \in [Clients -> {"idle"} \cup UploadSteps \cup DeleteSteps \cup DownloadSteps]
  BY DEF Base1, TypeOK
<1>2. ASSUME NEW k, NEW d, Begin(c, k, d) PROVE pc'[c] \in {"store", "find", "look"}
  BY <1>1, <1>2 DEF Begin, First
<1>4. CASE Fail(c) \/ StorePut(c) \/ StoreCreate(c) \/ StoreWrite(c) \/ CreateDoc(c) \/ Lookup(c)
  BY <1>1, <1>4 DEF Fail, StorePut, StoreCreate, StoreWrite, Lookup, CreateDoc
<1>5. CASE CreatePurls(c) \/ CreateRefs(c) \/ DeprecateSnapshot(c) \/ DeprecateMark(c)
  BY <1>1, <1>5 DEF CreatePurls, CreateRefs, DeprecateSnapshot, DeprecateMark
<1>6. CASE Find(c) \/ DeleteRow(c) \/ DeleteSource(c) \/ GcSnapshot(c) \/ GcSweep(c)
  BY <1>1, <1>6 DEF Find, DeleteRow, DeleteSource, GcSnapshot, GcSweep
<1>7. CASE Unlink(c) \/ Commit(c)
  BY <1>1, <1>7 DEF Unlink, Commit
<1>8. CASE Look(c) \/ Retrieve(c) \/ Answer(c)
  BY <1>1, <1>8 DEF Look, Retrieve, Answer
<1> QED
  BY <1>2, <1>4, <1>5, <1>6, <1>7, <1>8 DEF Step

\* The advisories of an identifier that the transaction of c sees: only an overlapping
\* commit on the identifier changes them.
LEMMA VisibleStep ==
  ASSUME Base1, NEW c \in Clients, Step(c), NEW e \in Clients,
         doc[e] \in Advisories, "current" \notin clash[e], tx[e].ins \/ tx[e].delRow,
         doc'[e] = doc[e], tx'[e].ins = tx[e].ins, tx'[e].delRow = tx[e].delRow, e = c => ~ Commit(c)
  PROVE  Same(Visible(e), Identifier[doc[e]])' = Same(Visible(e), Identifier[doc[e]])
<1>1. ASSUME NEW a \in Advisories, Identifier[a] = Identifier[doc[e]], a # doc[e]
      PROVE  a \in rows' <=> a \in rows
  <2>1. SUFFICES ASSUME (a \in rows') # (a \in rows) PROVE FALSE
    OBVIOUS
  <2>2. Commit(c) /\ a = doc[c] /\ kind[c] \in {"upload", "delete"}
    BY <2>1, RowsStep
  <2>3. e # c /\ kind[e] \in {"upload", "delete"}
    BY <2>2, Writers
  <2> QED
    BY <1>1, <2>2, <2>3, CurrentClash
<1>2. tx[e].ins => doc[e] \in Visible(e) /\ doc[e] \in Visible(e)'
  <2>1. ~ (tx[e].ins /\ tx[e].delRow)
    BY DEF Base1, Phases, Phase
  <2> QED
    BY <2>1 DEF Visible
<1>3. tx[e].delRow => doc[e] \notin Visible(e) /\ doc[e] \notin Visible(e)'
  BY DEF Visible
<1>4. \A a \in Advisories : Identifier[a] = Identifier[doc[e]] =>
        (a \in Visible(e)' <=> a \in Visible(e))
  <2>1. ASSUME NEW a \in Advisories, Identifier[a] = Identifier[doc[e]], a # doc[e]
        PROVE  a \in Visible(e)' <=> a \in Visible(e)
    BY <1>1, <2>1 DEF Visible
  <2> QED
    BY <1>2, <1>3, <2>1
<1> QED
  BY <1>4 DEF Same

LEMMA PlansStep ==
  ASSUME Base1, CurrentInv, NEW c \in Clients, Step(c), NEW e \in Clients,
         doc'[e] \in Advisories, "current" \notin clash'[e], tx'[e].ins \/ tx'[e].delRow
  PROVE  /\ pc'[e] = "mark" => PlanExact(Same(Visible(e), Identifier[doc[e]])', tx'[e].plan)
         /\ pc'[e] \notin {"snapshot", "mark"} =>
              PlanExact(Same(Visible(e), Identifier[doc[e]])', tx'[e].marks)
<1> DEFINE S == Same(Visible(e), Identifier[doc[e]])
<1>0. tx \in [Clients -> Transaction] /\ pc \in [Clients -> {"idle"} \cup UploadSteps \cup DeleteSteps \cup DownloadSteps]
  BY DEF Base1, TypeOK
<1>p. Phase(pc[e], kind[e], doc[e], tx[e]) /\ Phase(pc'[e], kind'[e], doc'[e], tx'[e])
  BY BaseStep DEF Base1, Phases
<1>1. CASE e # c
  <2>1. /\ pc'[e] = pc[e] /\ doc'[e] = doc[e] /\ tx'[e] = tx[e] /\ "current" \notin clash[e]
    BY <1>1, Frame DEF Base1
  <2>2. S' = S
    BY <1>1, <2>1, VisibleStep
  <2> QED
    BY <2>1, <2>2 DEF CurrentInv
<1>2. CASE e = c
  <2>1. pc'[c] # "idle" /\ tx'[c] # NoTx /\ ~ Ends(c) /\ ~ Commit(c)
    <3>1. tx'[c] # NoTx
      BY <1>2 DEF NoTx
    <3>2. ~ Ends(c)
      BY <1>0, <3>1 DEF Ends
    <3>3. ~ Commit(c)
      BY <1>0, <3>1 DEF Commit, Idle
    <3>4. pc'[c] # "idle"
      BY <1>2, <1>p DEF Phase
    <3> QED
      BY <3>1, <3>2, <3>3, <3>4
  <2>2. Stays(c) /\ pc[c] # "idle"
    <3>1. ASSUME NEW k, NEW d, Begin(c, k, d) PROVE FALSE
      <4>1. pc[c] = "idle" /\ tx' = tx
        BY <3>1 DEF Begin
      <4> QED
        BY <1>2, <1>p, <4>1 DEF Phase
    <3> QED
      BY <2>1, <3>1, EndsOrStays DEF Base1
  <2>3. doc'[c] = doc[c] /\ clash'[c] = clash[c]
    BY <2>2 DEF Stays
  <2>4. CASE CreateDoc(c)
    <3>1. pc[c] = "insert"
      BY <2>4 DEF CreateDoc
    <3>2. ~ tx[c].ins /\ ~ tx[c].delRow /\ doc[c] \notin Sboms
      BY <1>2, <1>p, <2>3, <3>1, PurlTypes DEF Phase
    <3>3. pc'[c] = "snapshot"
      BY <1>0, <1>2, <2>4, <3>2 DEF CreateDoc, Goto
    <3> QED
      BY <1>2, <3>3
  <2>5. CASE DeleteRow(c)
    <3>1. doc[c] \notin Sboms
      BY <1>2, <2>3, PurlTypes
    <3>2. pc'[c] = "snapshot"
      BY <1>0, <1>2, <2>1, <2>5, <3>1 DEF DeleteRow, Goto, Idle
    <3> QED
      BY <1>2, <3>2
  <2>6. CASE ~ CreateDoc(c) /\ ~ DeleteRow(c)
    <3>1. tx'[c].ins = tx[c].ins /\ tx'[c].delRow = tx[c].delRow
      BY <2>1, <2>2, <2>6, TxFields
    <3>2. S' = S
      BY <1>2, <2>1, <2>3, <3>1, VisibleStep
    <3>3. CASE DeprecateSnapshot(c)
      <4>1. S = {a \in Visible(c) \cap Advisories : Identifier[a] = Identifier[doc[c]]}
        BY <1>2 DEF Same
      <4>2. pc'[c] = "mark" /\ pc[c] = "snapshot"
        BY <1>0, <3>3 DEF DeprecateSnapshot, Goto
      <4>3. CASE S = {}
        <5>1. tx' = tx /\ tx[c].plan = NoMarks
          BY <1>2, <1>p, <3>3, <4>1, <4>2, <4>3 DEF DeprecateSnapshot, Phase
        <5> QED
          BY <1>2, <3>2, <4>2, <4>3, <5>1 DEF PlanExact
      <4>4. CASE S # {}
        <5>1. PICK m \in MostRecent(S) : tx' = [tx EXCEPT ![c].plan = [a \in S |-> a # m]]
          BY <3>3, <4>1, <4>4 DEF DeprecateSnapshot
        <5>2. tx'[c].plan = [a \in S |-> a # m]
          <6> HIDE DEF S
          <6> QED
            BY <1>0, <5>1 DEF Transaction
        <5> QED
          BY <1>2, <3>2, <4>2, <4>4, <5>1, <5>2 DEF PlanExact
      <4> QED
        BY <4>3, <4>4
    <3>4. CASE DeprecateMark(c)
      <4>1. pc[c] = "mark" /\ pc'[c] \in {"purls", "source"}
        BY <1>0, <3>4 DEF DeprecateMark, Goto
      <4>2. PlanExact(S, tx[c].plan)
        BY <1>2, <2>3, <3>1, <4>1 DEF CurrentInv
      <4>3. tx'[c].marks = [a \in DOMAIN tx[c].plan \cap Visible(c) |-> tx[c].plan[a]]
        BY <1>0, <3>4 DEF DeprecateMark, Transaction
      <4>4. S \subseteq Visible(c)
        BY <1>2 DEF Same
      <4> HIDE DEF S
      <4>5. tx'[c].marks = tx[c].plan
        <5>1. CASE S = {}
          BY <4>2, <4>3, <5>1 DEF PlanExact, NoMarks
        <5>2. ASSUME NEW m, tx[c].plan = [a \in S |-> a # m] PROVE tx'[c].marks = tx[c].plan
          <6>1. DOMAIN tx[c].plan = S /\ S \cap Visible(c) = S
            BY <4>4, <5>2
          <6> QED
            BY <4>3, <5>2, <6>1
        <5> QED
          BY <4>2, <5>1, <5>2 DEF PlanExact
      <4> QED
        BY <1>2, <3>2, <4>1, <4>2, <4>5 DEF S
    <3>5. CASE ~ DeprecateSnapshot(c) /\ ~ DeprecateMark(c)
      <4>1. tx'[c].plan = tx[c].plan /\ tx'[c].marks = tx[c].marks
        BY <2>1, <2>2, <3>5, TxFields
      <4>2. pc[c] \notin {"snapshot", "mark"} /\ pc'[c] \notin {"snapshot", "mark"}
        BY <2>1, <2>2, <2>6, <3>5, Departure, Arrival2
      <4> QED
        BY <1>2, <2>3, <3>1, <3>2, <4>1, <4>2 DEF CurrentInv
    <3> QED
      BY <3>3, <3>4, <3>5
  <2> QED
    BY <2>4, <2>5, <2>6
<1> QED
  BY <1>1, <1>2

LEMMA CurrentInvStep == ASSUME Base1, CurrentInv, NEW c \in Clients, Step(c) PROVE CurrentInv'
BY ExactStep, ClashedCurrent, PlansStep DEF CurrentInv

-----------------------------------------------------------------------------
(* The proof of PurlInv *)

LEMMA ClosureFacts ==
  ASSUME NEW qs \in SUBSET Qualified
  PROVE  /\ \A n \in Closure(qs) : n \in Nodes /\ BaseOfNode(n) \in Closure(qs) \cap Base
         /\ \A n \in Closure(qs) \cap Qualified : n \in qs
         /\ \A n \in Closure(qs) \cap Versioned :
              BaseOf[n] \in Closure(qs) /\ \E q \in qs : VersionOf[q] = n
         /\ \A n \in Closure(qs) \cap Base : \E q \in qs : BaseOf[VersionOf[q]] = n
         /\ \A q \in qs : VersionOf[q] \in Closure(qs)
BY PurlAssumption, PurlTypes DEF Closure, BaseOfNode, Nodes

LEMMA ParentsFacts ==
  /\ \A d \in Docs : Parents(NodesOf(d)) \subseteq NodesOf(d)
  /\ \A S \in SUBSET Nodes : \A n \in S : Parents({n}) \subseteq Parents(S)
  /\ \A S \in SUBSET Nodes : \A p \in Parents(S) : \E n \in S : p \in Parents({n})
  /\ \A S, T : S \subseteq T => Parents(S) \subseteq Parents(T)
  /\ Parents({}) = {}
<1>1. \A d \in Docs : Parents(NodesOf(d)) \subseteq NodesOf(d)
  <2>1. \A d \in Sboms : Parents(NodesOf(d)) \subseteq NodesOf(d)
    BY PurlAssumption, PurlTypes DEF NodesOf, Parents, Closure
  <2>2. \A d \in Advisories : Parents(NodesOf(d)) = {}
    BY PurlAssumption, PurlTypes DEF NodesOf, Parents
  <2> QED
    BY <2>1, <2>2, PurlTypes
<1> QED
  BY <1>1 DEF Parents

LEMMA BaseThere ==
  ASSUME NEW ps \in SUBSET Nodes, Parents(ps) \subseteq ps, NEW n \in ps
  PROVE  BaseOfNode(n) \in ps
BY PurlTypes, PurlAssumption DEF Parents, BaseOfNode, Nodes

LEMMA BelowFacts ==
  ASSUME NEW ns \in SUBSET Nodes, NEW n \in Nodes, NEW p \in Parents({n}), p \in Below(ns)
  PROVE  n \in Below(ns)
<1>1. CASE n \in Qualified
  <2>1. p = VersionOf[n] /\ p \in Versioned
    BY <1>1, PurlTypes, PurlAssumption DEF Parents
  <2> QED
    BY <1>1, <2>1, PurlAssumption DEF Below
<1>2. CASE n \in Versioned
  <2>1. p = BaseOf[n] /\ p \in Base
    BY <1>2, PurlTypes, PurlAssumption DEF Parents
  <2> QED
    BY <1>2, <2>1, PurlAssumption DEF Below
<1>3. CASE n \in Base
  BY <1>3, PurlAssumption DEF Parents
<1> QED
  BY <1>1, <1>2, <1>3 DEF Nodes

\* What the garbage collection of the SBOM with the PURLs captured leaves is wanted: its
\* base is excused, or another SBOM (with PURLs in others) needs it.
LEMMA OrphansExact ==
  ASSUME NEW captured \in SUBSET Qualified, NEW ps \in SUBSET Nodes, NEW others \in SUBSET SUBSET Qualified,
         NEW statuses \in SUBSET Base, NEW excused, statuses \subseteq excused,
         captured \subseteq ps, Parents(ps) \subseteq ps,
         \A n \in ps : BaseOfNode(n) \in excused \/ \E qs \in others \cup {captured} : n \in Closure(qs),
         NEW n \in ps \cap Closure(captured)
  PROVE  \/ n \in Orphans(captured, ps, UNION others, statuses)
         \/ BaseOfNode(n) \in excused
         \/ \E qs \in others : n \in Closure(qs)
<1> DEFINE oq == OrphanedQualified(captured, ps, UNION others, statuses)
           ov == OrphanedVersioned(oq, ps, statuses)
           ob == OrphanedBase(ov, ps, statuses)
           Wanted(x) == BaseOfNode(x) \in excused \/ \E qs \in others : x \in Closure(qs)
<1>1. \A q \in ps \cap Qualified : q \in oq \/ Wanted(q)
  <2> SUFFICES ASSUME NEW q \in ps \cap Qualified, q \notin oq PROVE Wanted(q)
    OBVIOUS
  <2>1. BaseOfNode(q) = BaseOf[VersionOf[q]]
    BY DEF BaseOfNode
  <2>2. CASE q \in captured
    BY <2>1, <2>2 DEF OrphanedQualified, Closure
  <2>3. CASE q \notin captured
    BY <2>3, ClosureFacts
  <2> QED
    BY <2>2, <2>3
<1>2. \A q \in Qualified : Wanted(q) => Wanted(VersionOf[q])
  BY PurlTypes, PurlAssumption, ClosureFacts DEF BaseOfNode
<1>3. \A v \in ps \cap Versioned : v \in ov \/ Wanted(v)
  <2> SUFFICES ASSUME NEW v \in ps \cap Versioned, v \notin ov, ~ Wanted(v) PROVE FALSE
    OBVIOUS
  <2>1. BaseOfNode(v) = BaseOf[v] /\ BaseOf[v] \notin statuses
    BY PurlAssumption DEF BaseOfNode
  <2>2. \A q \in ps \cap Qualified : VersionOf[q] = v => q \in oq
    <3> HIDE DEF oq, ov, Wanted
    <3> QED
      BY <1>1, <1>2
  <2>3. \E q \in captured : VersionOf[q] = v
    BY ClosureFacts
  <2>4. \E q \in oq \cap ps : VersionOf[q] = v
    BY <2>2, <2>3
  <2> HIDE DEF oq
  <2> QED
    BY <2>1, <2>2, <2>4 DEF OrphanedVersioned
<1>4. \A v \in Versioned : Wanted(v) => Wanted(BaseOf[v])
  <2>1. \A v \in Versioned : BaseOfNode(BaseOf[v]) = BaseOf[v] /\ BaseOfNode(v) = BaseOf[v]
    BY PurlTypes, PurlAssumption DEF BaseOfNode
  <2> QED
    BY <2>1, ClosureFacts
<1>5. \A b \in ps \cap Base \cap Closure(captured) : b \in ob \/ Wanted(b)
  <2> SUFFICES ASSUME NEW b \in ps \cap Base \cap Closure(captured), b \notin ob, ~ Wanted(b) PROVE FALSE
    OBVIOUS
  <2>1. BaseOfNode(b) = b /\ b \notin statuses
    BY PurlAssumption DEF BaseOfNode
  <2>2. \A v \in ps \cap Versioned : BaseOf[v] = b => v \in ov
    BY <1>3, <1>4
  <2>3. PICK q \in captured : BaseOf[VersionOf[q]] = b
    BY ClosureFacts
  <2>4. VersionOf[q] \in ps \cap Versioned
    BY <2>3, PurlTypes DEF Parents
  <2>5. \E v \in ov : BaseOf[v] = b
    BY <2>2, <2>3, <2>4
  <2> HIDE DEF ov
  <2> QED
    BY <2>1, <2>2, <2>5 DEF OrphanedBase
<1>6. Orphans(captured, ps, UNION others, statuses) = (oq \cap ps) \cup ov \cup ob
  BY DEF Orphans
<1> HIDE DEF oq, ov, ob
<1> QED
  BY <1>1, <1>3, <1>5, <1>6 DEF Nodes

LEMMA ExcusePurlsStep ==
  ASSUME Base1, NEW c \in Clients, Step(c), ~ Commit(c)
  PROVE  excuse.purls \subseteq excuse'.purls
<1>1. excuse \in [blob : SUBSET Docs, current : SUBSET Identifiers, purls : SUBSET Base]
  BY DEF Base1, TypeOK
<1>2. ASSUME NEW k, NEW d, Begin(c, k, d) PROVE excuse.purls \subseteq excuse'.purls
  BY <1>1, <1>2 DEF Begin, Excused
<1>3. CASE ~ \E k, d : Begin(c, k, d)
  BY <1>1, <1>3, OtherExcuses
<1> QED
  BY <1>2, <1>3

\* Without a commit the rows stay, and the other transactions with them.
LEMMA PurlOthers ==
  ASSUME Base1, PurlInv, NEW c \in Clients, Step(c), ~ Commit(c)
  PROVE  /\ UNCHANGED <<rows, purls>> /\ excuse.purls \subseteq excuse'.purls
         /\ PurlRows'
         /\ \A e \in Clients \ {c} : PurlTx(e)' /\ Shared(e)' = Shared(e) /\ (Deletes(e)' <=> Deletes(e))
         /\ \A e, o \in Clients \ {c} : e # o => PurlPair(e, o)'
<1>1. UNCHANGED <<rows, purls>> /\ excuse.purls \subseteq excuse'.purls
  BY OnlyCommit, ExcusePurlsStep
<1>2. PurlRows'
  BY <1>1 DEF PurlInv, PurlRows
<1>3. \A e \in Clients \ {c} : pc'[e] = pc[e] /\ kind'[e] = kind[e] /\ doc'[e] = doc[e] /\ tx'[e] = tx[e]
  BY Frame DEF Base1
<1>4. ASSUME NEW e \in Clients \ {c}
      PROVE  PurlTx(e)' /\ Shared(e)' = Shared(e) /\ (Deletes(e)' <=> Deletes(e))
  <2>1. PurlTx(e)
    BY DEF PurlInv
  <2> QED
    BY <1>1, <1>3, <2>1 DEF PurlTx, Shared, Deletes, Needed, Leaving
<1>5. ASSUME NEW e \in Clients \ {c}, NEW o \in Clients \ {c}, e # o PROVE PurlPair(e, o)'
  <2>1. PurlPair(e, o)
    BY <1>5 DEF PurlInv
  <2> QED
    BY <1>1, <1>3, <1>4, <2>1 DEF PurlPair
<1> QED
  BY <1>1, <1>2, <1>4, <1>5

\* It is enough to look at the transaction of c.
LEMMA PurlOwn ==
  ASSUME Base1, PurlInv, NEW c \in Clients, Step(c), ~ Commit(c), PurlTx(c)',
         \A e \in Clients \ {c} : PurlPair(c, e)' /\ PurlPair(e, c)'
  PROVE  PurlInv'
BY PurlOthers DEF PurlInv

\* An idle handler has written nothing.
LEMMA IdleTx ==
  ASSUME Base1, NEW c \in Clients, pc[c] = "idle"
  PROVE  /\ tx[c].fresh = {} /\ tx[c].gone = {} /\ ~ tx[c].ins /\ ~ tx[c].delRow
         /\ Shared(c) = {} /\ ~ Deletes(c)
BY ParentsFacts DEF Base1, Phases, Phase, Shared, Deletes

LEMMA PurlEnds ==
  ASSUME Base1, PurlInv, NEW c \in Clients, Step(c), ~ Commit(c), Ends(c) PROVE PurlInv'
<1>1. /\ tx'[c] = NoTx /\ pc'[c] = "idle" /\ kind'[c] = "none"
  BY DEF Base1, TypeOK, Ends, Goto
<1>2. NoTx.fresh = {} /\ NoTx.gone = {} /\ NoTx.ins = FALSE
  BY DEF NoTx
<1>3. PurlTx(c)'
  BY <1>1, <1>2, ParentsFacts DEF PurlTx, Deletes
<1>4. Shared(c)' = {}
  BY <1>1, <1>2, ParentsFacts DEF Shared
<1>5. ASSUME NEW e \in Clients \ {c} PROVE PurlPair(c, e)' /\ PurlPair(e, c)'
  BY <1>1, <1>2, <1>4 DEF PurlPair, Deletes
<1> QED
  BY <1>3, <1>5, PurlOwn

LEMMA PurlBegin ==
  ASSUME Base1, PurlInv, NEW c \in Clients, Step(c), NEW k, NEW d, Begin(c, k, d) PROVE PurlInv'
<1>0. /\ pc \in [Clients -> {"idle"} \cup UploadSteps \cup DeleteSteps \cup DownloadSteps]
      /\ kind \in [Clients -> {"none", "upload", "delete", "download"}]
      /\ doc \in [Clients -> Docs \cup {NoDoc}]
      /\ excuse \in [blob : SUBSET Docs, current : SUBSET Identifiers, purls : SUBSET Base]
  BY DEF Base1, TypeOK
<1>1. /\ pc[c] = "idle" /\ pc'[c] \in {"store", "find", "look"} /\ tx' = tx
      /\ kind'[c] = k /\ doc'[c] = d
      /\ clash'[c] = UNION {Clashes(k, d, kind[o], doc[o]) : o \in Others(c)}
      /\ excuse' = Excused(d, clash'[c])
  BY <1>0 DEF Begin, Goto, First
<1>2. tx[c].fresh = {} /\ tx[c].gone = {} /\ ~ tx[c].ins
  BY <1>1, IdleTx
<1>3. ~ Commit(c)
  BY <1>1 DEF Commit
<1>4. PurlTx(c)'
  BY <1>1, <1>2, ParentsFacts DEF PurlTx
<1>5. Shared(c)' = {}
  BY <1>1, <1>2, ParentsFacts DEF Shared
<1>6. ASSUME NEW e \in Clients \ {c}, Deletes(c)', Deletes(e)'
      PROVE  Closure(PurlsOf[doc'[c]]) \cap Closure(PurlsOf[doc'[e]]) \cap Base \subseteq excuse'.purls
  <2>1. Deletes(e) /\ doc'[e] = doc[e] /\ k = "delete" /\ d \in Sboms
    BY <1>1, <1>3, <1>6, Frame, PurlOthers DEF Deletes, Base1
  <2>2. CASE Closure(PurlsOf[d]) \cap Closure(PurlsOf[doc[e]]) = {}
    BY <1>1, <2>1, <2>2
  <2>3. CASE Closure(PurlsOf[d]) \cap Closure(PurlsOf[doc[e]]) # {}
    <3>1. pc[e] # "idle"
      BY <2>1, IdleTx
    <3>2. "purls" \in Clashes(k, d, kind[e], doc[e])
      BY <2>1, <2>3 DEF Clashes, Deletes
    <3>3. "purls" \in clash'[c]
      BY <1>1, <3>1, <3>2 DEF Others
    <3>4. Closure(PurlsOf[d]) \cap Base \subseteq excuse'.purls
      BY <1>1, <3>3 DEF Excused
    <3> QED
      BY <1>1, <3>4
  <2> QED
    BY <2>2, <2>3
<1>7. ASSUME NEW e \in Clients \ {c} PROVE PurlPair(c, e)' /\ PurlPair(e, c)'
  BY <1>1, <1>2, <1>5, <1>6 DEF PurlPair
<1> QED
  BY <1>3, <1>4, <1>7, PurlOwn

\* A step that goes on, has the same rows added and removed, refers to nothing more and is not
\* about to collect or to commit a deletion, or has nothing to collect
LEMMA PurlSame ==
  ASSUME Base1, PurlInv, NEW c \in Clients, Step(c), ~ Commit(c), Stays(c),
         tx'[c].fresh = tx[c].fresh, tx'[c].gone = tx[c].gone,
         pc'[c] = "commit" => ~ tx'[c].ins,
         Deletes(c) /\ pc'[c] \in {"sweep", "commit"} => PurlsOf[doc[c]] = {}
  PROVE  PurlInv'
<1>1. UNCHANGED <<rows, purls>> /\ doc' = doc /\ kind' = kind /\ excuse.purls \subseteq excuse'.purls
  BY PurlOthers DEF Stays
<1>2. PurlTx(c)
  BY DEF PurlInv
<1>3. Closure({}) = {}
  BY DEF Closure
<1>4. PurlTx(c)'
  BY <1>1, <1>2, <1>3 DEF PurlTx, Deletes
<1>5. Shared(c)' \subseteq Shared(c)
  BY <1>1 DEF Shared
<1>6. ASSUME NEW e \in Clients \ {c} PROVE PurlPair(c, e)' /\ PurlPair(e, c)'
  <2>1. tx'[e] = tx[e] /\ doc'[e] = doc[e] /\ Shared(e)' = Shared(e) /\ (Deletes(e)' <=> Deletes(e))
    BY Frame, PurlOthers DEF Base1
  <2>2. PurlPair(c, e) /\ PurlPair(e, c)
    BY DEF PurlInv
  <2>3. PurlPair(c, e)'
    BY <1>1, <1>5, <2>1, <2>2 DEF PurlPair, Deletes
  <2>4. PurlPair(e, c)'
    BY <1>1, <1>5, <2>1, <2>2 DEF PurlPair, Deletes
  <2> QED
    BY <2>3, <2>4
<1> QED
  BY <1>4, <1>6, PurlOwn

LEMMA PurlCreate ==
  ASSUME Base1, PurlInv, NEW c \in Clients, Step(c), CreatePurls(c) PROVE PurlInv'
<1>0. /\ tx \in [Clients -> Transaction] /\ purls \subseteq Nodes
      /\ pc \in [Clients -> {"idle"} \cup UploadSteps \cup DeleteSteps \cup DownloadSteps]
  BY DEF Base1, TypeOK
<1>1. /\ pc[c] = "purls" /\ pc'[c] = "refs" /\ tx'[c].fresh = NodesOf(doc[c]) \ purls
      /\ ~ Commit(c) /\ doc' = doc /\ kind' = kind /\ doc[c] \in Docs
  BY <1>0, KindOf DEF CreatePurls, Goto, Transaction, Commit
<1>2. tx'[c].gone = {}
  <2>1. Phase(pc'[c], kind'[c], doc'[c], tx'[c])
    BY BaseStep DEF Base1, Phases
  <2> QED
    BY <1>1, <2>1 DEF Phase
<1>3. Parents(tx'[c].fresh) \subseteq NodesOf(doc[c])
  BY <1>1, ParentsFacts
<1>4. PurlTx(c)'
  <2>1. rows' = rows /\ purls' = purls
    BY <1>1, PurlOthers
  <2>2. tx'[c].fresh \subseteq NodesOf(doc'[c]) /\ Parents(tx'[c].fresh) \subseteq purls' \cup tx'[c].fresh
    BY <1>1, <1>3, <2>1
  <2> QED
    BY <1>1, <1>2, <2>2 DEF PurlTx
<1>5. Shared(c)' \subseteq NodesOf(doc[c])
  BY <1>1, <1>3 DEF Shared
<1>6. ASSUME NEW e \in Clients \ {c} PROVE PurlPair(c, e)' /\ PurlPair(e, c)'
  <2>1. tx'[e] = tx[e] /\ Shared(e)' = Shared(e) /\ (Deletes(e)' <=> Deletes(e))
    BY <1>1, Frame, PurlOthers DEF Base1
  <2>2. NodesOf(doc[c]) \cap tx[e].gone = {}
    BY IdleTx DEF CreatePurls, Others
  <2>3. ~ Deletes(c)'
    BY <1>1, KindOf DEF Deletes
  <2> QED
    BY <1>2, <1>5, <2>1, <2>2, <2>3 DEF PurlPair
<1> QED
  BY <1>1, <1>4, <1>6, PurlOwn

LEMMA PurlRefs ==
  ASSUME Base1, PurlInv, NEW c \in Clients, Step(c), CreateRefs(c) PROVE PurlInv'
<1>0. pc \in [Clients -> {"idle"} \cup UploadSteps \cup DeleteSteps \cup DownloadSteps]
  BY DEF Base1, TypeOK
<1>1. /\ pc[c] = "refs" /\ pc'[c] = "commit" /\ tx' = tx /\ doc' = doc /\ kind' = kind
      /\ ~ Commit(c) /\ Targets(doc[c]) \subseteq purls \cup tx[c].fresh
  BY <1>0 DEF CreateRefs, Goto, Commit
<1>2. UNCHANGED <<rows, purls>> /\ ~ Deletes(c) /\ tx[c].gone = {}
  <2>1. Phase(pc[c], kind[c], doc[c], tx[c])
    BY DEF Base1, Phases
  <2> QED
    BY <1>1, <2>1, KindOf, PurlOthers DEF Phase, Deletes
<1>3. PurlTx(c)'
  <2>1. PurlTx(c)
    BY DEF PurlInv
  <2> QED
    BY <1>1, <1>2, <2>1 DEF PurlTx, Deletes
<1>4. Shared(c)' \subseteq Shared(c) \cup Targets(doc[c])
  BY <1>1 DEF Shared
<1>5. ASSUME NEW e \in Clients \ {c} PROVE PurlPair(c, e)' /\ PurlPair(e, c)'
  <2>1. tx'[e] = tx[e]
    BY Frame DEF Base1
  <2>2. Targets(doc[c]) \cap tx[e].gone = {}
    BY IdleTx DEF CreateRefs, Others
  <2>3. Shared(c) \cap tx[e].gone = {}
    BY DEF PurlInv, PurlPair
  <2> QED
    BY <1>1, <1>2, <1>4, <2>1, <2>2, <2>3 DEF PurlPair, Deletes
<1> QED
  BY <1>1, <1>3, <1>5, PurlOwn

LEMMA PurlSnapshot ==
  ASSUME Base1, PurlInv, NEW c \in Clients, Step(c), GcSnapshot(c) PROVE PurlInv'
<1> DEFINE others == {PurlsOf[s] : s \in (rows \ {doc[c]}) \cap Sboms}
           statuses == UNION {BasesOf[a] : a \in rows \cap Advisories}
<1>0. /\ pc \in [Clients -> {"idle"} \cup UploadSteps \cup DeleteSteps \cup DownloadSteps]
      /\ tx \in [Clients -> Transaction] /\ rows \subseteq Docs /\ purls \subseteq Nodes
      /\ Phase(pc[c], kind[c], doc[c], tx[c]) /\ OneWriter
  BY DEF Base1, TypeOK, Phases
<1>1. /\ pc[c] = "gc" /\ pc'[c] = "sweep" /\ doc' = doc /\ kind' = kind /\ ~ Commit(c)
      /\ kind[c] = "delete" /\ doc[c] \in Sboms /\ doc[c] \notin Advisories /\ tx[c].delRow /\ ~ tx[c].ins
      /\ doc[c] \in rows
  <2>1. pc[c] = "gc" /\ pc'[c] = "sweep" /\ doc' = doc /\ kind' = kind
    BY <1>0 DEF GcSnapshot, Goto
  <2>2. kind[c] = "delete" /\ doc[c] \in Sboms /\ tx[c].delRow /\ ~ tx[c].ins
    BY <1>0, <2>1, KindOf DEF Phase
  <2> QED
    BY <1>0, <2>1, <2>2, PurlTypes DEF OneWriter, Commit
<1>2. Visible(c) = rows \ {doc[c]}
  BY <1>1 DEF Visible
<1>3. tx'[c].ids = Orphans(PurlsOf[doc[c]], purls, UNION others, statuses)
  <2>1. tx[c].ids = PurlsOf[doc[c]]
    BY <1>0, <1>1 DEF Phase
  <2>2. Visible(c) \cap Sboms = (rows \ {doc[c]}) \cap Sboms /\ Visible(c) \cap Advisories = rows \cap Advisories
    BY <1>1, <1>2
  <2>3. tx'[c].ids = Orphans(tx[c].ids, purls, UNION {PurlsOf[s] : s \in Visible(c) \cap Sboms},
                             UNION {BasesOf[a] : a \in Visible(c) \cap Advisories})
    BY <1>0 DEF GcSnapshot, Transaction
  <2> QED
    BY <2>1, <2>2, <2>3
<1>4. UNCHANGED <<rows, purls>> /\ excuse.purls \subseteq excuse'.purls
  BY <1>1, PurlOthers
<1>5. tx'[c].fresh = tx[c].fresh /\ tx'[c].gone = tx[c].gone /\ tx'[c].ins = tx[c].ins
  BY <1>0 DEF GcSnapshot, Transaction
<1>6. ASSUME NEW n \in purls \cap Closure(PurlsOf[doc[c]])
      PROVE  n \in Below(tx'[c].ids) \/ BaseOfNode(n) \in excuse.purls \/ Needed(n, doc[c])
  <2>1. /\ PurlsOf[doc[c]] \in SUBSET Qualified /\ others \in SUBSET SUBSET Qualified
        /\ statuses \in SUBSET Base
    BY <1>1, PurlTypes
  <2>2. statuses \subseteq excuse.purls /\ Parents(purls) \subseteq purls
    BY DEF PurlInv, PurlRows
  <2>3. PurlsOf[doc[c]] \subseteq purls
    BY <1>1 DEF PurlInv, PurlRows, Targets
  <2>4. \A x \in purls : \/ BaseOfNode(x) \in excuse.purls
                         \/ \E qs \in others \cup {PurlsOf[doc[c]]} : x \in Closure(qs)
    BY DEF PurlInv, PurlRows
  <2>5. n \in tx'[c].ids \/ BaseOfNode(n) \in excuse.purls \/ \E qs \in others : n \in Closure(qs)
    <3>1. purls \in SUBSET Nodes
      BY <1>0
    <3> DEFINE captured == PurlsOf[doc[c]]
               excused == excuse.purls
    <3>2. n \in purls \cap Closure(captured) /\ tx'[c].ids = Orphans(captured, purls, UNION others, statuses)
      BY <1>3
    <3>4. /\ captured \in SUBSET Qualified /\ others \in SUBSET SUBSET Qualified
          /\ statuses \in SUBSET Base /\ statuses \subseteq excused
          /\ captured \subseteq purls /\ Parents(purls) \subseteq purls
      BY <2>1, <2>2, <2>3
    <3>5. \A x \in purls : \/ BaseOfNode(x) \in excused
                           \/ \E qs \in others \cup {captured} : x \in Closure(qs)
      BY <2>4
    <3> HIDE DEF others, statuses, captured, excused
    <3>3. \/ n \in Orphans(captured, purls, UNION others, statuses)
          \/ BaseOfNode(n) \in excused
          \/ \E qs \in others : n \in Closure(qs)
      BY <3>1, <3>2, <3>4, <3>5, OrphansExact, SMTT(90)
    <3> QED
      BY <3>2, <3>3 DEF excused
  <2>6. n \in tx'[c].ids => n \in Below(tx'[c].ids)
    BY DEF Below
  <2>7. (\E qs \in others : n \in Closure(qs)) => Needed(n, doc[c])
    BY DEF Needed
  <2> QED
    BY <2>5, <2>6, <2>7
<1>7. PurlTx(c)'
  <2>1. PurlTx(c)
    BY DEF PurlInv
  <2>2. /\ tx'[c].fresh \subseteq NodesOf(doc'[c])
        /\ Parents(tx'[c].fresh) \subseteq purls' \cup tx'[c].fresh
        /\ \A n \in purls' : Parents({n}) \cap tx'[c].gone # {} => n \in tx'[c].gone
        /\ \A d \in rows' \ {doc'[c]} : Targets(d) \cap tx'[c].gone = {}
    BY <1>1, <1>4, <1>5, <2>1 DEF PurlTx
  <2>3. Leaving(c)' = Below(tx'[c].ids)
    BY <1>1 DEF Leaving
  <2>4. \A n \in purls' \cap Closure(PurlsOf[doc'[c]]) :
          n \in Leaving(c)' \/ BaseOfNode(n) \in excuse'.purls \/ Needed(n, doc[c])'
    BY <1>1, <1>4, <1>6, <2>3 DEF Needed
  <2> QED
    BY <1>1, <2>2, <2>4 DEF PurlTx
<1>8. Shared(c)' \subseteq Shared(c)
  BY <1>1, <1>5 DEF Shared
<1>9. ASSUME NEW e \in Clients \ {c} PROVE PurlPair(c, e)' /\ PurlPair(e, c)'
  <2>1. tx'[e] = tx[e] /\ doc'[e] = doc[e] /\ Shared(e)' = Shared(e) /\ (Deletes(e)' <=> Deletes(e))
    BY <1>1, Frame, PurlOthers DEF Base1
  <2>2. PurlPair(c, e) /\ PurlPair(e, c)
    BY DEF PurlInv
  <2> QED
    BY <1>1, <1>4, <1>5, <1>8, <2>1, <2>2 DEF PurlPair, Deletes
<1> QED
  BY <1>1, <1>7, <1>9, PurlOwn

LEMMA PurlSweep ==
  ASSUME Base1, PurlInv, NEW c \in Clients, Step(c), GcSweep(c) PROVE PurlInv'
<1>0. /\ pc \in [Clients -> {"idle"} \cup UploadSteps \cup DeleteSteps \cup DownloadSteps]
      /\ tx \in [Clients -> Transaction] /\ purls \subseteq Nodes
      /\ Phase(pc[c], kind[c], doc[c], tx[c])
  BY DEF Base1, TypeOK, Phases
<1>1. /\ pc[c] = "sweep" /\ pc'[c] = "commit" /\ doc' = doc /\ kind' = kind /\ ~ Commit(c)
  BY <1>0 DEF GcSweep, Goto, Commit
<1>2. /\ tx'[c].gone = Sweep(c) /\ tx'[c].fresh = tx[c].fresh /\ tx'[c].ins = tx[c].ins
  BY <1>0 DEF GcSweep, Transaction
<1>3. UNCHANGED <<rows, purls>> /\ excuse.purls \subseteq excuse'.purls
  BY <1>1, PurlOthers
<1>4. kind[c] = "delete" /\ ~ tx[c].ins /\ tx[c].fresh = {}
  BY <1>0, <1>1, KindOf DEF Phase
<1>5. PurlTx(c)'
  <2>1. PurlTx(c)
    BY DEF PurlInv
  <2>2. ASSUME NEW n \in purls, Parents({n}) \cap Sweep(c) # {} PROVE n \in Sweep(c)
    <3>1. tx[c].ids \in SUBSET Nodes
      BY <1>0 DEF Transaction
    <3> QED
      BY <1>0, <2>2, <3>1, BelowFacts DEF Sweep
  <2>3. \A d \in rows \ {doc[c]} : Targets(d) \cap Sweep(c) = {}
    BY DEF GcSweep
  <2>4. ASSUME Deletes(c), NEW n \in purls \cap Closure(PurlsOf[doc[c]])
        PROVE  n \in Sweep(c) \/ BaseOfNode(n) \in excuse.purls \/ Needed(n, doc[c])
    BY <1>1, <2>1, <2>4 DEF PurlTx, Leaving, Sweep
  <2>5. Leaving(c)' = Sweep(c) /\ (Deletes(c)' <=> Deletes(c))
    BY <1>1, <1>2 DEF Leaving, Deletes
  <2>6. \A n : Needed(n, doc[c])' <=> Needed(n, doc[c])
    BY <1>1, <1>3 DEF Needed
  <2>7. Deletes(c)' => \A n \in purls' \cap Closure(PurlsOf[doc'[c]]) :
          n \in Leaving(c)' \/ BaseOfNode(n) \in excuse'.purls \/ Needed(n, doc[c])'
    BY <1>1, <1>3, <2>4, <2>5, <2>6
  <2> QED
    BY <1>1, <1>2, <1>3, <1>4, <2>1, <2>2, <2>3, <2>7 DEF PurlTx
<1>6. Shared(c)' = {}
  BY <1>1, <1>2, <1>4, ParentsFacts DEF Shared
<1>7. ASSUME NEW e \in Clients \ {c} PROVE PurlPair(c, e)' /\ PurlPair(e, c)'
  <2>1. tx'[e] = tx[e] /\ doc'[e] = doc[e] /\ Shared(e)' = Shared(e) /\ (Deletes(e)' <=> Deletes(e))
    BY <1>1, Frame, PurlOthers DEF Base1
  <2>2. PurlPair(c, e) /\ PurlPair(e, c)
    BY DEF PurlInv
  <2>3. Shared(e) \cap Sweep(c) = {}
    BY IdleTx DEF GcSweep, Others
  <2> QED
    BY <1>1, <1>2, <1>3, <1>6, <2>1, <2>2, <2>3 DEF PurlPair, Deletes
<1> QED
  BY <1>1, <1>5, <1>7, PurlOwn

\* The steps that go on and neither create nor collect PURLs
LEMMA PurlQuiet ==
  ASSUME Base1, PurlInv, NEW c \in Clients, Step(c), ~ Commit(c), Stays(c), ~ Ends(c),
         ~ (CreatePurls(c) \/ CreateRefs(c) \/ GcSnapshot(c) \/ GcSweep(c))
  PROVE  PurlInv'
<1>0. /\ pc \in [Clients -> {"idle"} \cup UploadSteps \cup DeleteSteps \cup DownloadSteps]
      /\ Phase(pc[c], kind[c], doc[c], tx[c])
  BY DEF Base1, TypeOK, Phases
<1>1. tx'[c].fresh = tx[c].fresh /\ tx'[c].gone = tx[c].gone
  BY TxFields
<1>2. pc'[c] # "sweep"
  BY Arrival2
<1>3. ASSUME pc'[c] = "commit" PROVE ~ tx'[c].ins /\ (Deletes(c) => PurlsOf[doc[c]] = {})
  <2>1. Lookup(c) \/ DeleteSource(c)
    BY <1>3, Arrival2
  <2>2. CASE Lookup(c)
    <3>1. pc[c] = "lookup" /\ kind[c] = "upload" /\ tx' = tx
      BY <2>2, KindOf DEF Lookup
    <3> QED
      BY <1>0, <3>1 DEF Phase, Deletes
  <2>3. CASE DeleteSource(c)
    <3>1. pc[c] = "source" /\ kind[c] = "delete"
      BY <2>3, KindOf DEF DeleteSource
    <3>2. tx[c].ids = {}
      BY <1>0, <1>3, <2>3 DEF DeleteSource, Goto
    <3>3. Deletes(c) => PurlsOf[doc[c]] = {}
      BY <1>0, <3>1, <3>2 DEF Phase, Deletes
    <3>4. ~ tx'[c].ins
      <4>1. ~ CreateDoc(c)
        BY <3>1, Guards
      <4>2. tx'[c].ins = tx[c].ins
        BY <4>1, TxFields
      <4> QED
        BY <1>0, <3>1, <4>2 DEF Phase
    <3> QED
      BY <3>3, <3>4
  <2> QED
    BY <2>1, <2>2, <2>3
<1> QED
  BY <1>1, <1>2, <1>3, PurlSame

-----------------------------------------------------------------------------
(* The commit, as PurlInv sees it *)

LEMMA PurlCommit ==
  ASSUME Base1, PurlInv, NEW c \in Clients, Step(c), Commit(c) PROVE PurlInv'
<1> DEFINE d == doc[c]
           t == tx[c]
           B(e) == Closure(PurlsOf[doc[e]]) \cap Base
<1>0. /\ pc \in [Clients -> {"idle"} \cup UploadSteps \cup DeleteSteps \cup DownloadSteps]
      /\ tx \in [Clients -> Transaction] /\ purls \subseteq Nodes /\ rows \subseteq Docs
      /\ excuse \in [blob : SUBSET Docs, current : SUBSET Identifiers, purls : SUBSET Base]
      /\ \A e \in Clients : Phase(pc[e], kind[e], doc[e], tx[e])
  BY DEF Base1, TypeOK, Phases
<1>w. \A e \in Clients : (tx[e].ins => doc[e] \notin rows) /\ (tx[e].delRow => doc[e] \in rows)
  BY DEF Base1, OneWriter
<1>r. PurlRows /\ PurlTx(c)
  BY DEF PurlInv
<1>1. /\ rows' = Visible(c) /\ purls' = (purls \cup t.fresh) \ t.gone /\ pc[c] = "commit"
      /\ excuse'.purls = {b \in excuse.purls \cup (IF d \in Advisories THEN BasesOf[d] ELSE {}) :
                            b \in purls' \/ \E e \in Clients : b \in Contested(e)}
  BY <1>0 DEF Commit
<1>2. /\ d \in Docs /\ kind[c] \in {"upload", "delete"}
      /\ t.fresh # {} => t.ins
      /\ t.gone # {} => kind[c] = "delete" /\ d \in Sboms
      /\ t.ins => kind[c] = "upload" /\ ~ t.delRow /\ t.gone = {}
      /\ t.delRow <=> kind[c] = "delete"
      /\ t.fresh \subseteq Nodes
  BY <1>0, <1>1, Writers DEF Phase, Transaction
<1>3. \A x : x \in rows' <=> (x \in rows /\ ~ (x = d /\ t.delRow)) \/ (x = d /\ t.ins)
  BY <1>1, <1>2 DEF Visible
<1>f. /\ \A e \in Clients \ {c} : pc'[e] = pc[e] /\ kind'[e] = kind[e] /\ doc'[e] = doc[e] /\ tx'[e] = tx[e]
      /\ tx'[c] = NoTx /\ NoTx.fresh = {} /\ NoTx.gone = {} /\ NoTx.ins = FALSE
      /\ pc'[c] \in {"idle", "unlink"} /\ (kind'[c] = "none" \/ (kind'[c] = kind[c] /\ doc'[c] = d))
  <2>1. tx'[c] = NoTx /\ pc'[c] \in {"idle", "unlink"} /\ (kind'[c] = "none" \/ (kind'[c] = kind[c] /\ doc'[c] = d))
    BY <1>0 DEF Commit, Idle, Goto, Base1, TypeOK
  <2> QED
    BY <2>1, Frame DEF Base1, NoTx
\* The committed rows
<1>4. Parents(purls') \subseteq purls' /\ purls' \subseteq Nodes
  <2>1. purls' \subseteq Nodes
    BY <1>0, <1>1, <1>2
  <2>2. ASSUME NEW p \in Parents(purls') PROVE p \in purls'
    <3>1. PICK n \in purls' : p \in Parents({n})
      BY DEF Parents
    <3>2. CASE n \in purls
      <4>1. p \in purls
        BY <1>0, <1>r, <3>1, <3>2, ParentsFacts DEF PurlRows
      <4>2. p \notin t.gone
        BY <1>1, <1>r, <3>1, <3>2 DEF PurlTx
      <4> QED
        BY <1>1, <4>1, <4>2
    <3>3. CASE n \in t.fresh
      <4>1. p \in purls \cup t.fresh
        BY <1>2, <1>r, <3>1, <3>3, ParentsFacts DEF PurlTx
      <4> QED
        BY <1>1, <1>2, <3>3, <4>1
    <3> QED
      BY <1>1, <3>2, <3>3
  <2> QED
    BY <2>1, <2>2
<1>5. \A n \in purls' : BaseOfNode(n) \in purls'
  BY <1>4, BaseThere
<1>6. \A n \in purls' : BaseOfNode(n) \in excuse.purls => BaseOfNode(n) \in excuse'.purls
  BY <1>1, <1>5
<1>7. \A x \in rows' : Targets(x) \subseteq purls'
  <2> SUFFICES ASSUME NEW x \in rows' PROVE Targets(x) \subseteq purls'
    OBVIOUS
  <2>1. CASE x = d /\ t.ins
    BY <1>1, <1>2, <1>r, <2>1 DEF PurlTx
  <2>2. CASE x = d /\ ~ t.ins
    <3>1. x \in rows /\ ~ t.delRow
      BY <1>3, <2>2
    <3> QED
      BY <1>1, <1>2, <1>r, <3>1 DEF PurlRows
  <2>3. CASE x # d
    BY <1>1, <1>3, <1>r, <2>3 DEF PurlRows, PurlTx
  <2> QED
    BY <2>1, <2>2, <2>3
<1>8. \A a \in rows' \cap Advisories : BasesOf[a] \subseteq excuse'.purls
  <2> SUFFICES ASSUME NEW a \in rows' \cap Advisories, NEW b \in BasesOf[a] PROVE b \in excuse'.purls
    OBVIOUS
  <2>1. b \in purls'
    BY <1>7, PurlTypes DEF Targets
  <2>2. b \in excuse.purls \/ a = d
    BY <1>3, <1>r DEF PurlRows
  <2> QED
    BY <1>1, <2>1, <2>2
\* What d needs is in the rows it has inserted.
<1>9. ASSUME NEW n \in purls', n \notin purls
      PROVE  /\ t.ins
             /\ BaseOfNode(n) \in excuse'.purls \/ (d \in Sboms /\ n \in Closure(PurlsOf[d]))
  <2>1. n \in t.fresh /\ t.ins /\ n \in NodesOf(d)
    BY <1>1, <1>2, <1>9, <1>r DEF PurlTx
  <2>2. CASE d \in Sboms
    BY <2>1, <2>2 DEF NodesOf
  <2>3. CASE d \notin Sboms
    <3>1. d \in Advisories /\ n \in BasesOf[d] /\ n \in Base
      BY <1>2, <2>1, <2>3, PurlTypes DEF NodesOf
    <3>2. BaseOfNode(n) = n
      BY <3>1, PurlAssumption DEF BaseOfNode
    <3> QED
      BY <1>1, <2>1, <3>1, <3>2
  <2> QED
    BY <2>1, <2>2, <2>3
<1>10. PurlRows'
  <2>1. ASSUME NEW n \in purls'
        PROVE  \/ BaseOfNode(n) \in excuse'.purls
               \/ \E s \in rows' \cap Sboms : n \in Closure(PurlsOf[s])
    <3>1. CASE n \notin purls
      BY <1>3, <1>9, <3>1
    <3>2. CASE n \in purls /\ BaseOfNode(n) \in excuse.purls
      BY <1>6, <3>2
    <3>3. ASSUME n \in purls, NEW s \in rows \cap Sboms, n \in Closure(PurlsOf[s]), s \notin rows'
          PROVE  BaseOfNode(n) \in excuse'.purls \/ \E x \in rows' \cap Sboms : n \in Closure(PurlsOf[x])
      <4>1. s = d /\ t.delRow /\ kind[c] = "delete" /\ Deletes(c)
        BY <1>2, <1>3, <3>3 DEF Deletes
      <4>2. n \notin t.gone
        BY <1>1
      <4>3. BaseOfNode(n) \in excuse.purls \/ Needed(n, d)
        BY <1>1, <1>r, <3>3, <4>1, <4>2 DEF PurlTx, Leaving
      <4> QED
        BY <1>3, <1>6, <4>3 DEF Needed
    <3> QED
      BY <1>r, <3>1, <3>2, <3>3 DEF PurlRows
  <2> QED
    BY <1>4, <1>7, <1>8, <2>1 DEF PurlRows
\* The other transactions
<1>11. ASSUME NEW e \in Clients \ {c} PROVE PurlTx(e)'
  <2>1. PurlTx(e) /\ Shared(e) \cap t.gone = {} /\ Shared(c) \cap tx[e].gone = {}
    BY DEF PurlInv, PurlPair
  <2>2. /\ tx'[e].fresh \subseteq NodesOf(doc'[e])
        /\ Parents(tx'[e].fresh) \subseteq purls' \cup tx'[e].fresh
        /\ pc'[e] = "commit" /\ tx'[e].ins => Targets(doc'[e]) \subseteq purls' \cup tx'[e].fresh
    BY <1>1, <1>f, <2>1 DEF PurlTx, Shared
  <2>3. ASSUME NEW n \in purls', Parents({n}) \cap tx[e].gone # {} PROVE n \in tx[e].gone
    <3>1. CASE n \in purls
      BY <2>1, <2>3, <3>1 DEF PurlTx
    <3>2. CASE n \notin purls
      <4>1. Parents({n}) \subseteq Parents(t.fresh)
        BY <1>1, <1>2, <3>2, ParentsFacts
      <4> QED
        BY <2>1, <2>3, <4>1 DEF Shared
    <3> QED
      BY <3>1, <3>2
  <2>4. ASSUME NEW x \in rows' \ {doc[e]} PROVE Targets(x) \cap tx[e].gone = {}
    <3>1. CASE x \in rows
      BY <2>1, <2>4, <3>1 DEF PurlTx
    <3>2. CASE x \notin rows
      BY <1>1, <1>3, <2>1, <3>2 DEF Shared
    <3> QED
      BY <3>1, <3>2
  <2>5. ASSUME Deletes(e), pc[e] \in {"sweep", "commit"}, NEW n \in purls' \cap Closure(PurlsOf[doc[e]])
        PROVE  n \in Leaving(e) \/ BaseOfNode(n) \in excuse'.purls \/ Needed(n, doc[e])'
    <3>1. CASE n \notin purls
      <4>1. doc[e] \in rows
        BY <1>0, <1>w, <2>5 DEF Phase, Deletes
      <4>2. d \notin rows /\ d \in rows'
        BY <1>3, <1>9, <1>w, <3>1
      <4> QED
        BY <1>9, <1>f, <3>1, <4>1, <4>2 DEF Needed
    <3>2. CASE n \in purls /\ BaseOfNode(n) \in excuse.purls
      BY <1>6, <3>2
    <3>3. CASE n \in purls /\ n \in Leaving(e)
      BY <3>3
    <3>4. CASE n \in purls /\ Needed(n, doc[e])
      <4>1. PICK s \in rows \cap Sboms : s # doc[e] /\ n \in Closure(PurlsOf[s])
        BY <3>4 DEF Needed
      <4>2. CASE s \in rows'
        BY <1>f, <4>1, <4>2 DEF Needed
      <4>3. CASE s \notin rows'
        <5>1. s = d /\ Deletes(c)
          BY <1>2, <1>3, <4>1, <4>3 DEF Deletes
        <5>2. PurlPair(c, e)
          BY DEF PurlInv
        <5>3. PurlsOf[d] \in SUBSET Qualified /\ PurlsOf[doc[e]] \in SUBSET Qualified
          BY <2>5, <4>1, <5>1, PurlTypes DEF Deletes
        <5>4. BaseOfNode(n) \in Closure(PurlsOf[d]) \cap Closure(PurlsOf[doc[e]]) \cap Base
          BY <4>1, <5>1, <5>3, ClosureFacts
        <5> QED
          BY <1>6, <2>5, <5>1, <5>2, <5>4 DEF PurlPair
      <4> QED
        BY <4>2, <4>3
    <3> QED
      BY <2>1, <2>5, <3>1, <3>2, <3>3, <3>4 DEF PurlTx
  <2>6. Leaving(e)' = Leaving(e) /\ (Deletes(e)' <=> Deletes(e))
    BY <1>f DEF Leaving, Deletes
  <2>7. Deletes(e)' /\ pc'[e] \in {"sweep", "commit"} =>
          \A n \in purls' \cap Closure(PurlsOf[doc'[e]]) :
            n \in Leaving(e)' \/ BaseOfNode(n) \in excuse'.purls \/ Needed(n, doc[e])'
    BY <1>f, <2>5, <2>6
  <2> QED
    BY <1>f, <2>2, <2>3, <2>4, <2>7 DEF PurlTx
<1>12. PurlTx(c)' /\ Shared(c)' = {}
  BY <1>f, ParentsFacts DEF PurlTx, Shared
\* What two deletions share stays excused.
<1>13. ASSUME NEW e \in Clients, NEW o \in Clients, e # o, Deletes(e)', Deletes(o)'
       PROVE  Closure(PurlsOf[doc'[e]]) \cap Closure(PurlsOf[doc'[o]]) \cap Base \subseteq excuse'.purls
  <2>1. \A x \in {e, o} : doc'[x] = doc[x] /\ kind'[x] = kind[x] /\ Deletes(x)
    BY <1>13, <1>f DEF Deletes
  <2> SUFFICES ASSUME NEW b \in Closure(PurlsOf[doc[e]]) \cap Closure(PurlsOf[doc[o]]) \cap Base
               PROVE  b \in excuse'.purls
    BY <2>1
  <2>2. b \in excuse.purls
    BY <1>13, <2>1 DEF PurlInv, PurlPair
  <2>3. "purls" \in Clashes(kind[e], doc[e], kind[o], doc[o])
    BY <2>1 DEF Clashes, Deletes
  <2>4. "purls" \in clash[e]
    BY <1>13, <2>1, <2>3 DEF Base1, Overlaps, Active, Deletes
  <2>5. b \in Contested(e)
    BY <2>4 DEF Contested
  <2> QED
    BY <1>1, <2>2, <2>5
<1>14. ASSUME NEW e \in Clients, NEW o \in Clients, e # o PROVE PurlPair(e, o)'
  <2>1. Shared(e)' \cap tx'[o].gone = {}
    <3>1. CASE e = c
      BY <1>12, <3>1
    <3>2. CASE o = c
      BY <1>f, <3>2
    <3>3. CASE e # c /\ o # c
      <4>1. Shared(e)' = Shared(e) /\ tx'[o] = tx[o]
        BY <1>f, <3>3 DEF Shared
      <4> QED
        BY <1>14, <4>1 DEF PurlInv, PurlPair
    <3> QED
      BY <3>1, <3>2, <3>3
  <2> QED
    BY <1>13, <1>14, <2>1 DEF PurlPair
<1> QED
  BY <1>10, <1>11, <1>12, <1>14 DEF PurlInv

LEMMA PurlInvStep == ASSUME Base1, PurlInv, NEW c \in Clients, Step(c) PROVE PurlInv'
<1>1. CASE Commit(c)
  BY <1>1, PurlCommit
<1>2. CASE CreatePurls(c) \/ CreateRefs(c) \/ GcSnapshot(c) \/ GcSweep(c)
  BY <1>2, PurlCreate, PurlRefs, PurlSnapshot, PurlSweep
<1>3. ASSUME NEW k, NEW d, Begin(c, k, d) PROVE PurlInv'
  BY <1>3, PurlBegin
<1>4. CASE Ends(c) /\ ~ Commit(c)
  BY <1>4, PurlEnds
<1>5. CASE Stays(c) /\ ~ Ends(c) /\ ~ Commit(c)
  BY <1>2, <1>5, PurlQuiet
<1> QED
  BY <1>1, <1>3, <1>4, <1>5, EndsOrStays DEF Base1

-----------------------------------------------------------------------------
(* The theorems *)

DocumentsInv == Base1 /\ BlobInv /\ CurrentInv /\ PurlInv

LEMMA InitDocuments == Init => DocumentsInv
<1> SUFFICES ASSUME Init PROVE DocumentsInv
  OBVIOUS
<1>1. Base1
  BY InitBase
<1>2. BlobInv
  BY DEF Init, BlobInv
<1>3. CurrentInv
  <2>1. \A i \in Identifiers : Same(rows, i) = {}
    BY DEF Init, Same
  <2> QED
    BY <2>1 DEF Init, CurrentInv, Exact, NoTx
<1>4. PurlInv
  <2>1. \A c \in Clients : Shared(c) = {} /\ tx[c] = NoTx /\ kind[c] = "none" /\ pc[c] = "idle"
    BY ParentsFacts DEF Init, Shared, NoTx
  <2>2. rows = {} /\ purls = {} /\ Parents({}) = {}
    BY ParentsFacts DEF Init
  <2>3. \A c \in Clients : PurlTx(c)
    BY <2>1, <2>2 DEF PurlTx, NoTx, Deletes
  <2> QED
    BY <2>1, <2>2, <2>3 DEF PurlInv, PurlRows, PurlPair, Deletes
<1> QED
  BY <1>1, <1>2, <1>3, <1>4 DEF DocumentsInv

LEMMA NextDocuments == DocumentsInv /\ [Next]_vars => DocumentsInv'
<1> SUFFICES ASSUME DocumentsInv, [Next]_vars PROVE DocumentsInv'
  OBVIOUS
<1>1. ASSUME NEW c \in Clients, Step(c) PROVE DocumentsInv'
  BY <1>1, BaseStep, BlobInvStep, CurrentInvStep, PurlInvStep DEF DocumentsInv
<1>2. CASE UNCHANGED vars
  <2>1. UNCHANGED <<backend, corpus, blob, rows, dep, purls, pc, kind, doc, tx, intact, got, clash, excuse>>
    BY <1>2 DEF vars
  <2>2. Base1'
    BY <2>1 DEF DocumentsInv, Base1, TypeOK, Phases, Overlaps, Active, OneWriter
  <2>3. BlobInv'
    BY <2>1 DEF DocumentsInv, BlobInv, Good
  <2>4. CurrentInv'
    BY <2>1 DEF DocumentsInv, CurrentInv, Same, Exact, Visible
  <2>5. PurlInv'
    BY <2>1 DEF DocumentsInv, PurlInv, PurlRows, PurlTx, PurlPair, Deletes, Leaving, Needed, Shared
  <2> QED
    BY <2>2, <2>3, <2>4, <2>5 DEF DocumentsInv
<1> QED
  BY <1>1, <1>2 DEF Next

\* The inductive invariant of uploads, deletions and downloads
THEOREM DocumentsInvariance == Spec => []DocumentsInv
BY InitDocuments, NextDocuments, PTL DEF Spec

\* The rows of a document are never without its blob, but where the code cannot know: the handlers
\* of endpoints/mod.rs write and delete it outside the transaction.
THEOREM RowsHaveBlobs == Spec => []RowHasBlob
<1>1. DocumentsInv => RowHasBlob
  BY DEF DocumentsInv, BlobInv, Good, RowHasBlob
<1> QED
  BY <1>1, DocumentsInvariance, PTL

\* create_doc answers "document vanished" only if a deletion of the same document was under way.
THEOREM VanishedIsExplained == Spec => []VanishedExplained
<1>1. DocumentsInv => VanishedExplained
  BY DEF DocumentsInv, BlobInv, VanishedExplained
<1> QED
  BY <1>1, DocumentsInvariance, PTL

\* A download delivers the whole document, unless an upload or a deletion of it is under way or
\* has left it damaged; part of a document comes from the file system only.
THEOREM DownloadsAreWhole == Spec => []DownloadWhole
<1>1. DocumentsInv => DownloadWhole
  BY DEF DocumentsInv, BlobInv, DownloadWhole
<1> QED
  BY <1>1, DocumentsInvariance, PTL

\* update_deprecated_advisory leaves exactly one advisory of an identifier that is not
\* deprecated, the latest, if no other change of the identifier overlaps.
THEOREM OneIsCurrent == Spec => []OneCurrent
<1>1. DocumentsInv => OneCurrent
  <2> SUFFICES ASSUME DocumentsInv, NEW a \in rows \cap Advisories, Identifier[a] \notin excuse.current
               PROVE  LET same == {b \in rows \cap Advisories : Identifier[b] = Identifier[a]}
                      IN  /\ Cardinality(same \ dep) = 1
                          /\ \A m \in same \ dep, b \in same : Modified[b] <= Modified[m]
    BY DEF OneCurrent
  <2> DEFINE S == Same(rows, Identifier[a])
  <2>1. S = {b \in rows \cap Advisories : Identifier[b] = Identifier[a]}
    BY DEF Same
  <2>2. S # {} /\ Exact(S)
    BY <2>1, PurlTypes DEF DocumentsInv, CurrentInv
  <2> HIDE DEF S
  <2>3. PICK m \in MostRecent(S) : S \ dep = {m}
    BY <2>2 DEF Exact
  <2>4. Cardinality(S \ dep) = 1
    BY <2>3, FS_Singleton
  <2>5. \A b \in S : Modified[b] <= Modified[m]
    BY <2>3 DEF MostRecent
  <2> QED
    BY <2>1, <2>3, <2>4, <2>5
<1> QED
  BY <1>1, DocumentsInvariance, PTL

\* gc_purls_after_sbom_deletion.sql removes what no SBOM needs any more and nothing else, whatever
\* is created and deleted meanwhile.
THEOREM PurlsAreExact == Spec => []PurlsExact
<1>1. DocumentsInv => PurlsExact
  BY DEF DocumentsInv, PurlInv, PurlRows, PurlsExact
<1> QED
  BY <1>1, DocumentsInvariance, PTL

================================================================================
