------------------------------ MODULE Documents ------------------------------
(***************************************************************************)
(* The documents of the service: uploads, deletions and downloads of SBOMs *)
(* and advisories, which keep three things in step that no transaction     *)
(* spans: the blob in the storage, the rows of the document and what other *)
(* documents share with it (the deprecation of older advisories of the     *)
(* same identifier, the rows of PURLs).                                    *)
(*                                                                         *)
(*   modules/fundamental/src/{sbom,advisory}/endpoints/mod.rs  handlers    *)
(*   modules/ingestor/src/service/mod.rs, graph/**             ingestion   *)
(*   modules/storage/src/service/{fs,s3}.rs                    blobs       *)
(*                                                                         *)
(* A handler runs statement by statement in a READ COMMITTED transaction:  *)
(* rows, dep and purls are what is committed, tx[c] what client c has      *)
(* written and not committed.  A statement that meets a row another        *)
(* transaction has written waits for it (a guard), as PostgreSQL does.     *)
(***************************************************************************)
EXTENDS PurlGc, Integers

CONSTANTS Clients, Sboms, Advisories,
          PurlsOf,    \* [Sboms -> SUBSET Qualified]: the PURLs of its packages
          BasesOf,    \* [Advisories -> SUBSET Base]: the packages it has a status for
          Identifier, \* [Advisories -> ...]
          Modified,   \* [Advisories -> Nat]; NULL, which sorts first, is the largest
          Corpora,    \* the sets of documents that behaviours work with
          Backends    \* a subset of {"fs", "s3"}

Docs == Sboms \cup Advisories

ASSUME DocumentsAssumption ==
  /\ Sboms \cap Advisories = {}
  /\ PurlsOf \in [Sboms -> SUBSET Qualified]
  /\ BasesOf \in [Advisories -> SUBSET Base]
  /\ Modified \in [Advisories -> Nat]
  /\ Corpora \subseteq SUBSET Docs
  /\ Backends \subseteq {"fs", "s3"}

VARIABLES backend, corpus,  \* chosen once
          blob,   \* content under the digest of a document, as the storage has it
          rows,   \* documents with a source_document and an sbom or advisory row
          dep,    \* advisory.deprecated
          purls,  \* rows of base_purl, versioned_purl and qualified_purl
          pc, kind, doc, \* the handler a client waits for, and where it is
          tx,
          intact, \* fs: nobody truncated or unlinked the file since c created it
          got,    \* what a download found
          clash,  \* history: how other handlers overlapped with this one
          excuse  \* history: what overlapping handlers may have left behind

vars == <<backend, corpus, blob, rows, dep, purls, pc, kind, doc, tx, intact,
          got, clash, excuse>>

NoMarks == [a \in {} |-> FALSE]
NoTx == [ins |-> FALSE, delRow |-> FALSE, delSource |-> FALSE, fresh |-> {},
         gone |-> {}, marks |-> NoMarks, plan |-> NoMarks, ids |-> {}]

\* Foreign keys of a document: sbom_node_purl_ref to qualified_purl,
\* purl_status to base_purl.
Targets(d) == IF d \in Sboms THEN PurlsOf[d] ELSE BasesOf[d]

\* The rows PurlCreator makes sure of; an advisory creates base PURLs only.
NodesOf(d) == IF d \in Sboms THEN Closure(PurlsOf[d]) ELSE BasesOf[d]

Visible(c) == (rows \cup {d \in {doc[c]} : tx[c].ins}) \ {d \in {doc[c]} : tx[c].delRow}

Others(c) == {e \in Clients \ {c} : pc[e] # "idle"}

\* Rows of sbom or advisory c has locked.
LockedRows(c) == DOMAIN tx[c].marks \cup {d \in {doc[c]} : tx[c].delRow}

\* Rows of PURLs c has a key-share lock on, as its foreign keys need them.
Shared(c) == Parents(tx[c].fresh) \cup
             (IF pc[c] = "commit" /\ tx[c].ins THEN Targets(doc[c]) ELSE {})

-----------------------------------------------------------------------------
(* History: which handlers overlapped. *)

Clashes(k, d, k2, d2) ==
  {x \in {"blob"} : d = d2 /\ {k, k2} = {"upload", "delete"}} \cup
  {x \in {"read"} : d = d2 /\ k = "download" /\ k2 # "download"} \cup
  {x \in {"current"} : /\ {d, d2} \subseteq Advisories /\ Identifier[d] = Identifier[d2]
                       /\ "download" \notin {k, k2}} \cup
  {x \in {"purls"} : /\ {d, d2} \subseteq Sboms /\ {k, k2} = {"delete"}
                     /\ Closure(PurlsOf[d]) \cap Closure(PurlsOf[d2]) # {}}

Excused(d, clashes) ==
  [blob    |-> excuse.blob \cup {x \in {d} : "blob" \in clashes},
   current |-> excuse.current \cup {Identifier[x] : x \in {y \in {d} : "current" \in clashes}},
   purls   |-> excuse.purls \cup UNION {Closure(PurlsOf[x]) \cap Base :
                                          x \in {y \in {d} : "purls" \in clashes}}]

-----------------------------------------------------------------------------
Init ==
  /\ backend \in Backends /\ corpus \in Corpora
  /\ blob = [d \in Docs |-> "absent"]
  /\ rows = {} /\ dep = {} /\ purls = {}
  /\ pc = [c \in Clients |-> "idle"]
  /\ kind = [c \in Clients |-> "none"]
  /\ doc \in [Clients -> {CHOOSE d \in Docs : TRUE}]
  /\ tx = [c \in Clients |-> NoTx]
  /\ intact = [c \in Clients |-> FALSE]
  /\ got = [c \in Clients |-> "none"]
  /\ clash = [c \in Clients |-> {}]
  /\ excuse = [blob |-> {}, current |-> {}, purls |-> {}]

Goto(c, where) == pc' = [pc EXCEPT ![c] = where]

First(k) == IF k = "upload" THEN "store" ELSE IF k = "delete" THEN "find" ELSE "look"

\* A request arrives and its transaction begins.
Begin(c, k, d) ==
  /\ pc[c] = "idle"
  /\ Goto(c, First(k))
  /\ kind' = [kind EXCEPT ![c] = k]
  /\ doc' = [doc EXCEPT ![c] = d]
  /\ clash' = [e \in Clients |->
       IF e = c THEN UNION {Clashes(k, d, kind[o], doc[o]) : o \in Others(c)}
       ELSE clash[e] \cup (IF e \in Others(c) THEN Clashes(kind[e], doc[e], k, d) ELSE {})]
  /\ excuse' = Excused(d, clash'[c])
  /\ UNCHANGED <<backend, corpus, blob, rows, dep, purls, tx, intact, got>>

\* The handler returns; a transaction that is not committed is rolled back.
Idle(c) ==
  /\ Goto(c, "idle")
  /\ kind' = [kind EXCEPT ![c] = "none"]
  /\ doc' = [doc EXCEPT ![c] = CHOOSE d \in Docs : TRUE]
  /\ tx' = [tx EXCEPT ![c] = NoTx]
  /\ intact' = [intact EXCEPT ![c] = FALSE]
  /\ got' = [got EXCEPT ![c] = "none"]
  /\ clash' = [clash EXCEPT ![c] = {}]

\* An error, a client that goes away or a crash, wherever the handler is: also
\* between the commit and the removal of the blob, whose errors are only logged.
Fail(c) ==
  /\ pc[c] # "idle"
  /\ excuse' = IF pc[c] = "write" THEN [excuse EXCEPT !.blob = @ \cup {doc[c]}] ELSE excuse
  /\ Idle(c)
  /\ UNCHANGED <<backend, corpus, blob, rows, dep, purls>>

-----------------------------------------------------------------------------
(* Upload: the blob first, then the rows. *)

\* A store that is through heals what overlapping handlers did to the blob
\* before, unless one overlaps with this upload, too.
Stored(c, whole) ==
  excuse' = IF whole /\ "blob" \notin clash[c]
            THEN [excuse EXCEPT !.blob = @ \ {doc[c]}] ELSE excuse

\* S3: one PUT of the object.
StorePut(c) ==
  /\ pc[c] = "store" /\ backend = "s3"
  /\ blob' = [blob EXCEPT ![doc[c]] = "full"]
  /\ Stored(c, TRUE)
  /\ Goto(c, "insert")
  /\ UNCHANGED <<backend, corpus, rows, dep, purls, kind, doc, tx, intact, got, clash>>

\* The file system: File::create truncates the file that is already there ...
StoreCreate(c) ==
  /\ pc[c] = "store" /\ backend = "fs"
  /\ blob' = [blob EXCEPT ![doc[c]] = "partial"]
  /\ intact' = [e \in Clients |-> e = c \/ (intact[e] /\ doc[e] # doc[c])]
  /\ Goto(c, "write")
  /\ UNCHANGED <<backend, corpus, rows, dep, purls, kind, doc, tx, got, clash, excuse>>

\* ... and the content is written to the file that was opened.
StoreWrite(c) ==
  /\ pc[c] = "write"
  /\ blob' = IF intact[c] THEN [blob EXCEPT ![doc[c]] = "full"] ELSE blob
  /\ Stored(c, intact[c])
  /\ intact' = [intact EXCEPT ![c] = FALSE]
  /\ Goto(c, "insert")
  /\ UNCHANGED <<backend, corpus, rows, dep, purls, kind, doc, tx, got, clash>>

\* Another transaction has inserted or deleted the digest and not committed.
DigestBusy(c) ==
  \E e \in Others(c) : doc[e] = doc[c] /\ (tx[e].ins \/ tx[e].delSource)

\* create_doc and, for a new document, the insert of its row.
CreateDoc(c) ==
  /\ pc[c] = "insert" /\ ~ DigestBusy(c)
  /\ IF doc[c] \in rows
     THEN Goto(c, "lookup") /\ UNCHANGED tx
     ELSE /\ tx' = [tx EXCEPT ![c].ins = TRUE]
          /\ Goto(c, IF doc[c] \in Sboms THEN "purls" ELSE "snapshot")
  /\ UNCHANGED <<backend, corpus, blob, rows, dep, purls, kind, doc, intact, got, clash, excuse>>

\* Mutant of Lookup: only advisories that are not deprecated are looked up.
LookupCurrent(c) ==
  /\ pc[c] = "lookup"
  /\ Goto(c, IF doc[c] \in rows \ dep THEN "commit" ELSE "vanished")
  /\ UNCHANGED <<backend, corpus, blob, rows, dep, purls, kind, doc, tx, intact, got, clash, excuse>>

\* The digest exists: find the document that has it.
Lookup(c) ==
  /\ pc[c] = "lookup"
  /\ Goto(c, IF doc[c] \in rows THEN "commit" ELSE "vanished")
  /\ UNCHANGED <<backend, corpus, blob, rows, dep, purls, kind, doc, tx, intact, got, clash, excuse>>

\* PurlCreator: INSERT .. ON CONFLICT DO NOTHING, which waits for whoever has
\* inserted or deleted the same row.
CreatePurls(c) ==
  LET ns == NodesOf(doc[c]) IN
  /\ pc[c] = "purls"
  /\ \A e \in Others(c) : ns \cap (tx[e].fresh \cup tx[e].gone) = {}
  /\ tx' = [tx EXCEPT ![c].fresh = ns \ purls]
  /\ Goto(c, "refs")
  /\ UNCHANGED <<backend, corpus, blob, rows, dep, purls, kind, doc, intact, got, clash, excuse>>

\* The rows with foreign keys to PURLs; if one is missing, Fail is what is left.
CreateRefs(c) ==
  /\ pc[c] = "refs"
  /\ \A e \in Others(c) : Targets(doc[c]) \cap tx[e].gone = {}
  /\ Targets(doc[c]) \subseteq purls \cup tx[c].fresh
  /\ Goto(c, "commit")
  /\ UNCHANGED <<backend, corpus, blob, rows, dep, purls, kind, doc, tx, intact, got, clash, excuse>>

-----------------------------------------------------------------------------
(* update_deprecated_advisory(identifier), in uploads and deletions. *)

\* Mutant of MostRecent: ascending order.
LeastRecent(as) == {a \in as : \A b \in as : Modified[a] <= Modified[b]}

\* DISTINCT ON (identifier) .. ORDER BY modified DESC: NULL comes first.
MostRecent(as) == {a \in as : \A b \in as : Modified[b] <= Modified[a]}

\* What the statement will write, from the snapshot it starts with.
DeprecateSnapshot(c) ==
  LET i == Identifier[doc[c]]
      same == {a \in Visible(c) \cap Advisories : Identifier[a] = i} IN
  /\ pc[c] = "snapshot"
  /\ IF same = {} THEN UNCHANGED tx
     ELSE \E m \in MostRecent(same) : tx' = [tx EXCEPT ![c].plan = [a \in same |-> a # m]]
  /\ Goto(c, "mark")
  /\ UNCHANGED <<backend, corpus, blob, rows, dep, purls, kind, doc, intact, got, clash, excuse>>

\* It waits for rows that are locked, skips those that are gone and writes the
\* others: what the snapshot said of them is not asked again.
DeprecateMark(c) ==
  /\ pc[c] = "mark"
  /\ \A e \in Others(c) : DOMAIN tx[c].plan \cap LockedRows(e) = {}
  /\ tx' = [tx EXCEPT ![c].marks = [a \in DOMAIN tx[c].plan \cap Visible(c) |-> tx[c].plan[a]],
                      ![c].plan = NoMarks]
  /\ Goto(c, IF kind[c] = "upload" THEN "purls" ELSE "source")
  /\ UNCHANGED <<backend, corpus, blob, rows, dep, purls, kind, doc, intact, got, clash, excuse>>

-----------------------------------------------------------------------------
(* Deletion: the rows first, then the blob. *)

\* Mutant of Find: the blob is removed before the rows.
FindAndUnlink(c) ==
  /\ pc[c] = "find"
  /\ IF doc[c] \in rows
     THEN /\ tx' = [tx EXCEPT ![c].ids = IF doc[c] \in Sboms THEN PurlsOf[doc[c]] ELSE {}]
          /\ blob' = [blob EXCEPT ![doc[c]] = "absent"]
          /\ Goto(c, "delete")
          /\ UNCHANGED <<kind, doc, intact, got, clash>>
     ELSE Idle(c) /\ UNCHANGED blob
  /\ UNCHANGED <<backend, corpus, rows, dep, purls, excuse>>

\* Mutant of Find: the PURLs are captured when the references are already deleted.
FindWithoutCapture(c) ==
  /\ pc[c] = "find"
  /\ IF doc[c] \in rows
     THEN Goto(c, "delete") /\ UNCHANGED <<kind, doc, tx, intact, got, clash>>
     ELSE Idle(c)
  /\ UNCHANGED <<backend, corpus, blob, rows, dep, purls, excuse>>

\* fetch_sbom or fetch_advisory; delete_sboms then captures the PURLs.
Find(c) ==
  /\ pc[c] = "find"
  /\ IF doc[c] \in rows
     THEN /\ tx' = [tx EXCEPT ![c].ids = IF doc[c] \in Sboms THEN PurlsOf[doc[c]] ELSE {}]
          /\ Goto(c, "delete")
          /\ UNCHANGED <<kind, doc, intact, got, clash>>
     ELSE Idle(c)
  /\ UNCHANGED <<backend, corpus, blob, rows, dep, purls, excuse>>

\* DELETE .. RETURNING: nothing is returned, and nothing is done, if another
\* handler has deleted the document since.
DeleteRow(c) ==
  /\ pc[c] = "delete"
  /\ \A e \in Others(c) : doc[c] \notin LockedRows(e)
  /\ IF doc[c] \in rows
     THEN /\ tx' = [tx EXCEPT ![c].delRow = TRUE]
          /\ Goto(c, IF doc[c] \in Sboms THEN "source" ELSE "snapshot")
          /\ UNCHANGED <<kind, doc, intact, got, clash>>
     ELSE Idle(c)
  /\ UNCHANGED <<backend, corpus, blob, rows, dep, purls, excuse>>

DeleteSource(c) ==
  /\ pc[c] = "source"
  /\ tx' = [tx EXCEPT ![c].delSource = TRUE]
  /\ Goto(c, IF tx[c].ids # {} THEN "gc" ELSE "commit")
  /\ UNCHANGED <<backend, corpus, blob, rows, dep, purls, kind, doc, intact, got, clash, excuse>>

\* The snapshot of the garbage collection.
GcSnapshot(c) ==
  /\ pc[c] = "gc"
  /\ tx' = [tx EXCEPT ![c].ids =
       Orphans(@, purls, UNION {PurlsOf[s] : s \in Visible(c) \cap Sboms},
               UNION {BasesOf[a] : a \in Visible(c) \cap Advisories})]
  /\ Goto(c, "sweep")
  /\ UNCHANGED <<backend, corpus, blob, rows, dep, purls, kind, doc, intact, got, clash, excuse>>

\* The rows the DELETEs remove, with those that cascade.
Sweep(c) == Below(tx[c].ids) \cap purls

\* A lock on such a row is waited for, also where it cascades.  A reference that was committed since
\* the snapshot makes the foreign key refuse the statement: Fail is left.
GcSweep(c) ==
  /\ pc[c] = "sweep"
  /\ \A e \in Others(c) : (tx[c].ids \cup Sweep(c)) \cap (Shared(e) \cup tx[e].gone) = {}
  /\ \A d \in rows \ {doc[c]} : Targets(d) \cap Sweep(c) = {}
  /\ tx' = [tx EXCEPT ![c].gone = Sweep(c), ![c].ids = {}]
  /\ Goto(c, "commit")
  /\ UNCHANGED <<backend, corpus, blob, rows, dep, purls, kind, doc, intact, got, clash, excuse>>

\* delete_blobs, delete_doc: the file is unlinked, whoever still writes to it.
Unlink(c) ==
  /\ pc[c] = "unlink"
  /\ blob' = [blob EXCEPT ![doc[c]] = "absent"]
  /\ Goto(c, "idle")
  /\ kind' = [kind EXCEPT ![c] = "none"]
  /\ doc' = [doc EXCEPT ![c] = CHOOSE d \in Docs : TRUE]
  /\ tx' = [tx EXCEPT ![c] = NoTx]
  /\ intact' = [e \in Clients |-> intact[e] /\ doc[e] # doc[c]]
  /\ got' = [got EXCEPT ![c] = "none"]
  /\ clash' = [clash EXCEPT ![c] = {}]
  /\ UNCHANGED <<backend, corpus, rows, dep, purls, excuse>>

-----------------------------------------------------------------------------
\* The packages of an SBOM whose deletion overlaps with that of another one
Contested(e) == IF "purls" \in clash[e] THEN Closure(PurlsOf[doc[e]]) \cap Base ELSE {}

\* The commit of an upload or a deletion.  An advisory leaves base PURLs that
\* no garbage collection looks for; a commit that overlapped with no other one
\* of its identifier leaves the deprecation exact.
Commit(c) ==
  LET d == doc[c]  t == tx[c] IN
  /\ pc[c] = "commit"
  /\ rows' = Visible(c)
  /\ dep' = ((dep \ DOMAIN t.marks) \cup {a \in DOMAIN t.marks : t.marks[a]}) \cap Visible(c)
  /\ purls' = (purls \cup t.fresh) \ t.gone
  /\ excuse' = [excuse EXCEPT
       !.current = @ \ {Identifier[a] : a \in {x \in {d} : t.marks # NoMarks /\ "current" \notin clash[c]}},
       !.purls = {b \in @ \cup (IF d \in Advisories THEN BasesOf[d] ELSE {}) :
                    b \in purls' \/ \E e \in Clients : b \in Contested(e)}]
  /\ IF t.delRow
     THEN /\ Goto(c, "unlink")
          /\ tx' = [tx EXCEPT ![c] = NoTx]
          /\ UNCHANGED <<kind, doc, intact, got, clash>>
     ELSE Idle(c)
  /\ UNCHANGED <<backend, corpus, blob>>

-----------------------------------------------------------------------------
(* Download: the row, then the blob, without a transaction around both. *)

\* Mutant of Look: the storage is asked for any digest.
LookAnyway(c) ==
  /\ pc[c] = "look"
  /\ Goto(c, "retrieve")
  /\ UNCHANGED <<backend, corpus, blob, rows, dep, purls, kind, doc, tx, intact, got, clash, excuse>>

Look(c) ==
  /\ pc[c] = "look"
  /\ IF doc[c] \in rows
     THEN Goto(c, "retrieve") /\ UNCHANGED <<kind, doc, tx, intact, got, clash>>
     ELSE Idle(c)
  /\ UNCHANGED <<backend, corpus, blob, rows, dep, purls, excuse>>

Retrieve(c) ==
  /\ pc[c] = "retrieve"
  /\ got' = [got EXCEPT ![c] = blob[doc[c]]]
  /\ Goto(c, "answer")
  /\ UNCHANGED <<backend, corpus, blob, rows, dep, purls, kind, doc, tx, intact, clash, excuse>>

\* The answer is sent: a download, or the error "document vanished".
Answer(c) ==
  /\ pc[c] \in {"answer", "vanished"}
  /\ Idle(c)
  /\ UNCHANGED <<backend, corpus, blob, rows, dep, purls, excuse>>

-----------------------------------------------------------------------------
Step(c) ==
  \/ \E k \in {"upload", "delete", "download"}, d \in corpus : Begin(c, k, d)
  \/ Fail(c)
  \/ StorePut(c) \/ StoreCreate(c) \/ StoreWrite(c)
  \/ CreateDoc(c) \/ Lookup(c) \/ CreatePurls(c) \/ CreateRefs(c)
  \/ DeprecateSnapshot(c) \/ DeprecateMark(c)
  \/ Find(c) \/ DeleteRow(c) \/ DeleteSource(c) \/ GcSnapshot(c) \/ GcSweep(c)
  \/ Unlink(c) \/ Commit(c)
  \/ Look(c) \/ Retrieve(c) \/ Answer(c)

Next == \E c \in Clients : Step(c)

Spec == Init /\ [][Next]_vars

-----------------------------------------------------------------------------
\* A document with rows has its whole blob.  The exceptions are those of the
\* code: an upload that is writing the same file, one that stopped in the middle
\* (File::create has truncated the file), and an upload and a deletion of the
\* same content that overlap.  The next upload of the document heals it.
RowHasBlob ==
  \A d \in rows : \/ blob[d] = "full"
                  \/ d \in excuse.blob
                  \/ \E c \in Clients : pc[c] = "write" /\ doc[c] = d

\* "document vanished" is the answer only to an upload that overlapped with a
\* deletion of the same document.
VanishedExplained == \A c \in Clients : pc[c] = "vanished" => "blob" \in clash[c]

\* A download of a document that exists delivers all of it, unless an upload or
\* a deletion of it overlaps with the download or left it damaged; and only the
\* file system delivers a part.
DownloadWhole ==
  \A c \in Clients : pc[c] = "answer" =>
    /\ got[c] = "full" \/ doc[c] \in excuse.blob \/ "read" \in clash[c]
    /\ got[c] = "partial" => backend = "fs"

\* Of all advisories with an identifier exactly one is not deprecated, and none
\* was modified later.  Uploads and deletions of the same identifier that
\* overlap may break it; the next one that overlaps with none repairs it.
OneCurrent ==
  \A a \in rows \cap Advisories :
    LET same == {b \in rows \cap Advisories : Identifier[b] = Identifier[a]} IN
    Identifier[a] \notin excuse.current =>
      /\ Cardinality(same \ dep) = 1
      /\ \A m \in same \ dep, b \in same : Modified[b] <= Modified[m]

\* The PURLs are those that are needed.  What a committed document refers to is
\* there, whatever garbage was collected meanwhile; and a PURL that no SBOM needs
\* has been collected, in spite of failed, repeated and overlapping uploads and
\* deletions: what remains belongs to a package an advisory has had a status for,
\* or to two SBOMs that were deleted at once.
PurlsExact ==
  /\ \A d \in rows : Targets(d) \subseteq purls
  /\ \A n \in purls : \/ BaseOfNode(n) \in excuse.purls
                      \/ \E s \in rows \cap Sboms : n \in Closure(PurlsOf[s])
=============================================================================
