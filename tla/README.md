# Verification of trustify

trustify keeps SBOMs, advisories and vulnerabilities in PostgreSQL and a blob
store.  Documents come in through a REST API and through *importers*, jobs that
walk external sources on a schedule.  Several processes (API servers, importer
servers) share one database; nothing but the database coordinates them.

This directory holds TLA+ models of the parts of trustify whose correctness
depends on interleavings, failures or time, TLC configurations that check them
on small instances, and proofs that TLAPS checks for every value of the
constants.  Paths below are relative to the root of the repository.

## Inventory

| Component | State | Operations | What is hard |
|---|---|---|---|
| Importer lease, `modules/importer/src/runner/common/heartbeat.rs` | column `heartbeat` of a row, the pump and token of each `Heart` | `Heart::new`, `pump`, `beat`, drop | compare-and-swap between replicas, stalled or lost writes, a lease measured in wall-clock time |
| Importer server, `modules/importer/src/server/mod.rs` | the list of Hearts of the process, the table `importer` | list, `reap`, spawn, `import` | works on a list read before awaits; crashes; a limit on jobs; starvation |
| Cancellation and progress, `server/context.rs`, `server/progress.rs` | token, time of the last check, counters | `check`, `increment`, `finish` | answers that are up to 20 s old, writes behind the back of clients |
| Importer service, `modules/importer/src/service.rs`, `endpoints.rs` | table `importer`: configuration, revision, state, `last_run`, `last_success`, continuation | create, read, update, patch, enable, force, delete, start, finish, progress | optimistic concurrency by revision, several writers of which some name no revision |
| Importer runners, `modules/importer/src/runner` | continuation tokens, the start of the last success, working copies | one walker per source: csaf, sbom, osv, cve, curation, nvd, cwe, quay, clearly defined | partial runs, resumption, a source that changes during a run, a run that outlives its importer |
| Analysis graphs, `modules/analysis/src/service` | cache of graphs, map of loads in progress, queue of the background loader | `load_graph`, `queue_load`, `clear_all_graphs` | coalescing of concurrent loads, cancellation of futures, cache against deletes |
| Analysis queries, `collector.rs`, `load/rank.rs` of the same | visited nodes and looked-up ancestors of one query, shared by its futures | what a node consists of and is a part of; the latest SBOMs of each product | circles across SBOMs, futures that race for a node, links that are stored in one direction and computed in the other, SBOMs that come and go |
| Storage, `modules/storage/src/service` | files or S3 objects by digest | store, retrieve, delete | partly written files, a delete racing a store |
| Ingestor, `modules/ingestor/src` | source documents; rows of SBOMs, advisories, vulnerabilities, products, PURLs | `ingest`, the loaders of SPDX, CycloneDX, OSV, CVE, NVD and CSAF documents | the blob and the row are written by different systems; duplicates; rows that documents share, in whatever order they come; what a loader makes of a version range |
| Version comparison, `migration/src/**` (PL/pgSQL) | none | `version_matches`, one comparison per scheme | pre-releases, missing components, open ends |
| Pages, `modules/fundamental/src/{sbom,vulnerability,purl,advisory}` | the same tables | which packages are affected by what | five queries, written independently, that have to agree |
| Document endpoints, `modules/fundamental/src/{sbom,advisory}` | the same, and the blobs | upload, delete, download | commit first, delete the blob afterwards; deprecation of advisories and garbage collection of PURLs under concurrent transactions |
| SBOM groups, `modules/fundamental/src/sbom_group` | a forest of groups with revisions; the assignments of SBOMs | create, update, delete, assign | the check for cycles is not in the transaction of its competitor; assignments are rows of their own, guarded by the revision of their SBOM |
| Labels, `sbom/service/label.rs`, `advisory/service/mod.rs` | a column of the document's row | set, patch | read and write under a row lock |
| User preferences, `modules/user/src/service.rs` | rows with revisions | set, get, delete | upsert and revision |
| Token provider, `common/auth/src/client/provider/openid.rs` | cached token behind a lock | refresh | double-checked locking, failed refresh |
| Pagination cache, `common/src/db/pagination_cache.rs` | cached totals | get | staleness |
| Health checks, `common/infrastructure/src/health` | counters | run, increment | leaking by time, limits |
| Queries, parsers, migrations, UI, CLI | none that is shared | | pure data conversion or wiring |

What makes each part correct:

* *lease*: an importer changes hands only when nobody renewed it for
  `2 * RATE`; two imports of one importer are not under way together;
* *server*: never more jobs than configured; the row tells the truth about the
  run; runs that died are finished; every due importer gets its turn; unwanted
  runs are stopped; nobody takes an import over that is at work; the loop goes on;
* *service*, *preferences*, *assignments*: no update is lost when the caller names a
  revision, and a request has its effect as a whole;
* *runners*: no published document is skipped for good;
* *analysis*: a load that failed can be tried again; the cache does not serve an
  empty graph; a walk finds all that is related and ends; the way up is the way
  down reversed; the latest search returns the newest SBOM of each component of
  a product, in whatever order they were ingested;
* *documents*: no row without its blob; one current advisory per identifier;
  no row of a PURL that nothing refers to;
* *correlation*: what an advisory says is affected is shown wherever the package
  is, and nothing else is; the order of uploads does not matter;
* *groups*: the parent relation has no cycle;
* *health check*: a burst is reported, and the check recovers.

## Plan

Modules, in the order in which they were added:

1. `FailureRate`: the leaky bucket; small and timed, with type correctness and both
   of its guarantees proved (`Clock_proofs`).
2. `Heartbeat`, `HeartbeatLease`: the lease with a clock, the abstract lease it
   implements, mutual exclusion proved (`Clock_proofs`).
3. `ImporterServer`, `MCImporterServer`, `ImporterServer_proofs`: the loop, reap, spawn and import over the
   table, composed of replicas, pumps, clients and time.
4. `ImporterRevisions`: revisions as compare-and-swap, the two statements of `update`
   and of a patch.
5. `AnalysisLoad`, `AnalysisLoad_proofs`: shared loads, dropped futures, the cache
   and the queue of the loader.
6. `SbomGroups`, `SbomGroups_proofs`: acyclicity under concurrent requests.
7. `Documents` with `PurlGc`, `Documents_proofs`: uploads, deletions and downloads over
   the blob store and the database, with crashes.
8. `ImporterRuns`, `ImporterRuns_proofs`: what the runners ask for, and whether anything
   is missed.
9. `Versions`, `AdvisoryLoaders`, `SbomLoaders`, `Correlation`, `Views`, checked
   against `AdvisoryMeaning`: from documents to what the pages show.
10. `Traversal` and `Latest` on top of them: walks across SBOMs and the search for
    the latest; `Correlation_proofs` is about `Correlation`, `Views` and `Traversal`.
11. `Assignments` and `UserPreferences`: the other rows that requests change by
    named revisions, checked together with `ImporterRevisions`; `Revisions_proofs` is
    about all three.

What is left: the token provider and the pagination cache, the query language (the
SQL filter and its counterpart in memory), the pages' reads across statements.

## Modules

### FailureRate

`common/infrastructure/src/health/checks/failure.rs`.  `Increment` is
`FailureRateHandle::increment`, `RunAt` is `run_at` with `Elapsed` and `Leaked`
for its arithmetic, `Pass` lets time pass.  Both operations run under the lock
of the state, so each is one step.  `lastFailure`, `recent` and `verdict` record
what the properties compare.

### Heartbeat and HeartbeatLease

One row of the table and any number of Hearts, of whatever replica.  `List` and
`Spawn` are the part of the loop that decides whether to start a Heart,
`BeatBegin` takes the time stamp of a write, and `Acquire`, `AcquireFail`,
`BeatOk` and `BeatFail` are the ways in which the UPDATE ends: it matches, it
does not match, it fails without effect, or it takes effect and the answer is
lost (`FailedBeat`).  A failed beat cancels the token of the import and the pump
goes on.  `WorkDone` and `WorkCancelled` are the import seen from here: it may
ignore its token for as long as it likes.  `Stop` drops a Heart, as the end of
the process does.

Time is a clock of ticks.  Two writes never carry the same time in nanoseconds,
so a heartbeat is a tick with an id.  `OnTime` limits how late a pump may be
(`MaxDelay`); a pump one of whose beats failed is not limited, nor is an import.
There is one clock for all replicas: `is_running` compares the time of one host with a
heartbeat that another one wrote, so `OneActiveRun`, and when a lease expires, are
about hosts whose clocks agree.

`HeartbeatLease` says what the column promises: a lease that is granted when
there is none or when it was not renewed for `2 * Rate`, and renewed by its
holder only.  `Lease` in `Heartbeat` is the refinement mapping.

### ImporterServer

The loop of `Server::run_local` for each replica (`List`, `ReapSkip`, `Reap`,
`ReapError`, `Spawn`, `ListError`), its Hearts (`Acquire`, `AcquireFail`,
`BeatOk`, `BeatFail`), the imports they spawn (`WorkStart`, `WorkStartError`,
`WorkCheck`, `WorkFinish`), clients (`Create`, `Delete`, `ForceRun`, `SetEnabled`),
`Crash` and `Restart`.  Every await on the database separates two actions, so
the list that `Reap` and `Spawn` work on may be out of date.  `Checking` has the
importers whose runner asks whether it is to stop: those of all kinds but
ClearlyDefined and CWE, whose walkers (`clearly_defined/walker.rs:50-92`,
`cwe/walker.rs:48-112`) never do.

Times are abstract: `alive` has the heartbeats younger than `2 * RATE`, of those
that a row or a list still has, and `Expire` makes one of them older,
`BecomeDue` lets the period of an importer pass, and `last_run` keeps only the
order of the times (`Renumber`), which keeps the state space finite without a
bound on the number of runs.  With `Timely` the pump of a Heart that has its row renews
the heartbeat before it expires; with `Prompt` a loop is done with its list before a
heartbeat in it expires.  `strayed` is history: the importers whose run was finished by
somebody who did not know the heartbeat.  A write of the heartbeat is one step; its two
steps and its clock are the subject of `Heartbeat`.  `set_enabled` is a read and
a compare-and-swap on the revision; it succeeds as one step.  A replica in
read-only mode, which lists and reaps as the others do and spawns nothing, is
not modelled.

### ImporterRevisions

One row and its revision, seen from the requests that change it and from a run.
`update` is one UPDATE that compares the revision if it was given one, and,
when it affected no row, a second statement that asks whether the row exists:
`UpdateOk`, `UpdateNone` and `Count`.  `PatchRead` and `PatchWrite` are the two
statements of a patch, which names the revision it read itself.  `RunUpdate` is
the progress of a run, which gives the row a new revision without looking at
it.  `Read` gives a client an ETag it may send later.  `Delete` and `Create`
replace the row by another one.  Configurations are abstract, and what a patch
does to one is left open.

### Assignments and UserPreferences

`Assignments` has the groups and labels of SBOMs.  The requests differ in the rows
they name, what they remove and what they add: `UpdateAssignments`,
`BulkUpdateAssignments` and `PatchAssignments` begin with the same `Bump`, the UPDATE
of the SBOMs' revisions, and go on with `Remove` and `Insert`, the DELETE and the
INSERT with its commit.  `Bump` locks the rows of the SBOMs (`Unlocked`), and that
is what keeps two requests apart.  `DeleteGroup` and `Cascade` are the two halves of
the deletion of a group: it locks the group, and the foreign key removes its
assignments without a lock on, or a new revision of, their SBOMs.  A PUT that keeps a
group and the deletion of that group may wait for each other; `Rollback` ends one of
them, as PostgreSQL does.  `ReadRevision` and `ReadGroups` are the two statements of
GET: the groups may be newer than the revision, never older, and an ETag that is too
old only makes the PUT fail.  `SelectLabels` and `UpdateLabels` are a PATCH of labels
under FOR UPDATE, `SetLabels` the PUT in one statement.  Labels of advisories
go the same way on a row without revision.

`UserPreferences` is one preference: `SetPreference` is one UPDATE or upsert,
`DeletePreference` and `CountPreference` are the two statements of a delete.

`MCRevisions` lets one of the three modules move and the others stay.

### SbomGroups

The hierarchy of groups as the function `parent`.  The services of groups
run in READ COMMITTED transactions, so each statement sees what was committed
before it and the steps of the model are statements: `MoveCheck` is the
recursive query of `validate_no_cycle`, `MoveWrite` the UPDATE with its commit,
`DeleteCheck` counts the children, `DeleteWrite` is the DELETE, which the
foreign key restricts.  A write and the commit that follows it are one step:
a competitor that wants the same row waits for the commit, and nobody else sees
the row before it.  `SerialMoves` says whether updates of a parent may overlap,
`AnySpelling` whether clients may write an id in another way than the service.
Names, labels and revisions of groups are abstracted: an update that fails for
any of them is `Fail`.

### AnalysisLoad

`InnerService::load_graph` for the tasks that serve queries and for the
background loader, each with the window of its `buffered` stream.  `Lookup`,
`EnterVacant`, `EnterOccupied`, `Perform`, `PerformError`, `Insert` and `Report`
are its steps; between two of them another thread may run.  `Drop` is what
happens to the futures that are not finished when the task ends early: at the
first error (`CollectError`) or as the client goes away (`Disconnect`).  It can
only happen where the futures await (`Awaits`).  `Take`, `TakeError` and `Notify`
are the loop of `AnalysisService::loader`.  `Ingest`, `Commit` and `Rollback` are
an upload, whose transaction nobody else sees before `Commit`.  A graph is
either full or empty, which is what a load finds of an SBOM that it does not
see.  `queued` records whose load was ever sent to the loader.  SBOMs are not
deleted: queries get their ids from the database, and an id is never used again.

### Documents and PurlGc

The handlers of `upload`, `delete` and `download` for SBOMs and advisories, each
client with one at a time, statement by statement.  `StorePut` is S3; `StoreCreate`
and `StoreWrite` are `File::create`, which truncates, and the copy.  `CreateDoc` and
`Lookup` are the insert of the digest and the query that follows a conflict,
`CreatePurls` and `CreateRefs` the rows of PURLs and those that refer to them,
`DeprecateSnapshot` and `DeprecateMark` the SQL function
`update_deprecated_advisory`.  A deletion is `Find`, `DeleteRow`, `DeleteSource`,
`GcSnapshot`, `GcSweep`, `Commit`, and `Unlink` after the commit.  `Fail` is an error
at any statement, a client that goes away or a crash: the transaction rolls back,
the blob stays as it is.  Transactions are READ COMMITTED: `Visible` is what a
statement sees, and a statement that meets a row another transaction has written
waits (`LockedRows`, `Shared`).  `PurlGc` is the query that collects PURLs.

`clash` and `excuse` record which handlers overlapped, so that the properties say
what holds in all other cases; an excuse ends when a later handler repairs the
damage.  Abstracted: the inserts into three tables of PURLs are one statement; the
UPDATE of the deprecation takes effect at once when no row is locked; a
transaction has one document.  Uploads of datasets are left out (after a database
error in a dataset, which is only a warning, the commit of the aborted transaction
rolls back), and so is the group that an upload assigns.

### ImporterRuns

One importer of each of six kinds, its run (`cur`), and the run of a deleted
importer that still goes on (`old`).  A kind is what the runners have in common as
to the marker they leave: `http` (`csaf`, `sbom`), `git` (`osv`, `cve`, the curations of
ClearlyDefined), `quay`, `nvd`, `cwe`, `clearly`.  `Start` asks the source (`Asked`),
`Peek` reads the digest of a year before its feed, `Ingest` stores a document,
`Report` goes on after a document that failed, `Drop` leaves out one, `Break` ends the
run with an error, `Finish` writes the marker (`Continuation`), `Crash` and `Reap` end a
run without one.  `Publish` is the source, `Reconfigure`, `Reset` and `Recreate` are
users.  `missed` has what the code is known to give up.

### Versions, AdvisoryLoaders and SbomLoaders

Functions, without state.  `Versions` is the comparison of versions in PL/pgSQL, as the
last migration that replaced each function left it: `mavenver_cmp` of `m0001010`,
`pythonver_cmp` of `m0001040`, `version_matches` of `m0002080`, the others of `m0000010`.
A comparison yields NULL where the function returns NULL, also for an error it catches (an
empty component that is no number, a loop without a bound), and then the bound it was
made for is not checked.  `AdvisoryLoaders` is what the loaders of OSV, CVE, NVD and CSAF
documents make of versions, ranges, events, products and relationships: rows of
`purl_status` and `product_status`.  `SbomLoaders` does the same for CycloneDX and
SPDX: nodes, packages, PURLs, CPEs, checksums, relationships, external nodes, and what
Red Hat's processor adds.  A version is a list of numbers, one of pre-release
identifiers, and Python's marks (`.postN`, `.devN`, `+local`); names, PURLs and CPEs are records of model values.

### Correlation

The tables: which SBOMs and advisories there are, which SBOM is linked to which
product version and to which other SBOM, which record a vulnerability has its data
from.  The upload of an SBOM is `StartSbom` (products), `populate_ancestors` and
`CommitSbom`, or `AbortSbom`; two may overlap.  `IngestAdvisory` is one step, since
`Documents` has its steps.  What cascades is in `DeleteSbom` and `DeleteAdvisory`.

### AdvisoryMeaning and Views

`AdvisoryMeaning` says what a document claims by the standard it is written in, apart
from what the loaders do.  `Views` has the five queries of the pages as they are
written: `SbomPage`, `Counted`, `VulnerabilityPage`, `PurlPage` and `Analysis`, and the
properties that compare them with the claims and with each other.  The exceptions
are in the properties: all but the first interval of a range; versions of other than
three components where the scheme is semver; ranges without an order; packages and
PURLs without a version; versions of Maven and Python that `Comparable` leaves out; NVD matches without bounds; a record that is deprecated by
one of another source with its identifier; a context must be one the SBOM describes.

### Traversal

`perform_load_graph` is the graph of an SBOM.  `resolve_external_sbom` finds what an
external node stands for, `resolve_rh_external_sbom_ancestors` the external nodes that
stand for a package.  A walk is what `Collector` does for one node and one direction:
its futures are the set `todo`, in any order, which allows more than `buffered` does.
`Collect` visits a node (`visited` is the set all futures share), `Resolve` asks what
an external node stands for, `Enter` loads the graph of the other SBOM, looks its
ancestors up once (`known` is `AncestorCache`) and goes on there.  `Elsewhere` is any
action of `Correlation` meanwhile.  The statements of one resolution are one step,
loading and looking up as well.  A cached graph is that of a committed SBOM; how it
gets into the cache is the subject of `AnalysisLoad`.  A query that finds several
nodes makes as many walks, which share nothing but the ancestors that were looked
up.  Warnings are left out.

With a depth of three or more, or a filter, what is shown below a node depends on
which future reached it first and how deep it was then.  So `WalkComplete` promises
everything only without limits, and next to the node that was asked for; in all
cases nothing unrelated is shown.

`WayBack` is about the external nodes of Red Hat's documents only.  The way up
(`modules/analysis/src/service/mod.rs:376-431`) does not look at the type of an external
node: one of an SPDX or CycloneDX document whose reference has a checksum stands for a
package, too, while the way down of those goes to the document they name.

### Latest

`load_latest_graphs_query`, without state of its own.  Phase 1 is
`batch_resolve_direct_cpe_matches`, phases 2a and 2b are `AncestorCpes` of the direct
and of all ancestors, `resolve_sbom_cpes` combines them, `Precedes` is the order of
`apply_rank`.  The node of the document, which has the document's name, and the
cut-off by date are left out.  Where the code takes the first row the database
returns, `Candidate` chooses one.  `LatestExpected` says what the search is for, from
the documents alone (`Links` instead of the stored `ancestors`), and the phases are
checked to compute just that.

## Runs

| Run | Question | Bounds |
|---|---|---|
| `failure_rate` | does the bucket report bursts, and does it recover? | period 2, threshold 2, 3 periods, clock to 14: two full drains of a full bucket |
| `heartbeat` | mutual exclusion, and the abstract lease, if writes are on time | 2 Hearts, `Rate` 1, clock to 5 (two expiries), 2 incarnations, failing writes |
| `importer_server` | the limit on jobs, what the row says of the run, does a Heart keep its row? | 1 importer, 2 replicas, pumps that keep their pace and loops that need not, limit 1 and 2 slots each, 4 heartbeats, 1 crash, forced runs, deletion |
| `importer_server_fair` | does every importer get its turn? | 2 importers that compete for 1 slot of a loop that keeps its pace, 1 crash, 2 ages of a run besides the latest |
| `importer_server_reap` | are runs that died finished, and unwanted ones stopped? | pumps of any lateness, failing statements, disable, delete and create |
| `revisions` | can an update be lost, mixed with another, or a 412 be wrong? | 2 clients each. Importer: 2 configurations, a run, 4 revisions: enough for a request, a patch and a re-create to overlap. Assignments: one SBOM and two groups or two SBOMs and one group, 3 revisions of a row: upload, a change by somebody else and one by whoever read before. Preference: 4 revisions, 2 values |
| `sbom_groups` | does a single move keep the forest? | 4 groups, 2 clients, moves that do not overlap: chains of 3 above the group that moves |
| `sbom_groups_concurrent` | is there never a cycle? (there is) | 2 groups, 2 moves that overlap |
| `analysis_load` | no duplicate load, everybody answered, no empty graph unless queued | 2 SBOMs, a query and the loader, 2 loads at a time, uploads of every kind, clients that go away |
| `documents` | blobs, rows, deprecation and PURLs under overlapping handlers and crashes | 2 clients; two SBOMs, an SBOM and an advisory, or two advisories with one identifier; file system and S3 |
| `importer_runs` | is a published document missed for good? | 6 kinds, 2 documents, 2 publications, 2 errors, crashes or requests of users |
| `correlation` | do pages show what documents say; are links, walks and the latest search right? | 2109 corpora of up to three SBOMs and advisories, some with walks |

Hearts of one row are interchangeable, so two of them show every conflict
between an old and a new holder; the proofs lift the bound.  `BeatIds` and
`Beats` have as many values as there are places that remember a heartbeat; a
write always finds a fresh one.  `Slots` is larger than `Concurrency` where the
limit is checked, so the limit is the code's and not the model's.  Ids of groups
and SBOMs are given out once, so their number bounds how many are ever created.
Two SBOMs suffice for a load that fails while another one of the same query is in
flight.  `Heartbeat` and `FailureRate` stop when
the clock reaches its bound, which is why their runs do not check deadlock;
`ImporterServer` has no bound on its runs and deadlock is checked.

`StateTruth` and `HeartKeepsRow` assume `Timely`, that pumps renew within `2 * RATE`, and
nothing of the loops.  So a list may be as old as it likes when `reap` works on it, and
the run shows what the code does then.  A loop lists a row whose heartbeat has expired,
or expires before the filter of `reap`; a Heart of another replica, or one that the same
loop spawned in its previous pass, acquires the row and starts its import; then `reap`
goes through the old list and finishes that run: `update_finish` names no revision and no heartbeat.  The
row says Waiting while the import goes on, `last_run` is set back, the continuation is
cleared, and the importer may be due again.  `strayed` records just this, an
`update_finish` by a loop or an import that did not know the heartbeat of the row, and
`StateTruth` says that nothing else makes the row wrong.  `HeartKeepsRow` says what
contains the damage: the heartbeat is not touched, so nobody else gets to import until
the Heart ends.  A loop that does not look at the heartbeat (the mutant of `Eligible`)
takes an import over once its row was reaped or forced.

In `importer_server` heartbeats and replicas are interchangeable (`Symmetry` of
`MCImporterServer`), which is sound as they are only compared for equality and a beat may take any that is fresh.  Four
heartbeats are enough for a Heart to always find one that is fresh.  `Ages` is 0 in the
runs whose properties do not depend on `last_run`; in `importer_server_fair` it is 2, as
the order of two importers and the run of one of them needs.  That run assumes `Prompt`:
a loop that always needs longer than `2 * RATE` for its list goes on reaping one importer
with an old list, which sets its `last_run` back, and the other one starves.

`documents`: two handlers overlap in every way two can (`Documents_proofs` is about any
number of them); the sets of documents are
those that share something (a PURL, a base PURL, an identifier).  Clients are
interchangeable (symmetry), there is no liveness in that run.  `importer_runs`: a
document that is published twice, and another one, suffice for a marker to pass
something; an error and a crash, or an error and a reconfiguration, may happen to
the same run.  `MaxClock` bounds publications, `MaxDisturbances` everything that is
not the undisturbed loop.

`correlation` starts in one of 2109 corpora and ingests and deletes its documents in
any order.  The generated ones have an SBOM with a component in every version of
interest and one advisory each: all OSV ranges of one or two events over six
versions and some of four, ranges of Maven over versions with a build number and a
qualifier, of Python over pre-, post- and development releases and local versions, all NVD matches over seven bounds on either side, all
entries of CVE records over the versions, CSAF documents for every stream of a
product against SBOMs that describe it in every stream.  The written ones have a
product, its component and a newer build of either; an image with a binary in an SBOM
of its own; two SBOMs that refer to each other in a circle; an SPDX document that
refers to another one; nodes that are no packages; records of CVE and NVD.  Walks
start at the document and at a dependency, with depth 1, 2 and without limit, and
with a filter.

Fairness (`FairSpec`): the tasks of a running process are scheduled (`Loop`,
`Pump`, `Begin`), imports end (`WorkFinish`), those of a kind in `Checking` look for
cancellation (`WorkCheck`) and end when they are asked to (`WorkStop`), a process
that ended is started again, and time passes (`BecomeDue`, `Expire`; strong for
`Expire`, which `Prompt` disables while a list is worked on).  Clients, crashes
and failing statements are not fair.  `importer_server_reap` runs under
`EndlessSpec`, which lacks fairness of `WorkFinish`: an import that nobody stops
may go on forever, so that `UnwantedCancelled` does not hold just because every
import ends.  For the disabled flag `UnwantedCancelled` speaks of `Checking` only: while
an import of ClearlyDefined or CWE runs, disabling its importer asks nobody to stop.  A
row that was deleted or taken over cancels the token of any kind, by the next beat.
`AbandonedReaped` assumes that statements fail only finitely often
(`Fault`): a database that never answers finishes no run.
In `AnalysisLoad` the runtime polls every task (`Step`) and the loader
(`Take`, `TakeError`, `Notify`), and the database answers a load in the end, well
or not.  Weak fairness is enough: a task that can go on can do so until it does,
and a task that waits is released by the one it waits for.
In `ImporterRuns` the loop of the server starts an importer that is due again and
again (`Start`), and a run goes on to its end (`Walk`), also that of a deleted
importer; publications, errors, crashes and users are not fair.

## Findings

One has a run that ends in a counterexample.

* `sbom_groups_concurrent`: two updates of parents that overlap make a cycle.

Two properties of the models state what one would expect and do not hold.  They
are kept with the models, and with a small configuration TLC shows why:

* `OpsInProgress` of `AnalysisLoad`: a load that is dropped leaves its entry in
  `loading_ops`; from then on every load of that graph fails.
* `FaithfulGraphs` of `AnalysisLoad`: an upload queues, and with `cache=wait` awaits,
  the load of its graph before it commits, so an empty graph is cached and served.

The models show more, for which there is no run of its own.  Importers:

* A forced run is lost when it is requested during a run: the client resets `last_run`
  (`ForceRun`), the run ends, and `update_finish` writes its own start (`WorkFinish`).
* A `reap` from an old list finishes a run that is under way (`strayed`, see Runs).
* The walkers of ClearlyDefined and CWE never ask whether they were cancelled, so neither
  disabling their importer nor losing its row stops them.
* `run_at` forgets the fraction of a period, so the check may need up to
  `2 * NumberOfPeriods - 1` periods to recover, not `NumberOfPeriods`
  (`RecoversWithinTwice` is what holds).
* After failed beats a second import starts while the first is still at work,
  although the lock is called exclusive.  The first has been asked to stop, which
  is all that holds (`OneActiveRun`).
* An error of `reap` ends the loop (`ReapError`), for one when an importer is
  deleted after it was listed.  The same code runs in read-only mode.
* `update` finds out why it affected no row in a second statement (`Count`), so a
  request without If-Match may be answered 412, a patch as well.  A 412 to an
  If-Match is never wrong (`CollisionJustified`).
* The check for cycles compares ids as text, the write stores a UUID: with
  `AnySpelling` an id in upper case passes the check, and a group becomes its own
  parent.  After that the check of every update below it never ends.

Importers, run after run (`missed` in `ImporterRuns`):

* The marker of Quay is the end of a run, so a repository that changed while the run
  was under way is not asked for again.
* ClearlyDefined starts each run without a last notice, so a run that loads none sets
  the continuation back; and a notice that failed before another one succeeded is
  passed for good.
* `git`, `quay` and `nvd` report documents that failed and move the marker; `csaf` and
  `sbom` fail the run only for errors of the database.
* A changed configuration keeps the continuation and `last_success`; a reset keeps
  `last_success`.  What a new filter lets through is not fetched.
* A run of a deleted importer writes its marks into the row of a new one with the
  same name.

Documents (`excuse` in `Documents`):

* A crash while a document is stored that is there already leaves a part of it on the
  file system; deletion and upload of the same content that overlap leave a row
  without its blob.
* Two uploads of advisories with one identifier leave two that are current, or none;
  two deletions of SBOMs at once leave PURLs that nothing refers to.

Correlation (each is an exception in a property of `Views` or `Correlation`):

* CVE and NVD records share the advisory's identifier, so one deprecates the other
  (`nvd/loader.rs:38-41` says that NVD data is stored as its own advisory), and
  an NVD record overwrites what the vulnerability shows.
* An older CVE record that is uploaded again becomes the authority; when the authority
  is deleted there is none, although other records exist.
* Only the first interval of an OSV range is kept.  A bound with fewer than three
  components compares equal to all of its extensions in semver.
* Maven: a component from the fourth on is compared as text, so 1.0.0.10 is below 1.0.0.9,
  and with a build number a qualifier sorts above the release.  Python: `1.1.post1` and
  `1.1.dev1` have an empty component, so their comparison fails and no bound is checked,
  and a pre-release sorts below a development release of the release itself.
* Counts differ from the page for CPEs of nodes without a PURL and for PURLs of nodes
  that are no packages, although `raw_sql.rs:37-45` says that they agree.
* Of several SBOMs of a product version only the first is linked; after its deletion
  none is.
* An unknown CVE status on a Maven PURL, and a CycloneDX dependency on a component of
  an unsupported type, fail the upload as a whole.

Analysis:

* An external node is resolved by its ID alone, in the newest SBOM that has it.
  References of SPDX and CycloneDX are followed down and never up.
* A search by CPE or query fails altogether, with "Ranked matched node has no top
  ancestor sbom", when one matched product refers to a component that no SBOM has
  (`DirectFails`).  An SBOM under no CPE is in no latest result.
* SBOMs of a product and its component that are ingested at the same time are never
  linked; walks up and the latest search miss them from then on.
* Transactions of reads are READ COMMITTED: `ReadOnly::begin` sets no isolation level,
  and `begin_read`, which would, has no caller.  A page or a walk may combine two
  states of the database (`stable` in `Traversal`).

## Proofs

`Clock_proofs` proves type correctness, `RecoversWithinTwice` and `BurstReported` of
`FailureRate` for all constants.  The invariant behind recovery bounds the
counter by the time since the last failure: `run_at` drains at least half of
what the elapsed time allows, which is where the factor of two comes from.

For `Heartbeat` it has two invariants.  `Inv` needs no assumption about time:
stamps lie in the past, what a pump is about to write is known to nobody else,
a Heart starts from a heartbeat that had expired, the pump that knows the
heartbeat of the row wrote it, and successive writes of a pump carry later
times.  It gives `OneHolder` and the refinement of `HeartbeatLease`.
`TimelyInv` adds what follows from `MaxDelay < Rate`: an import that was not
asked to stop holds a lease that has not expired (`ActiveHolds`), so a Heart
that acquires the row finds no active import (`NoActiveRunAtAcquisition`).  It
gives `OneActiveRun`.  The runs check the same properties, and `HeartbeatAssumption`
is all that is assumed of the constants.

`Revisions_proofs`: `IInv` adds to the types what each client knows
(`CallOK`): whoever names the revision of the row knows its configuration, since
a revision is given out once and a client that holds it has read that very
configuration; and whoever is about to be answered 412, or was, named a revision
that the row does not have.  From the first follows `NoLostUpdate`, from the
second `CollisionJustified`, for any number of clients and without a bound that
matters (`MaxRevision` is any natural number).  `PreferenceInv` is the same for the tabs
of a user (`TabOK`) and gives `NoLostPreference`.  `AssignInv` is about the statements of
a request on several SBOMs: from `Bump` to the commit the request alone has the locks of
its SBOMs, so what it has removed stays removed but for the deletion of a group, which
only takes away; this is `RequestsWhole`.  And whoever knows a revision of an SBOM that
is still the current one has read groups that contain those it has now, the deletion of
a group being the only change without a revision; this is `NoLostAssignment`.

`SbomGroups_proofs`: `TypeCorrect` holds for all values of the switches.  `NoCycle`
assumes `SerialMoves` and that ids are spelled as the service does; its invariant
says that while a move is under way, the group it moves is not above its new
parent.  Creates, deletes and moves to the root may come in between: they make no
chain longer that starts at an existing group (`ParentChain` shrinks), which is
the lemma the step rests on.  The
proof does not use that the query of the check ends (`Ends`).

`AnalysisLoad_proofs`: `TypeCorrect` contains that whoever waits for a load waits
for a channel with a sender.  `OneLoadAtATime` follows from `Owned`: the entry of
`loading_ops` names the task that loads.  `Faithful` says that only an SBOM whose
load was queued can be cached, or handed to a query, without its content: every
other SBOM is asked for only when it is committed (`Asked`), and then none of its
graphs in the cache or in a future is empty (`NoneEmpty`).

`Documents_proofs` proves the five invariants of `Documents` from one invariant,
`DocumentsInv`, whose parts rest on the first.  `Base1`: a handler at a given statement
has done what the statements before it do (`Phases`), two handlers that are under way at
once know of each other (`Overlaps`), and of a document one transaction inserts the row
or one deletes it (`OneWriter`).  `BlobInv`: a blob without an excuse is whole or will
be, and a handler that relies on a blob, a row or an absence it saw earlier is excused
if that is gone.  `CurrentInv`: the plan of a deprecation still fits the rows of its
identifier when it is written, unless the handler clashed (`PlanExact`).  `PurlInv`: what
an upload found or made stays until its references are committed, because the rows it
needs are locked or new; what a deletion is about to sweep is needed by no other SBOM,
or the two clashed.  That proof did not go through at first.  With three clients, one
more than the run has, a sweep could delete a row whose child another transaction was
deleting, and the excuse of two deletions ended while a third one still relied on it.
The first was a lock that the model lacked (a foreign key that cascades locks what it
cascades to: `GcSweep`), the second a defect of the excuse (`Contested`).  Two clients
cannot show either.

`ImporterServer_proofs` has four invariants.  `Base`, the types with the shapes of
Hearts and loops, and `Counted`, that while a loop works on its list its replica has at
most as many Hearts as it counted, hold for all constants; the second gives
`ConcurrencyLimit`, whatever crashes, fails or is deleted.  That the times remain
numbers rests on `Renumber` keeping their order (`RenumberOrder`), which needs that
`Importers`, `Replicas` and `Slots` are finite.  The other two assume `Timely` and no more:
any number of replicas, lists of any age, deletions, crashes and statements that fail.
`LeaseInv` says that a Heart which has the row and was not asked to stop knows a heartbeat
that is alive (`KnownBeat`), that a Heart which has not acquired yet knows one that had
expired, and that two Hearts never have the row of one importer (`OneHolder`).  Every step
either writes no heartbeat and leaves the Hearts as they are (`Quiet`), or is the beat of
one Heart (`StepKinds`); only the second kind can disturb the lease, and whoever writes
is then the only one who has the row (`BeatAlone`).  This gives `HeartKeepsRow`.
`StateTruth` is inductive together with `LeaseInv`: an `update_finish` of whoever knows the
heartbeat comes from the Heart itself, as its import ends, or from a loop that found that
heartbeat expired, and then no Heart has it; any other one is recorded in `strayed`.
`Timely` cannot go: a pump that is late loses its row to another replica.

`ImporterRuns_proofs` proves `NothingMissed` for any number of documents, publications
and disturbances and for all kinds at once.  `RunsInv` says more than the property: that
the row makes up for everything that was not ingested also *during* a run (`RowGood`),
because the row is written at the end only.  For this a run must have seen to what it
passed by (`WalkGood`), a digest that it will leave must be that of what was ingested
(`PeekGood`), and no two notices may have the same date (`Distinct`, `NoticeGood`): the
marker of ClearlyDefined is a date, and a notice that was dropped must lie before the
one that sets the marker, or be asked for again.  No marker is ahead of the source
(`Bounded`), so a publication is always asked for.  The case of the run of a deleted
importer is the weak one, and shows in the property: `missed` has all that was wanted.

`Correlation_proofs` is about any documents and any number of them, where the run has
2109 corpora: the loaders are what the modules define, and of `SbomDoc` and `AdvisoryDoc`
nothing is assumed but that dates of publication are numbers.  `TypeCorrect` says that
the tables keep to the documents there are and that no link outlives its SBOM.

* `LinksAreComplete` (`AncestorsComplete`).  What is stored is what the documents say of
  two SBOMs that are both committed, unless they overlapped.  During an ingestion that
  is not enough: `populate_ancestors` looks at what is committed then, and more may be
  committed before it commits itself.  `IngestComplete` says that what it has noted is
  complete for every SBOM it did not overlap with, `IngestsOverlap` that two ingestions
  that are under way are excused, and `IngestLinks` that nothing else is noted; the last
  needs that an SBOM some ingestion is linked to is not deleted meanwhile, which is what
  the lock of the foreign key is for.
* `ProductsAreLinked` (`ProductLinked`).  A product version of an SBOM has a row, in the
  table or in the ingestion, and it is linked or its last SBOM was deleted.
* `RecordsStand` (`CveRecordStands`).  The property speaks of the newest record, the
  invariant of the authority: unless the vulnerability is stale, it has an authority
  if it has a record, no other record is newer, and the data are the authority's unless
  NVD wrote them (`NewestIsAuthority`).  It needs neither an order of dates nor that they
  differ.
* `CountsDoAgree`, `PagesDoAgree` (`CountsAgree`, `PagesAgree`).  Both compare queries
  row by row, by the three kinds of a status.  What the proofs need of the loaders is
  only which kinds of rows there are; that versions match the same way on both sides is
  that all pages ask the same `version_matches`.
* `WaysDoAgree` (`WayBack`).  From `LinksAreComplete`, as the stored links are those two
  documents have by a checksum.  That an external ID is looked up in the newest SBOM
  that has it needs that there is one: `NewestThere`, which is an invariant, since a set
  of SBOMs that grows by one at a time keeps a maximum, while the statement about all
  finite sets is an induction.
* `WalksAreComplete` (`WalkComplete`).  The invariant `WalkInv` was checked with TLC
  before it was proved.  Every task a walk has left fits what was shown so far
  (`TaskFits`), what a visited node is related to is shown or one of the tasks left will
  show it (`AllVisited`, `OwnShown`, `ClimbShown`, `ReferredShown`), and an external node
  is resolved by one task and never again (`OnePending`): otherwise two resolutions could
  choose different nodes and the answer would have both.  What was looked up and kept
  fits the tables as long as nothing was ingested or deleted (`KnownFits`).  The
  relationships of an SBOM were validated before it was committed (`Loadable`), so a
  walk that stops because a node is not in the graph misses nothing.
  `WalksChangeNothing` lets the invariants of `Correlation` be used.

The type invariants of `FailureRate`, `Heartbeat`, `ImporterServer` and
`ImporterRevisions` are proved, so
their runs leave them out.  All that is assumed of the constants are the `ASSUME`s of the
modules, and `SerialMoves` and `Timely` where the theorems say so.  Those of
`Correlation` and `Traversal` say that corpora consist of documents, that `NULL` is none,
that dates of publication are numbers, and what a query looks like.

Only model-checked:

* Liveness, which is out of the prover's reach: `NoStarvation`, `AbandonedReaped`,
  `UnwantedCancelled`, `Answered`, `Converges`.
* `AffectedReported` and `ReportedAffected`: what the loaders make of a document, and how
  versions compare, against what the document means.  Ranges are folds over events and
  versions are compared component by component; what either computes for every input
  needs an induction that the provers do not offer.
* `LatestExpected`, which is about the documents of the run and no others: `CalledFor`
  describes products of two levels, as the corpora have them, while the code climbs up
  to `MaxDepth`, and where two nodes could be meant by a reference the code takes the
  name of one (`Candidate`).

## Not modelled

* What a response says besides its body: ClearlyDefined takes an error page for an index
  without notices or a notice without coordinates, as no HTTP status is looked at; and
  fractions of a second: the marker of Quay is in whole seconds, as are its time stamps.
* Fetching: HTTP, git, OCI registries, signatures, and two importers that share a
  working directory.  Parsing of documents, compression, the levels of directories.
* Texts: titles, descriptions, scores, remediations, references, licenses,
  cryptographic properties, progress messages, reports, warnings.
* The query language and lists with their pagination: they turn strings into SQL.
  The filter in memory (`Query::apply`) is a second implementation of it.
* The product query of the vulnerability page (`vulnerability_advisory.rs:186-245`), the
  product statuses of the PURL page (`purl.rs:224-285`), versions of CPEs that are not
  numbers.
* The statements of one page as separate steps: an SBOM or advisory that is deleted
  between the query of the IDs and the next one turns a page into NotFound.
* Names, labels and revisions of groups, tokens, datasets, migrations, the UI, the CLI
  and wiring.

Much of the implementation is of these kinds, and much is declarations (entities,
endpoints and their OpenAPI descriptions) and tests that live in the same files, which
is why the lines that the models translate are a small share of it.  Transactions are
READ COMMITTED, the default of PostgreSQL, since `begin` sets no isolation level.
`PROJECT.json` has the status of every component.
