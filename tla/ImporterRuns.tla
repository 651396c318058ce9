----------------------------- MODULE ImporterRuns -----------------------------
(***************************************************************************)
(* What an importer brings in, run after run: modules/importer/src/runner. *)
(* A run asks its source for what changed since the last one, by the       *)
(* marker its kind leaves in the row of the importer, and works through    *)
(* the answer while the source goes on changing.                           *)
(*                                                                         *)
(*   http     CSAF, SBOM: `since` is last_success, the start of the last   *)
(*            successful run                                               *)
(*   git      OSV, CVE, ClearlyDefined curation: the commit walked last    *)
(*   quay     the time at which the last run ended                         *)
(*   nvd      the digest of each year's feed that was ingested last        *)
(*   cwe      the Last-Modified of the catalog that was ingested last      *)
(*   clearly  the last notice of changes that was loaded                   *)
(*                                                                         *)
(* A document stands for what the kind marks: a document, a repository, a  *)
(* year, the catalog, a notice.  Its versions are times of a clock that    *)
(* only publications advance.                                              *)
(***************************************************************************)
EXTENDS Integers, FiniteSets

CONSTANTS Docs, Kinds,
          MaxClock,        \* bound: publications
          MaxDisturbances  \* bound: errors, crashes and requests of users

ASSUME RunsAssumption ==
  /\ Kinds \subseteq {"http", "git", "quay", "nvd", "cwe", "clearly"}
  /\ MaxClock \in Nat /\ MaxDisturbances \in Nat /\ IsFiniteSet(Docs)

VARIABLES kind,      \* chosen once: the configuration's type
          clock,
          modified,  \* the source: the version of each document, 0 if none
          wanted,    \* the configuration: what its filters let through
          row,       \* the importer's continuation and last_success, 0 if none
          stale,     \* the row is Running, but its process died
          ingested,  \* the latest version of each document that was ingested
          cur, old,  \* the importer's run; one of a deleted importer
          missed,    \* history: left behind in a way the code does not retry
          disturbed

vars == <<kind, clock, modified, wanted, row, stale, ingested, cur, old, missed, disturbed>>

None == [d \in Docs |-> 0]
NoRun == [active |-> FALSE, start |-> 0, todo |-> {}, from |-> None, seen |-> None,
          peeked |-> {}, next |-> None, dropped |-> {}, failed |-> FALSE]

Latest(S) == IF S = {} THEN 0 ELSE CHOOSE x \in S : \A y \in S : y <= x

\* What a run that starts with row r asks for.
Asked(r, docs) ==
  {d \in docs : /\ modified[d] > 0
                /\ CASE kind = "http"           -> modified[d] > r.success
                     [] kind \in {"nvd", "cwe"} -> modified[d] # r.cont[d]
                     [] OTHER                   -> modified[d] > r.cont[d]}

Init ==
  /\ kind \in Kinds /\ clock = 0
  /\ modified = None /\ wanted \in SUBSET Docs
  /\ row = [cont |-> None, success |-> 0] /\ stale = FALSE
  /\ ingested = None
  /\ cur = NoRun /\ old = NoRun
  /\ missed = {} /\ disturbed = 0

Disturb == disturbed < MaxDisturbances /\ disturbed' = disturbed + 1

\* The source: a new document or a new version; a notice never changes.
Publish(d) ==
  /\ clock < MaxClock
  /\ kind = "clearly" => modified[d] = 0
  /\ clock' = clock + 1
  /\ modified' = [modified EXCEPT ![d] = clock + 1]
  /\ missed' = missed \ {d}
  /\ UNCHANGED <<kind, wanted, row, stale, ingested, cur, old, disturbed>>

-----------------------------------------------------------------------------
(* The users: PUT, PATCH, the force request, DELETE and POST. *)

\* A changed configuration keeps the continuation and last_success: what it now
\* lets through and the source has had for longer is not asked for.
Reconfigure(w) ==
  /\ w # wanted /\ Disturb
  /\ wanted' = w
  /\ missed' = missed \cup (w \ wanted)
  /\ UNCHANGED <<kind, clock, modified, row, stale, ingested, cur, old>>

Reset ==
  /\ Disturb
  /\ row' = [row EXCEPT !.cont = None]
  /\ UNCHANGED <<kind, clock, modified, wanted, stale, ingested, cur, old, missed>>

\* Deleted and created again; a run that is at work goes on.
Recreate(w) ==
  /\ ~ old.active /\ Disturb
  /\ wanted' = w
  /\ row' = [cont |-> None, success |-> 0]
  /\ stale' = FALSE
  /\ old' = cur /\ cur' = NoRun
  /\ UNCHANGED <<kind, clock, modified, ingested, missed>>

-----------------------------------------------------------------------------
\* import: the start marker, then the listing (for git the fetch).  A loop that
\* finds the row of a dead process reaps it and starts with what it had read.
Start ==
  /\ ~ cur.active
  /\ cur' = IF kind \in {"nvd", "cwe"}
            THEN [NoRun EXCEPT !.active = TRUE, !.start = clock, !.todo = wanted,
                               !.from = row.cont, !.next = row.cont]
            ELSE [NoRun EXCEPT !.active = TRUE, !.start = clock, !.todo = Asked(row, wanted),
                               !.seen = modified]
  /\ row' = IF stale THEN [row EXCEPT !.cont = None] ELSE row
  /\ stale' = FALSE
  /\ UNCHANGED <<kind, clock, modified, wanted, ingested, old, missed, disturbed>>

\* A step of one of the two runs.
Becomes(r, r2) == \/ r = cur /\ cur' = r2 /\ UNCHANGED old
                  \/ r = old /\ old' = r2 /\ UNCHANGED cur

\* Mutant of Peek: a year that was ingested once is taken for unchanged.
PeekOnce(r, d) ==
  /\ kind \in {"nvd", "cwe"} /\ r.active /\ ~ r.failed /\ d \in r.todo /\ r.peeked = {}
  /\ Becomes(r, IF modified[d] = 0 \/ r.from[d] # 0
                THEN [r EXCEPT !.todo = @ \ {d}]
                ELSE [r EXCEPT !.peeked = {d}, !.seen[d] = modified[d]])
  /\ UNCHANGED <<kind, clock, modified, wanted, row, stale, ingested, missed, disturbed>>

\* nvd, cwe: the digest of a year's feed, the header of the catalog.
Peek(r, d) ==
  /\ kind \in {"nvd", "cwe"} /\ r.active /\ ~ r.failed /\ d \in r.todo /\ r.peeked = {}
  /\ Becomes(r, IF modified[d] \in {0, r.from[d]}
                THEN [r EXCEPT !.todo = @ \ {d}]
                ELSE [r EXCEPT !.peeked = {d}, !.seen[d] = modified[d]])
  /\ UNCHANGED <<kind, clock, modified, wanted, row, stale, ingested, missed, disturbed>>

\* The documents in the order the walkers take them.
Ready(r, d) ==
  /\ r.active /\ ~ r.failed /\ d \in r.todo
  /\ kind \in {"nvd", "cwe"} => d \in r.peeked
  /\ kind = "clearly" => \A e \in r.todo : modified[d] <= modified[e]

\* The working tree, the tags of a repository and the body that came with the
\* header are those of the listing; other content is that of the moment.
Content(r, d) == IF kind \in {"git", "quay", "cwe"} THEN r.seen[d] ELSE modified[d]

\* The marker a document leaves when it is done: the digest that was fetched
\* before the feed, and the date of the notice.
Done(r, d) == [r EXCEPT !.todo = @ \ {d}, !.peeked = {},
                        !.next[d] = IF kind \in {"nvd", "cwe", "clearly"} THEN r.seen[d] ELSE @]

Ingest(r, d) ==
  /\ Ready(r, d)
  /\ ingested' = [ingested EXCEPT ![d] = Latest({@, Content(r, d)})]
  /\ missed' = missed \ {e \in {d} : Content(r, d) = modified[d]}
  /\ Becomes(r, Done(r, d))
  /\ UNCHANGED <<kind, clock, modified, wanted, row, stale, disturbed>>

\* An upload that fails is reported, and the walkers go on as if it were done;
\* only the CWE walker keeps its old marker.
Report(r, d) ==
  /\ Ready(r, d) /\ Disturb
  /\ IF kind = "cwe"
     THEN Becomes(r, [r EXCEPT !.todo = @ \ {d}, !.peeked = {}]) /\ UNCHANGED missed
     ELSE Becomes(r, Done(r, d)) /\ missed' = missed \cup {d}
  /\ UNCHANGED <<kind, clock, modified, wanted, row, stale, ingested>>

\* A feed or the documents of a notice cannot be fetched: the next one is tried.
Drop(r, d) ==
  /\ kind \in {"nvd", "clearly"} /\ Ready(r, d) /\ Disturb
  /\ Becomes(r, [r EXCEPT !.todo = @ \ {d}, !.peeked = {}, !.dropped = @ \cup {d}])
  /\ UNCHANGED <<kind, clock, modified, wanted, row, stale, ingested, missed>>

\* Canceled, or an error that ends the walk (http: of the database, too); NVD
\* leaves its loop and returns what it has, ClearlyDefined and CWE do not ask.
Break(r) ==
  /\ r.active /\ ~ r.failed /\ r.todo # {} /\ kind \notin {"cwe", "clearly"} /\ Disturb
  /\ Becomes(r, IF kind = "nvd" THEN [r EXCEPT !.todo = {}, !.peeked = {}]
                ELSE [r EXCEPT !.failed = TRUE])
  /\ UNCHANGED <<kind, clock, modified, wanted, row, stale, ingested, missed>>

\* The continuation of a run that worked: nothing for http; the commit of the
\* fetch; the time of the end; the digests; the last notice of this run.
Continuation(r) ==
  CASE kind = "http"           -> None
    [] kind = "git"            -> [d \in Docs |-> r.start]
    [] kind = "quay"           -> [d \in Docs |-> clock]
    [] kind \in {"nvd", "cwe"} -> r.next
    [] kind = "clearly"        -> [d \in Docs |-> Latest({r.next[e] : e \in Docs})]

\* What such a run leaves behind for good: what a quay repository got during
\* the run, and notices that were dropped before one that was loaded.
Behind(r) ==
  {d \in Docs : \/ kind = "quay" /\ modified[d] > r.start
                \/ kind = "clearly" /\ d \in r.dropped /\ modified[d] < Continuation(r)[d]}

\* Mutant of Finish: last_success is set whether or not the run worked.
FinishSuccess(r) ==
  /\ r.active /\ (r.failed \/ r.todo = {})
  /\ row' = IF r.failed THEN [cont |-> None, success |-> r.start]
            ELSE [cont |-> Continuation(r), success |-> r.start]
  /\ missed' = missed \cup (IF r.failed THEN {} ELSE Behind(r))
                      \cup (IF r = old THEN wanted ELSE {})
  /\ Becomes(r, NoRun)
  /\ UNCHANGED <<kind, clock, modified, wanted, stale, ingested, disturbed>>

\* update_finish, by the name of the importer: the run of a deleted importer
\* leaves its marks in the row of the new one.
Finish(r) ==
  /\ r.active /\ (r.failed \/ r.todo = {})
  /\ row' = IF r.failed THEN [row EXCEPT !.cont = None]
            ELSE [cont |-> Continuation(r), success |-> r.start]
  /\ missed' = missed \cup (IF r.failed THEN {} ELSE Behind(r))
                      \cup (IF r = old THEN wanted ELSE {})
  /\ Becomes(r, NoRun)
  /\ UNCHANGED <<kind, clock, modified, wanted, stale, ingested, disturbed>>

\* The process dies; reap finishes the row without a continuation.
Crash(r) ==
  /\ r.active /\ Disturb
  /\ Becomes(r, NoRun)
  /\ stale' = (stale \/ r = cur)
  /\ UNCHANGED <<kind, clock, modified, wanted, row, ingested, missed>>

Reap ==
  /\ stale /\ ~ cur.active
  /\ row' = [row EXCEPT !.cont = None]
  /\ stale' = FALSE
  /\ UNCHANGED <<kind, clock, modified, wanted, ingested, cur, old, missed, disturbed>>

Walk(r) == (\E d \in Docs : Peek(r, d) \/ Ingest(r, d)) \/ Finish(r)

Next ==
  \/ \E d \in Docs : Publish(d)
  \/ \E w \in SUBSET Docs : Reconfigure(w) \/ Recreate(w)
  \/ Reset \/ Start \/ Reap
  \/ \E r \in {cur, old} : \/ Walk(r) \/ Break(r) \/ Crash(r)
                           \/ \E d \in Docs : Report(r, d) \/ Drop(r, d)

\* The loop of the server starts a due importer again and again, and a run that
\* is not disturbed comes to its end.
Spec == Init /\ [][Next]_vars /\ WF_vars(Start) /\ WF_vars(Walk(cur)) /\ WF_vars(Walk(old))

-----------------------------------------------------------------------------
\* Between runs, what the source has and the configuration lets through has
\* been ingested or is asked for by the next run, whatever failed, crashed or
\* was reset before.  What can be missed for good: a document whose upload was
\* reported as failed, what a reconfigured importer newly lets through, a
\* repository of Quay that changed during the run, a notice of ClearlyDefined
\* that could not be loaded before another one was, and whatever a run of a
\* deleted importer left its marks over.
NothingMissed ==
  ~ cur.active /\ ~ old.active =>
    \A d \in wanted : \/ ingested[d] = modified[d]
                      \/ d \in Asked(row, wanted)
                      \/ d \in missed

\* Once the source and everybody else are quiet, all of that is ingested.
Converges ==
  \A d \in Docs : <>[](d \in wanted => ingested[d] = modified[d] \/ d \in missed)
=============================================================================
