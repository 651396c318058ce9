----------------------------- MODULE AnalysisLoad -----------------------------
(***************************************************************************)
(* Loading the graphs of SBOMs into the cache of the AnalysisService:      *)
(* queries and the background loader, each a stream of load_graph futures  *)
(* of which at most Concurrency are in flight, share the cache and the map *)
(* of loading operations; uploads queue a load from within the transaction *)
(* that stores the SBOM.  A step ends where another thread may come in, or *)
(* where the future awaits and may be dropped.                             *)
(***************************************************************************)
EXTENDS Naturals, Sequences, FiniteSets, SequencesExt

CONSTANTS
  Sboms,          \* the ids that are ever given out
  Callers,        \* tasks that serve queries
  Loader,         \* the background task
  Concurrency,
  BatchSize,      \* what recv_many takes at most
  None

Graphs == {"full", "empty"}

Closed == "closed"     \* the sender was dropped

Readers == Callers \cup {Loader}

ASSUME ReadersAssumption ==
  Loader \notin Callers /\ None \notin Readers \cup Graphs /\ Closed \notin Readers \cup {None}
ASSUME SbomsAssumption == IsFiniteSet(Sboms)
ASSUME LimitAssumption == Concurrency \in Nat \ {0} /\ BatchSize \in Nat \ {0}

VARIABLES
  uploads,     \* the transaction that stores each SBOM
  queue,       \* the channel to the loader
  queued,      \* history: the ids that were ever sent on it
  batch,       \* ids whose uploads the loader will notify
  cache,       \* GraphMap
  ops,         \* loading_ops: who answers the channel of the entry
  todo,        \* the ids each reader has not collected yet, in order
  futures      \* load_graph of each reader and id

vars == <<uploads, queue, queued, batch, cache, ops, todo, futures>>

Fresh == [pc |-> "new", graph |-> "none"]

Done(graph) == [pc |-> "done", graph |-> graph]

Active == {"load", "insert", "report"}

Future ==
  [pc : {"new", "missed", "wait", "load"}, graph : {"none"}]
    \cup [pc : {"insert", "report"}, graph : Graphs]
    \cup [pc : {"done"}, graph : Graphs \cup {"error"}]

Smaller(m, n) == IF m < n THEN m ELSE n

\* buffered(concurrency): the futures that are polled
Window(r) == {todo[r][i] : i \in 1 .. Smaller(Len(todo[r]), Concurrency)}

\* Nobody waits for a channel without a sender.
TypeOK ==
  /\ uploads \in [Sboms -> {"none", "open", "waiting", "committed", "gone"}]
  /\ queue \in Seq(Sboms)
  /\ queued \subseteq Sboms
  /\ batch \subseteq Sboms
  /\ cache \in [Sboms -> Graphs \cup {None}]
  /\ ops \in [Sboms -> Readers \cup {Closed, None}]
  /\ todo \in [Readers -> Seq(Sboms)]
  /\ futures \in [Readers -> [Sboms -> Future]]
  /\ \A r \in Readers, s \in Sboms : futures[r][s].pc = "wait" => ops[s] \in Readers

Committed == {s \in Sboms : uploads[s] = "committed"}

Init ==
  /\ uploads = [s \in Sboms |-> "none"]
  /\ queue = <<>>
  /\ queued = {}
  /\ batch = {}
  /\ cache = [s \in Sboms |-> None]
  /\ ops = [s \in Sboms |-> None]
  /\ todo = [r \in Readers |-> <<>>]
  /\ futures = [r \in Readers |-> [s \in Sboms |-> Fresh]]

-----------------------------------------------------------------------------
(* load_graph *)

Become(r, s, future) == futures' = [futures EXCEPT ![r][s] = future]

\* An early return if it is in the cache
Lookup(r, s) ==
  /\ s \in Window(r) /\ futures[r][s] = Fresh
  /\ Become(r, s, IF cache[s] = None THEN [Fresh EXCEPT !.pc = "missed"] ELSE Done(cache[s]))
  /\ UNCHANGED <<uploads, queue, queued, batch, cache, ops, todo>>

\* Mutant of EnterVacant: an operation of another task is replaced.
EnterAnyway(r, s) ==
  /\ futures[r][s].pc = "missed"
  /\ ops' = [ops EXCEPT ![s] = r]
  /\ Become(r, s, [Fresh EXCEPT !.pc = "load"])
  /\ UNCHANGED <<uploads, queue, queued, batch, cache, todo>>

\* The entry of loading_ops is vacant.
EnterVacant(r, s) ==
  /\ futures[r][s].pc = "missed"
  /\ ops[s] = None
  /\ ops' = [ops EXCEPT ![s] = r]
  /\ Become(r, s, [Fresh EXCEPT !.pc = "load"])
  /\ UNCHANGED <<uploads, queue, queued, batch, cache, todo>>

\* It is occupied: await the answer.  A channel whose sender is gone fails at once.
EnterOccupied(r, s) ==
  /\ futures[r][s].pc = "missed"
  /\ ops[s] # None
  /\ Become(r, s, IF ops[s] = Closed THEN Done("error") ELSE [Fresh EXCEPT !.pc = "wait"])
  /\ UNCHANGED <<uploads, queue, queued, batch, cache, ops, todo>>

\* Mutant of Perform: an error of the database is taken for no rows.
PerformAnyway(r, s) ==
  /\ futures[r][s].pc = "load"
  /\ \E graph \in Graphs : Become(r, s, [pc |-> "insert", graph |-> graph])
  /\ UNCHANGED <<uploads, queue, queued, batch, cache, ops, todo>>

\* perform_load_graph: without rows the graph is empty, which is no error.
Perform(r, s) ==
  /\ futures[r][s].pc = "load"
  /\ Become(r, s, [pc |-> "insert", graph |-> IF s \in Committed THEN "full" ELSE "empty"])
  /\ UNCHANGED <<uploads, queue, queued, batch, cache, ops, todo>>

Insert(r, s) ==
  /\ futures[r][s].pc = "insert"
  /\ cache' = [cache EXCEPT ![s] = futures[r][s].graph]
  /\ Become(r, s, [futures[r][s] EXCEPT !.pc = "report"])
  /\ UNCHANGED <<uploads, queue, queued, batch, ops, todo>>

\* Those who wait for an entry are answered with it.
Answer(r, s, graph) ==
  [x \in Readers |-> [futures[x] EXCEPT ![s] = IF x = r \/ @.pc = "wait" THEN Done(graph) ELSE @]]

\* Remove the entry and send the graph; nobody finds the channel in between.
Report(r, s) ==
  /\ futures[r][s].pc = "report"
  /\ ops' = [ops EXCEPT ![s] = None]
  /\ futures' = Answer(r, s, futures[r][s].graph)
  /\ UNCHANGED <<uploads, queue, queued, batch, cache, todo>>

PerformError(r, s) ==
  /\ futures[r][s].pc = "load"
  /\ ops' = [ops EXCEPT ![s] = None]
  /\ futures' = Answer(r, s, "error")
  /\ UNCHANGED <<uploads, queue, queued, batch, cache, todo>>

-----------------------------------------------------------------------------
(* load_graphs *)

\* try_collect takes the results in order.
Collect(r) ==
  /\ todo[r] # <<>>
  /\ LET s == Head(todo[r])
     IN  /\ futures[r][s].pc = "done" /\ futures[r][s].graph # "error"
         /\ Become(r, s, Fresh)
  /\ todo' = [todo EXCEPT ![r] = Tail(@)]
  /\ UNCHANGED <<uploads, queue, queued, batch, cache, ops>>

\* A task is dropped where its futures await.
Awaits(r) == \A s \in Sboms : futures[r][s].pc \notin {"missed", "insert", "report"}

Loading(r) == {s \in Sboms : futures[r][s].pc = "load"}

\* Mutant of Abandon: those who wait are not told.
AbandonQuietly(r) ==
  /\ ops' = [s \in Sboms |-> IF s \in Loading(r) THEN Closed ELSE ops[s]]
  /\ futures' = [futures EXCEPT ![r] = [s \in Sboms |-> Fresh]]

\* The futures of a reader are dropped, and with each one that performs a load the
\* sender of its channel; the entry stays.
Abandon(r) ==
  /\ ops' = [s \in Sboms |-> IF s \in Loading(r) THEN Closed ELSE ops[s]]
  /\ futures' = [x \in Readers |-> [s \in Sboms |->
       IF x = r THEN Fresh
       ELSE IF s \in Loading(r) /\ futures[x][s].pc = "wait" THEN Done("error")
       ELSE futures[x][s]]]

Drop(r) ==
  /\ Awaits(r)
  /\ Abandon(r)
  /\ todo' = [todo EXCEPT ![r] = <<>>]
  /\ UNCHANGED <<uploads, queue, queued, batch, cache>>

\* The first error ends try_collect.
CollectError(r) ==
  /\ todo[r] # <<>>
  /\ futures[r][Head(todo[r])] = Done("error")
  /\ Drop(r)

\* The client of a query goes away and its handler is dropped.
Disconnect(c) ==
  /\ todo[c] # <<>>
  /\ Drop(c)

\* A query reads the ids of SBOMs in a transaction of its own, READ COMMITTED.
Query(c) ==
  /\ todo[c] = <<>>
  /\ \E S \in SUBSET Committed : \E ids \in SetToSeqs(S) : todo' = [todo EXCEPT ![c] = ids]
  /\ UNCHANGED <<uploads, queue, queued, batch, cache, ops, futures>>

-----------------------------------------------------------------------------
(* The background task loader *)

LoaderIdle == todo[Loader] = <<>> /\ batch = {}

Received == SubSeq(queue, 1, Smaller(Len(queue), BatchSize))

Take ==
  /\ LoaderIdle
  /\ queue # <<>>
  /\ todo' = [todo EXCEPT ![Loader] = Received]
  /\ batch' = ToSet(Received)
  /\ queue' = SubSeq(queue, Len(Received) + 1, Len(queue))
  /\ UNCHANGED <<uploads, queued, cache, ops, futures>>

\* begin fails
TakeError ==
  /\ LoaderIdle
  /\ queue # <<>>
  /\ batch' = ToSet(Received)
  /\ queue' = SubSeq(queue, Len(Received) + 1, Len(queue))
  /\ UNCHANGED <<uploads, queued, cache, ops, todo, futures>>

\* Mutant of Notify: the uploads of graphs that could not be loaded are forgotten.
NotifyLoaded ==
  /\ todo[Loader] = <<>> /\ batch # {}
  /\ uploads' = [s \in Sboms |->
       IF s \in batch /\ cache[s] # None /\ uploads[s] = "waiting" THEN "open" ELSE uploads[s]]
  /\ batch' = {}
  /\ UNCHANGED <<queue, queued, cache, ops, todo, futures>>

\* Whether or not the graphs were loaded
Notify ==
  /\ todo[Loader] = <<>> /\ batch # {}
  /\ uploads' = [s \in Sboms |->
       IF s \in batch /\ uploads[s] = "waiting" THEN "open" ELSE uploads[s]]
  /\ batch' = {}
  /\ UNCHANGED <<queue, queued, cache, ops, todo, futures>>

-----------------------------------------------------------------------------
(* Uploads and the cache *)

Cache == {"skip", "queue", "wait"}

\* upload, as far as ingest: the SBOM is stored, its load is queued.
Ingest(s, mode) ==
  /\ uploads[s] = "none"
  /\ uploads' = [uploads EXCEPT ![s] = IF mode = "wait" THEN "waiting" ELSE "open"]
  /\ IF mode = "skip"
       THEN UNCHANGED <<queue, queued>>
       ELSE queue' = Append(queue, s) /\ queued' = queued \cup {s}
  /\ UNCHANGED <<batch, cache, ops, todo, futures>>

Commit(s) ==
  /\ uploads[s] = "open"
  /\ uploads' = [uploads EXCEPT ![s] = "committed"]
  /\ UNCHANGED <<queue, queued, batch, cache, ops, todo, futures>>

\* It fails, with an unknown group or as its client goes away, also while it waits.
Rollback(s) ==
  /\ uploads[s] \in {"open", "waiting"}
  /\ uploads' = [uploads EXCEPT ![s] = "gone"]
  /\ UNCHANGED <<queue, queued, batch, cache, ops, todo, futures>>

\* The cache is full, or clear_all_graphs.
Evict(s) ==
  /\ cache[s] # None
  /\ cache' = [cache EXCEPT ![s] = None]
  /\ UNCHANGED <<uploads, queue, queued, batch, ops, todo, futures>>

Step(r) ==
  \/ \E s \in Sboms :
       Lookup(r, s) \/ EnterVacant(r, s) \/ EnterOccupied(r, s)
         \/ Perform(r, s) \/ PerformError(r, s) \/ Insert(r, s) \/ Report(r, s)
  \/ Collect(r) \/ CollectError(r)

Next ==
  \/ \E r \in Readers : Step(r)
  \/ \E c \in Callers : Query(c) \/ Disconnect(c)
  \/ Take \/ TakeError \/ Notify
  \/ \E s \in Sboms :
       \/ \E mode \in Cache : Ingest(s, mode)
       \/ Commit(s) \/ Rollback(s) \/ Evict(s)

Spec == Init /\ [][Next]_vars

\* The runtime polls every task, and the database answers in the end.
FairSpec ==
  /\ Spec
  /\ \A r \in Readers : WF_vars(Step(r))
  /\ WF_vars(Take \/ TakeError \/ Notify)

-----------------------------------------------------------------------------
\* A graph is never loaded twice at the same time (loading_ops).
OneLoad ==
  \A s \in Sboms, r, x \in Readers :
    futures[r][s].pc \in Active /\ futures[x][s].pc \in Active => r = x

\* load/mod.rs:518: if there is an entry, there is an operation in progress.
OpsInProgress ==
  \A s \in Sboms : ops[s] # None => ops[s] \in Readers /\ futures[ops[s]][s].pc \in Active

\* Queue and await request to load into cache (ingestor/src/service/mod.rs:180): the cache
\* and what a query is answered agree with the SBOM, whoever loaded it.
FaithfulGraphs ==
  /\ \A s \in Committed : cache[s] # "empty"
  /\ \A c \in Callers, s \in Sboms : futures[c][s] # Done("empty")

\* The same for an SBOM whose upload queued no load: however loads are shared, dropped,
\* fail or are evicted, its graph is cached and served as it is.
FaithfulUnqueued ==
  /\ \A s \in Committed \ queued : cache[s] # "empty"
  /\ \A c \in Callers, s \in Sboms \ queued : futures[c][s] # Done("empty")

\* Queries and uploads that wait are answered, also when the task that loads the graph
\* for all of them is dropped.
Answered ==
  /\ \A r \in Readers : todo[r] # <<>> ~> todo[r] = <<>>
  /\ \A s \in Sboms : uploads[s] = "waiting" ~> uploads[s] # "waiting"
================================================================================
