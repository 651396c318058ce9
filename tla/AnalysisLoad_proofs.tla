-------------------------- MODULE AnalysisLoad_proofs --------------------------
(***************************************************************************)
(* Of the loads of a graph only one is in progress, whatever is dropped;   *)
(* and unless an upload queued its load, nobody is given the empty graph   *)
(* of an SBOM.                                                             *)
(***************************************************************************)
EXTENDS AnalysisLoad, SequenceTheorems, FiniteSetTheorems, TLAPS

LEMMA BecomePointwise ==
  ASSUME TypeOK, NEW r \in Readers, NEW s \in Sboms, NEW f, Become(r, s, f)
  PROVE  \A x \in Readers, t \in Sboms :
           futures'[x][t] = IF x = r /\ t = s THEN f ELSE futures[x][t]
BY DEF TypeOK, Become

LEMMA BecomeType ==
  ASSUME TypeOK, NEW r \in Readers, NEW s \in Sboms, NEW f \in Future, Become(r, s, f)
  PROVE  futures' \in [Readers -> [Sboms -> Future]]
BY DEF TypeOK, Become

LEMMA AnswerPointwise ==
  ASSUME TypeOK, NEW r \in Readers, NEW s \in Sboms, NEW graph, futures' = Answer(r, s, graph)
  PROVE  \A x \in Readers, t \in Sboms :
           futures'[x][t] = IF t = s /\ (x = r \/ futures[x][t].pc = "wait") THEN Done(graph)
                            ELSE futures[x][t]
BY DEF TypeOK, Answer

LEMMA AnswerType ==
  ASSUME TypeOK, NEW r \in Readers, NEW s \in Sboms, NEW graph \in Graphs \cup {"error"},
         futures' = Answer(r, s, graph)
  PROVE  futures' \in [Readers -> [Sboms -> Future]]
<1>1. Done(graph) \in Future
  BY DEF Done, Future
<1> HIDE DEF Future
<1> QED
  BY <1>1 DEF TypeOK, Answer

LEMMA FreshFuture == Fresh \in Future
BY DEF Fresh, Future

\* Of the sequences a query works on only the elements matter.
LEMMA SeqsOfSet ==
  ASSUME NEW S, IsFiniteSet(S), NEW ids \in SetToSeqs(S)
  PROVE  ids \in Seq(S)
<1>1. Cardinality(S) \in Nat
  BY FS_CardinalityType
<1>2. ids \in [1 .. Cardinality(S) -> S]
  BY DEF SetToSeqs
<1> QED
  BY <1>1, <1>2, IsASeq

LEMMA ReceivedType ==
  ASSUME NEW S, queue \in Seq(S)
  PROVE  /\ Received \in Seq(S) /\ ToSet(Received) \subseteq S
         /\ SubSeq(queue, Len(Received) + 1, Len(queue)) \in Seq(S)
<1> DEFINE n == Smaller(Len(queue), BatchSize)
<1>1. n \in Nat /\ n <= Len(queue)
  BY LimitAssumption DEF Smaller
<1>2. \A i \in 1 .. n : queue[i] \in S
  BY <1>1
<1> HIDE DEF n
<1>3. Received \in Seq(S) /\ Len(Received) \in Nat
  BY <1>1, <1>2, SubSeqProperties DEF Received, n
<1>4. ToSet(Received) \subseteq S
  BY <1>3 DEF ToSet
<1>5. \A i \in Len(Received) + 1 .. Len(queue) : queue[i] \in S
  BY <1>3
<1>6. SubSeq(queue, Len(Received) + 1, Len(queue)) \in Seq(S)
  BY <1>3, <1>5, SubSeqProperties
<1> QED
  BY <1>3, <1>4, <1>6

-----------------------------------------------------------------------------
LEMMA TypeInit == Init => TypeOK
<1> SUFFICES ASSUME Init PROVE TypeOK
  OBVIOUS
<1>1. futures \in [Readers -> [Sboms -> Future]]
  BY FreshFuture DEF Init
<1>2. <<>> \in Seq(Sboms)
  OBVIOUS
<1> QED
  BY <1>1, <1>2 DEF Init, TypeOK, Fresh

\* What is said of futures that wait, when one future changes and the map does not.
LEMMA WaitersKept ==
  ASSUME TypeOK, NEW r \in Readers, NEW s \in Sboms, NEW f, Become(r, s, f),
         f.pc = "wait" => ops'[s] \in Readers,
         \A t \in Sboms : ops[t] \in Readers => ops'[t] \in Readers
  PROVE  \A x \in Readers, t \in Sboms : futures'[x][t].pc = "wait" => ops'[t] \in Readers
<1>1. \A x \in Readers, t \in Sboms :
        futures'[x][t] = IF x = r /\ t = s THEN f ELSE futures[x][t]
  BY BecomePointwise
<1> QED
  BY <1>1 DEF TypeOK

\* The same when the future answers the others that wait for its entry.
LEMMA WaitersAnswered ==
  ASSUME TypeOK, NEW r \in Readers, NEW s \in Sboms, NEW graph,
         futures' = Answer(r, s, graph), ops' = [ops EXCEPT ![s] = None]
  PROVE  \A x \in Readers, t \in Sboms : futures'[x][t].pc = "wait" => ops'[t] \in Readers
<1>1. \A x \in Readers, t \in Sboms :
        futures'[x][t] = IF t = s /\ (x = r \/ futures[x][t].pc = "wait") THEN Done(graph)
                         ELSE futures[x][t]
  BY AnswerPointwise
<1>2. \A t \in Sboms : t # s => ops'[t] = ops[t]
  BY DEF TypeOK
<1> QED
  BY <1>1, <1>2 DEF TypeOK, Done

LEMMA AbandonPointwise ==
  ASSUME TypeOK, NEW r \in Readers, Abandon(r)
  PROVE  \A t \in Sboms :
           /\ ops'[t] = IF futures[r][t].pc = "load" THEN Closed ELSE ops[t]
           /\ \A x \in Readers :
                futures'[x][t] =
                  IF x = r THEN Fresh
                  ELSE IF futures[r][t].pc = "load" /\ futures[x][t].pc = "wait" THEN Done("error")
                  ELSE futures[x][t]
BY DEF TypeOK, Abandon, Loading

LEMMA DropType ==
  ASSUME TypeOK, NEW r \in Readers, Drop(r)
  PROVE  TypeOK'
<1>1. Abandon(r) /\ todo' = [todo EXCEPT ![r] = <<>>]
      /\ UNCHANGED <<uploads, queue, queued, batch, cache>>
  BY DEF Drop
<1>2. Fresh \in Future /\ Done("error") \in Future
  BY DEF Fresh, Done, Future
<1>3. futures' \in [Readers -> [Sboms -> Future]] /\ ops' \in [Sboms -> Readers \cup {Closed, None}]
  <2> HIDE DEF Future
  <2> QED
    BY <1>1, <1>2 DEF TypeOK, Abandon
<1>4. \A x \in Readers, t \in Sboms : futures'[x][t].pc = "wait" => ops'[t] \in Readers
  <2> SUFFICES ASSUME NEW x \in Readers, NEW t \in Sboms, futures'[x][t].pc = "wait"
               PROVE  ops'[t] \in Readers
    OBVIOUS
  <2>1. /\ ops'[t] = IF futures[r][t].pc = "load" THEN Closed ELSE ops[t]
        /\ futures'[x][t] =
             IF x = r THEN Fresh
             ELSE IF futures[r][t].pc = "load" /\ futures[x][t].pc = "wait" THEN Done("error")
             ELSE futures[x][t]
    BY <1>1, AbandonPointwise
  <2>2. Fresh.pc # "wait" /\ Done("error").pc # "wait"
    BY DEF Fresh, Done
  <2>3. futures[x][t].pc = "wait" /\ futures[r][t].pc # "load"
    BY <2>1, <2>2
  <2> QED
    BY <2>1, <2>3 DEF TypeOK
<1>5. todo' \in [Readers -> Seq(Sboms)]
  BY <1>1 DEF TypeOK
<1> QED
  BY <1>1, <1>3, <1>4, <1>5 DEF TypeOK

\* One future changes, and perhaps its entry or its graph in the cache.
LEMMA LoadGraphType ==
  ASSUME TypeOK, NEW r \in Readers, NEW s \in Sboms,
         \/ Lookup(r, s) \/ EnterVacant(r, s) \/ EnterOccupied(r, s)
         \/ Perform(r, s) \/ PerformError(r, s) \/ Insert(r, s) \/ Report(r, s)
  PROVE  TypeOK'
<1>0. futures[r][s] \in Future /\ ops[s] \in Readers \cup {Closed, None}
      /\ cache[s] \in Graphs \cup {None}
  BY DEF TypeOK
<1>1. CASE Lookup(r, s)
  <2> DEFINE f == IF cache[s] = None THEN [Fresh EXCEPT !.pc = "missed"] ELSE Done(cache[s])
  <2>1. f \in Future /\ f.pc # "wait"
    BY <1>0 DEF Future, Fresh, Done
  <2>2. Become(r, s, f) /\ UNCHANGED <<uploads, queue, queued, batch, cache, ops, todo>>
    BY <1>1 DEF Lookup
  <2> HIDE DEF f
  <2> QED
    BY <2>1, <2>2, BecomeType, WaitersKept DEF TypeOK
<1>2. CASE EnterVacant(r, s)
  <2> DEFINE f == [Fresh EXCEPT !.pc = "load"]
  <2>1. f \in Future /\ f.pc # "wait"
    BY DEF Future, Fresh, Active
  <2>2. Become(r, s, f) /\ ops' = [ops EXCEPT ![s] = r]
        /\ UNCHANGED <<uploads, queue, queued, batch, cache, todo>>
    BY <1>2 DEF EnterVacant
  <2> HIDE DEF f
  <2>3. \A t \in Sboms : ops[t] \in Readers => ops'[t] \in Readers
    BY <2>2 DEF TypeOK
  <2>4. ops' \in [Sboms -> Readers \cup {Closed, None}]
    BY <2>2 DEF TypeOK
  <2>5. futures' \in [Readers -> [Sboms -> Future]]
    BY <2>1, <2>2, BecomeType
  <2>6. \A x \in Readers, t \in Sboms : futures'[x][t].pc = "wait" => ops'[t] \in Readers
    BY <2>1, <2>2, <2>3, WaitersKept
  <2> QED
    BY <2>2, <2>4, <2>5, <2>6 DEF TypeOK
<1>3. CASE EnterOccupied(r, s)
  <2> DEFINE f == IF ops[s] = Closed THEN Done("error") ELSE [Fresh EXCEPT !.pc = "wait"]
  <2>1. f \in Future
    BY DEF Future, Fresh, Done
  <2>2. Become(r, s, f) /\ UNCHANGED <<uploads, queue, queued, batch, cache, ops, todo>>
    BY <1>3 DEF EnterOccupied
  <2>3. f.pc = "wait" => ops[s] \in Readers
    BY <1>0, <1>3 DEF EnterOccupied, Done
  <2> HIDE DEF f
  <2> QED
    BY <2>1, <2>2, <2>3, BecomeType, WaitersKept DEF TypeOK
<1>4. CASE Perform(r, s)
  <2> DEFINE f == [pc |-> "insert", graph |-> IF s \in Committed THEN "full" ELSE "empty"]
  <2>1. f \in Future /\ f.pc # "wait"
    BY DEF Future, Graphs, Active
  <2>2. Become(r, s, f) /\ UNCHANGED <<uploads, queue, queued, batch, cache, ops, todo>>
    BY <1>4 DEF Perform
  <2> HIDE DEF f
  <2> QED
    BY <2>1, <2>2, BecomeType, WaitersKept DEF TypeOK
<1>5. CASE PerformError(r, s)
  <2>1. futures' = Answer(r, s, "error") /\ ops' = [ops EXCEPT ![s] = None]
        /\ UNCHANGED <<uploads, queue, queued, batch, cache, todo>>
    BY <1>5 DEF PerformError
  <2>2. futures' \in [Readers -> [Sboms -> Future]]
    BY <2>1, AnswerType
  <2>3. \A x \in Readers, t \in Sboms : futures'[x][t].pc = "wait" => ops'[t] \in Readers
    BY <2>1, WaitersAnswered
  <2>4. ops' \in [Sboms -> Readers \cup {Closed, None}]
    BY <2>1 DEF TypeOK
  <2> QED
    BY <2>1, <2>2, <2>3, <2>4 DEF TypeOK
<1>6. CASE Insert(r, s)
  <2> DEFINE f == [futures[r][s] EXCEPT !.pc = "report"]
  <2>1. f \in Future /\ f.pc # "wait" /\ futures[r][s].graph \in Graphs
    BY <1>0, <1>6 DEF Insert, Future
  <2>2. Become(r, s, f) /\ cache' = [cache EXCEPT ![s] = futures[r][s].graph]
        /\ UNCHANGED <<uploads, queue, queued, batch, ops, todo>>
    BY <1>6 DEF Insert
  <2> HIDE DEF f
  <2>3. cache' \in [Sboms -> Graphs \cup {None}]
    BY <2>1, <2>2 DEF TypeOK
  <2> QED
    BY <2>1, <2>2, <2>3, BecomeType, WaitersKept DEF TypeOK
<1>7. CASE Report(r, s)
  <2>1. futures' = Answer(r, s, futures[r][s].graph) /\ ops' = [ops EXCEPT ![s] = None]
        /\ UNCHANGED <<uploads, queue, queued, batch, cache, todo>>
    BY <1>7 DEF Report
  <2>2. futures[r][s].graph \in Graphs
    BY <1>0, <1>7 DEF Report, Future
  <2>3. futures' \in [Readers -> [Sboms -> Future]]
    BY <2>1, <2>2, AnswerType
  <2>4. \A x \in Readers, t \in Sboms : futures'[x][t].pc = "wait" => ops'[t] \in Readers
    BY <2>1, WaitersAnswered
  <2>5. ops' \in [Sboms -> Readers \cup {Closed, None}]
    BY <2>1 DEF TypeOK
  <2> QED
    BY <2>1, <2>3, <2>4, <2>5 DEF TypeOK
<1> QED
  BY <1>1, <1>2, <1>3, <1>4, <1>5, <1>6, <1>7

\* The actions that leave the futures and the map of operations alone
Elsewhere ==
  \/ \E c \in Callers : Query(c)
  \/ Take \/ TakeError \/ Notify
  \/ \E s \in Sboms :
       \/ \E mode \in Cache : Ingest(s, mode)
       \/ Commit(s) \/ Rollback(s) \/ Evict(s)

LEMMA ElsewhereType ==
  ASSUME TypeOK, Elsewhere
  PROVE  TypeOK' /\ UNCHANGED <<ops, futures>>
<1> USE ReadersAssumption
<1>1. UNCHANGED <<ops, futures>>
  BY DEF Elsewhere, Query, Take, TakeError, Notify, Ingest, Commit, Rollback, Evict
<1>2. /\ uploads' \in [Sboms -> {"none", "open", "waiting", "committed", "gone"}]
      /\ cache' \in [Sboms -> Graphs \cup {None}]
  BY DEF TypeOK, Elsewhere, Query, Take, TakeError, Notify, Ingest, Commit, Rollback, Evict
<1>3. queue' \in Seq(Sboms) /\ batch' \subseteq Sboms /\ todo' \in [Readers -> Seq(Sboms)]
  <2>0. queue \in Seq(Sboms) /\ batch \subseteq Sboms /\ todo \in [Readers -> Seq(Sboms)]
    BY DEF TypeOK
  <2>1. CASE Take \/ TakeError
    <3>1. /\ Received \in Seq(Sboms) /\ ToSet(Received) \subseteq Sboms
          /\ SubSeq(queue, Len(Received) + 1, Len(queue)) \in Seq(Sboms)
      BY <2>0, ReceivedType
    <3> QED
      BY <2>0, <2>1, <3>1 DEF Take, TakeError, Readers
  <2>2. ASSUME NEW c \in Callers, Query(c)
        PROVE  queue' \in Seq(Sboms) /\ batch' \subseteq Sboms /\ todo' \in [Readers -> Seq(Sboms)]
    <3>1. PICK S \in SUBSET Committed : \E ids \in SetToSeqs(S) : todo' = [todo EXCEPT ![c] = ids]
      BY <2>2 DEF Query
    <3>2. PICK ids \in SetToSeqs(S) : todo' = [todo EXCEPT ![c] = ids]
      BY <3>1
    <3>3. S \subseteq Sboms /\ IsFiniteSet(S)
      BY <3>1, SbomsAssumption, FS_Subset DEF Committed
    <3>4. ids \in Seq(S)
      BY <3>3, SeqsOfSet
    <3>5. ids \in Seq(Sboms)
      BY <3>3, <3>4
    <3> QED
      BY <2>0, <2>2, <3>2, <3>5 DEF Query, Readers
  <2>3. CASE \E s \in Sboms, mode \in Cache : Ingest(s, mode)
    BY <2>0, <2>3 DEF Ingest
  <2>4. CASE Notify \/ \E s \in Sboms : Commit(s) \/ Rollback(s) \/ Evict(s)
    BY <2>0, <2>4 DEF Notify, Commit, Rollback, Evict
  <2> QED
    BY <2>1, <2>2, <2>3, <2>4 DEF Elsewhere
<1>4. queued' \subseteq Sboms
  BY DEF TypeOK, Elsewhere, Query, Take, TakeError, Notify, Ingest, Commit, Rollback, Evict
<1> QED
  BY <1>1, <1>2, <1>3, <1>4 DEF TypeOK

\* The steps: load_graph, taking a result, dropping a reader, and everything else
LEMMA Steps ==
  ASSUME [Next]_vars
  PROVE  \/ \E r \in Readers, s \in Sboms :
              \/ Lookup(r, s) \/ EnterVacant(r, s) \/ EnterOccupied(r, s)
              \/ Perform(r, s) \/ PerformError(r, s) \/ Insert(r, s) \/ Report(r, s)
         \/ \E r \in Readers : Collect(r) \/ Drop(r)
         \/ Elsewhere
         \/ UNCHANGED vars
BY DEF Next, Step, CollectError, Disconnect, Readers, Elsewhere

LEMMA CollectType ==
  ASSUME TypeOK, NEW r \in Readers, Collect(r)
  PROVE  TypeOK'
<1> DEFINE s == Head(todo[r])
<1>1. /\ todo[r] # <<>> /\ Become(r, s, Fresh)
      /\ todo' = [todo EXCEPT ![r] = Tail(todo[r])]
      /\ UNCHANGED <<uploads, queue, queued, batch, cache, ops>>
  BY DEF Collect
<1>2. todo[r] \in Seq(Sboms)
  BY DEF TypeOK
<1>3. s \in Sboms /\ Tail(todo[r]) \in Seq(Sboms)
  BY <1>1, <1>2, HeadTailProperties
<1> HIDE DEF s
<1>4. Fresh \in Future /\ Fresh.pc # "wait"
  BY DEF Fresh, Future
<1> QED
  BY <1>1, <1>3, <1>4, BecomeType, WaitersKept DEF TypeOK

LEMMA TypeNext == TypeOK /\ [Next]_vars => TypeOK'
<1> SUFFICES ASSUME TypeOK, [Next]_vars PROVE TypeOK'
  OBVIOUS
<1>1. CASE UNCHANGED vars
  BY <1>1 DEF TypeOK, vars
<1> QED
  BY <1>1, Steps, LoadGraphType, CollectType, DropType, ElsewhereType

\* Nobody waits for a channel that has no sender.
THEOREM TypeCorrect == Spec => []TypeOK
<1> QED
  BY TypeInit, TypeNext, PTL DEF Spec

-----------------------------------------------------------------------------
\* Who performs a load has the entry.
Owned == \A r \in Readers, s \in Sboms : futures[r][s].pc \in Active => ops[s] = r

LEMMA OwnedNext == TypeOK /\ Owned /\ [Next]_vars => Owned'
<1> SUFFICES ASSUME TypeOK, Owned, [Next]_vars PROVE Owned'
  OBVIOUS
<1> USE ReadersAssumption
\* One future changes, the map does not, and a load goes on if there is one.
<1>1. ASSUME NEW r \in Readers, NEW s \in Sboms, NEW f, Become(r, s, f), UNCHANGED ops,
             f.pc \in Active => futures[r][s].pc \in Active
      PROVE  Owned'
  <2>1. \A x \in Readers, t \in Sboms :
          futures'[x][t] = IF x = r /\ t = s THEN f ELSE futures[x][t]
    BY <1>1, BecomePointwise
  <2> QED
    BY <1>1, <2>1 DEF Owned
\* A load ends and its entry is removed.
<1>2. ASSUME NEW r \in Readers, NEW s \in Sboms, NEW graph, futures' = Answer(r, s, graph),
             ops' = [ops EXCEPT ![s] = None], futures[r][s].pc \in Active
      PROVE  Owned'
  <2>1. \A x \in Readers, t \in Sboms :
          futures'[x][t] = IF t = s /\ (x = r \/ futures[x][t].pc = "wait") THEN Done(graph)
                           ELSE futures[x][t]
    BY <1>2, AnswerPointwise
  <2>2. \A t \in Sboms : t # s => ops'[t] = ops[t]
    BY <1>2 DEF TypeOK
  <2>3. \A x \in Readers : futures[x][s].pc \in Active => x = r
    BY <1>2 DEF Owned
  <2>4. Done(graph).pc \notin Active
    BY DEF Done, Active
  <2> QED
    BY <2>1, <2>2, <2>3, <2>4 DEF Owned
<1>3. ASSUME NEW r \in Readers, NEW s \in Sboms, Lookup(r, s) PROVE Owned'
  BY <1>1, <1>3 DEF Lookup, Fresh, Done, Active
<1>4. ASSUME NEW r \in Readers, NEW s \in Sboms, EnterVacant(r, s) PROVE Owned'
  <2>1. \A x \in Readers, t \in Sboms :
          futures'[x][t] = IF x = r /\ t = s THEN [Fresh EXCEPT !.pc = "load"] ELSE futures[x][t]
    BY <1>4, BecomePointwise DEF EnterVacant
  <2>2. ops[s] = None /\ \A t \in Sboms : ops'[t] = IF t = s THEN r ELSE ops[t]
    BY <1>4 DEF EnterVacant, TypeOK
  <2>3. \A x \in Readers : futures[x][s].pc \notin Active
    BY <2>2 DEF Owned
  <2> QED
    BY <2>1, <2>2, <2>3 DEF Owned
<1>5. ASSUME NEW r \in Readers, NEW s \in Sboms, EnterOccupied(r, s) PROVE Owned'
  BY <1>1, <1>5 DEF EnterOccupied, Fresh, Done, Active
<1>6. ASSUME NEW r \in Readers, NEW s \in Sboms, Perform(r, s) PROVE Owned'
  BY <1>1, <1>6 DEF Perform, Active
<1>7. ASSUME NEW r \in Readers, NEW s \in Sboms, Insert(r, s) PROVE Owned'
  BY <1>1, <1>7 DEF Insert, Active
<1>8. ASSUME NEW r \in Readers, NEW s \in Sboms, PerformError(r, s) \/ Report(r, s) PROVE Owned'
  BY <1>2, <1>8 DEF PerformError, Report, Active
<1>9. ASSUME NEW r \in Readers, Collect(r) PROVE Owned'
  <2>1. todo[r] # <<>> /\ Become(r, Head(todo[r]), Fresh) /\ UNCHANGED ops
    BY <1>9 DEF Collect
  <2>2. Head(todo[r]) \in Sboms
    BY <2>1, HeadTailProperties DEF TypeOK
  <2>3. Fresh.pc \notin Active
    BY DEF Fresh, Active
  <2> QED
    BY <1>1, <2>1, <2>2, <2>3
<1>10. ASSUME NEW r \in Readers, Drop(r) PROVE Owned'
  <2> SUFFICES ASSUME NEW x \in Readers, NEW t \in Sboms, futures'[x][t].pc \in Active
               PROVE  ops'[t] = x
    BY DEF Owned
  <2>1. /\ ops'[t] = IF futures[r][t].pc = "load" THEN Closed ELSE ops[t]
        /\ futures'[x][t] =
             IF x = r THEN Fresh
             ELSE IF futures[r][t].pc = "load" /\ futures[x][t].pc = "wait" THEN Done("error")
             ELSE futures[x][t]
    BY <1>10, AbandonPointwise DEF Drop
  <2>2. Fresh.pc \notin Active /\ Done("error").pc \notin Active
    BY DEF Fresh, Done, Active
  <2>3. x # r /\ futures[x][t].pc \in Active
    BY <2>1, <2>2
  <2>4. ops[t] = x /\ futures[r][t].pc # "load"
    BY <2>3 DEF Owned, Active
  <2> QED
    BY <2>1, <2>4
<1>11. CASE Elsewhere
  BY <1>11, ElsewhereType DEF Owned
<1>12. CASE UNCHANGED vars
  BY <1>12 DEF Owned, vars
<1> QED
  BY Steps, <1>3, <1>4, <1>5, <1>6, <1>7, <1>8, <1>9, <1>10, <1>11, <1>12

\* loading_ops: a graph is never loaded twice at the same time.
THEOREM OneLoadAtATime == Spec => []OneLoad
<1>1. Init => Owned
  BY DEF Init, Owned, Fresh, Active
<1>2. Owned => OneLoad
  BY DEF Owned, OneLoad
<1> QED
  BY <1>1, <1>2, TypeInit, TypeNext, OwnedNext, PTL DEF Spec

-----------------------------------------------------------------------------
\* SBOMs that are committed, and those an upload asked the loader for
Known == Committed \cup queued

\* Only those are asked for; the loader is only sent the latter.
Asked ==
  /\ queue \in Seq(queued)
  /\ \A r \in Readers : todo[r] \in Seq(Known)
  /\ \A r \in Readers, s \in Sboms : futures[r][s] # Fresh => s \in Known

NoneEmpty ==
  /\ \A s \in Sboms \ queued : cache[s] # "empty"
  /\ \A r \in Readers, s \in Sboms \ queued : futures[r][s].graph # "empty"

FInv == Asked /\ NoneEmpty

LEMMA FaithfulNext == TypeOK /\ FInv /\ [Next]_vars => FInv'
<1> SUFFICES ASSUME TypeOK, FInv, [Next]_vars PROVE FInv'
  OBVIOUS
\* One future of an SBOM that is asked for changes.
<1>1. ASSUME NEW r \in Readers, NEW s \in Known, NEW f, Become(r, s, f),
             s \in queued \/ f.graph # "empty", UNCHANGED <<uploads, queue, queued, todo>>,
             \A t \in Sboms \ queued : cache'[t] # "empty"
      PROVE  FInv'
  <2>1. s \in Sboms /\ Known' = Known
    BY <1>1 DEF Known, Committed, TypeOK
  <2>2. \A x \in Readers, t \in Sboms :
          futures'[x][t] = IF x = r /\ t = s THEN f ELSE futures[x][t]
    BY <1>1, <2>1, BecomePointwise
  <2>3. Asked'
    BY <1>1, <2>1, <2>2 DEF FInv, Asked
  <2>4. NoneEmpty'
    BY <1>1, <2>2 DEF FInv, NoneEmpty
  <2> QED
    BY <2>3, <2>4 DEF FInv
<1>2. ASSUME NEW r \in Readers, NEW s \in Sboms, NEW graph, s \in queued \/ graph # "empty",
             futures' = Answer(r, s, graph), futures[r][s] # Fresh,
             UNCHANGED <<uploads, queue, queued, todo, cache>>
      PROVE  FInv'
  <2>1. \A x \in Readers, t \in Sboms :
          futures'[x][t] = IF t = s /\ (x = r \/ futures[x][t].pc = "wait") THEN Done(graph)
                           ELSE futures[x][t]
    BY <1>2, AnswerPointwise
  <2>2. s \in Known /\ Known' = Known
    BY <1>2 DEF FInv, Asked, Known, Committed
  <2>3. Asked'
    BY <1>2, <2>1, <2>2 DEF FInv, Asked
  <2>4. NoneEmpty'
    BY <1>2, <2>1 DEF FInv, NoneEmpty, Done
  <2> QED
    BY <2>3, <2>4 DEF FInv
<1>3. ASSUME NEW r \in Readers, NEW s \in Sboms, Lookup(r, s) PROVE FInv'
  <2> DEFINE f == IF cache[s] = None THEN [Fresh EXCEPT !.pc = "missed"] ELSE Done(cache[s])
  <2>1. Become(r, s, f) /\ UNCHANGED <<uploads, queue, queued, batch, cache, ops, todo>> /\ s \in Window(r)
    BY <1>3 DEF Lookup
  <2>2. s \in queued \/ f.graph # "empty"
    BY DEF FInv, NoneEmpty, Fresh, Done
  <2>3. todo[r] \in Seq(Known)
    BY DEF FInv, Asked
  <2>4. PICK i \in 1 .. Smaller(Len(todo[r]), Concurrency) : s = todo[r][i]
    BY <2>1 DEF Window
  <2>5. i \in 1 .. Len(todo[r])
    BY <2>3, <2>4, LimitAssumption DEF Smaller
  <2>6. s \in Known
    BY <2>3, <2>4, <2>5
  <2> HIDE DEF f
  <2> QED
    BY <1>1, <2>1, <2>2, <2>6 DEF FInv, NoneEmpty
<1>4. ASSUME NEW r \in Readers, NEW s \in Sboms, futures[r][s].pc # "new"
      PROVE  s \in Known
  BY <1>4 DEF FInv, Asked, Fresh
<1>5. ASSUME NEW r \in Readers, NEW s \in Sboms, EnterVacant(r, s) \/ EnterOccupied(r, s) PROVE FInv'
  <2>1. s \in Known
    BY <1>4, <1>5 DEF EnterVacant, EnterOccupied
  <2> QED
    BY <1>1, <1>5, <2>1 DEF EnterVacant, EnterOccupied, FInv, NoneEmpty, Fresh, Done
<1>6. ASSUME NEW r \in Readers, NEW s \in Sboms, Perform(r, s) PROVE FInv'
  <2>1. s \in Known
    BY <1>4, <1>6 DEF Perform
  <2>2. s \in queued \/ s \in Committed
    BY <2>1 DEF Known
  <2> QED
    BY <1>1, <1>6, <2>1, <2>2 DEF Perform, FInv, NoneEmpty
<1>7. ASSUME NEW r \in Readers, NEW s \in Sboms, Insert(r, s) PROVE FInv'
  <2>1. s \in Known /\ (s \in queued \/ futures[r][s].graph # "empty")
    BY <1>4, <1>7 DEF Insert, FInv, NoneEmpty
  <2>2. \A t \in Sboms \ queued : cache'[t] # "empty"
    BY <1>7, <2>1 DEF Insert, FInv, NoneEmpty, TypeOK
  <2>3. s \in queued \/ [futures[r][s] EXCEPT !.pc = "report"].graph # "empty"
    BY <2>1 DEF TypeOK, Future
  <2> QED
    BY <1>1, <1>7, <2>1, <2>2, <2>3 DEF Insert
<1>8. ASSUME NEW r \in Readers, NEW s \in Sboms, PerformError(r, s) \/ Report(r, s) PROVE FInv'
  <2>1. futures[r][s] # Fresh /\ (s \in queued \/ futures[r][s].graph # "empty")
    BY <1>8 DEF PerformError, Report, Fresh, FInv, NoneEmpty
  <2> QED
    BY <1>2, <1>8, <2>1 DEF PerformError, Report
<1>9. ASSUME NEW r \in Readers, Collect(r) PROVE FInv'
  <2> DEFINE s == Head(todo[r])
  <2>1. /\ todo[r] # <<>> /\ Become(r, s, Fresh)
        /\ todo' = [todo EXCEPT ![r] = Tail(todo[r])]
        /\ UNCHANGED <<uploads, queue, queued, batch, cache, ops>>
    BY <1>9 DEF Collect
  <2>2. todo[r] \in Seq(Known)
    BY DEF FInv, Asked
  <2>3. s \in Known /\ Tail(todo[r]) \in Seq(Known)
    BY <2>1, <2>2, HeadTailProperties
  <2> HIDE DEF s
  <2>4. s \in Sboms /\ Known' = Known
    BY <2>1, <2>3 DEF Known, Committed, TypeOK
  <2>5. \A x \in Readers, t \in Sboms :
          futures'[x][t] = IF x = r /\ t = s THEN Fresh ELSE futures[x][t]
    BY <2>1, <2>4, BecomePointwise
  <2>6. Asked'
    BY <2>1, <2>3, <2>4, <2>5 DEF FInv, Asked, TypeOK
  <2>7. NoneEmpty'
    BY <2>1, <2>5 DEF FInv, NoneEmpty, Fresh
  <2> QED
    BY <2>6, <2>7 DEF FInv
<1>10. ASSUME NEW r \in Readers, Drop(r) PROVE FInv'
  <2>1. Abandon(r) /\ todo' = [todo EXCEPT ![r] = <<>>] /\ UNCHANGED <<uploads, queue, queued, cache>>
    BY <1>10 DEF Drop
  <2>2. \A t \in Sboms, x \in Readers :
          futures'[x][t] =
            IF x = r THEN Fresh
            ELSE IF futures[r][t].pc = "load" /\ futures[x][t].pc = "wait" THEN Done("error")
            ELSE futures[x][t]
    BY <2>1, AbandonPointwise
  <2>3. Known' = Known
    BY <2>1 DEF Known, Committed
  <2>4. \A x \in Readers : todo'[x] \in Seq(Known)
    BY <2>1 DEF FInv, Asked, TypeOK
  <2>5. Asked'
    BY <2>1, <2>2, <2>3, <2>4 DEF FInv, Asked, Fresh
  <2>6. NoneEmpty'
    BY <2>1, <2>2 DEF FInv, NoneEmpty, Fresh, Done
  <2> QED
    BY <2>5, <2>6 DEF FInv
<1>11. CASE Elsewhere
  <2>1. UNCHANGED futures /\ Committed \subseteq Committed' /\ queued \subseteq queued'
    BY <1>11 DEF Elsewhere, Query, Take, TakeError, Notify, Ingest, Commit, Rollback, Evict,
       Committed, TypeOK
  <2>2. Known \subseteq Known'
    BY <2>1 DEF Known
  <2>3. NoneEmpty'
    <3>1. ASSUME NEW s \in Sboms, Evict(s) PROVE \A x \in Sboms \ queued' : cache'[x] # "empty"
      <4>1. None # "empty"
        BY ReadersAssumption DEF Graphs
      <4>2. cache' = [cache EXCEPT ![s] = None]
        BY <3>1 DEF Evict
      <4>3. /\ cache \in [Sboms -> Graphs \cup {None}]
            /\ \A x \in Sboms \ queued' : cache[x] # "empty"
        BY <2>1 DEF FInv, NoneEmpty, TypeOK
      <4> QED
        BY <4>1, <4>2, <4>3
    <3>2. ASSUME UNCHANGED cache PROVE \A x \in Sboms \ queued' : cache'[x] # "empty"
      BY <2>1, <3>2 DEF FInv, NoneEmpty
    <3>3. \A x \in Sboms \ queued' : cache'[x] # "empty"
      BY <1>11, <3>1, <3>2 DEF Elsewhere, Query, Take, TakeError, Notify, Ingest, Commit, Rollback
    <3>4. \A r \in Readers, s \in Sboms \ queued' : futures'[r][s].graph # "empty"
      BY <2>1 DEF FInv, NoneEmpty
    <3> QED
      BY <3>3, <3>4 DEF NoneEmpty
  <2>4. queue \in Seq(queued) /\ \A r \in Readers : todo[r] \in Seq(Known')
    BY <2>2 DEF FInv, Asked
  <2>5. queue' \in Seq(queued')
    <3>1. CASE Take \/ TakeError
      BY <2>4, <3>1, ReceivedType DEF Take, TakeError
    <3>2. ASSUME NEW s \in Sboms, NEW mode \in Cache, Ingest(s, mode) PROVE queue' \in Seq(queued')
      BY <2>4, <3>2 DEF Ingest
    <3>3. CASE UNCHANGED <<queue, queued>>
      BY <2>4, <3>3
    <3> QED
      BY <1>11, <3>1, <3>2, <3>3 DEF Elsewhere, Query, Notify, Commit, Rollback, Evict
  <2>6. ASSUME NEW r \in Readers PROVE todo'[r] \in Seq(Known')
    <3>1. ASSUME NEW c \in Callers, Query(c) PROVE todo'[r] \in Seq(Known')
      <4>1. PICK S \in SUBSET Committed : \E ids \in SetToSeqs(S) : todo' = [todo EXCEPT ![c] = ids]
        BY <3>1 DEF Query
      <4>2. PICK ids \in SetToSeqs(S) : todo' = [todo EXCEPT ![c] = ids]
        BY <4>1
      <4>3. IsFiniteSet(S)
        BY <4>1, SbomsAssumption, FS_Subset DEF Committed
      <4>4. ids \in Seq(S) /\ S \subseteq Known'
        BY <2>2, <4>1, <4>3, SeqsOfSet DEF Known
      <4>5. ids \in Seq(Known')
        BY <4>4
      <4> QED
        BY <2>4, <4>2, <4>5 DEF TypeOK
    <3>2. CASE Take
      <4>1. Received \in Seq(queued) /\ queued \subseteq Known'
        BY <2>1, <2>4, ReceivedType DEF Known
      <4>2. Received \in Seq(Known')
        BY <4>1
      <4> QED
        BY <2>4, <3>2, <4>2 DEF Take, TypeOK
    <3>3. CASE UNCHANGED todo
      BY <2>4, <3>3
    <3> QED
      BY <1>11, <3>1, <3>2, <3>3 DEF Elsewhere, TakeError, Notify, Ingest, Commit, Rollback, Evict
  <2>7. Asked'
    BY <2>1, <2>2, <2>5, <2>6 DEF FInv, Asked
  <2> QED
    BY <2>3, <2>7 DEF FInv
<1>12. CASE UNCHANGED vars
  BY <1>12 DEF FInv, Asked, NoneEmpty, vars, Known, Committed
<1> QED
  BY Steps, <1>3, <1>5, <1>6, <1>7, <1>8, <1>9, <1>10, <1>11, <1>12

\* Unless its upload queued a load, the graph of an SBOM is served as it is, however loads
\* are shared, dropped, fail or are evicted.
THEOREM Faithful == Spec => []FaithfulUnqueued
<1>1. Init => FInv
  BY ReadersAssumption DEF Init, FInv, Asked, NoneEmpty, Fresh, Graphs
<1>2. FInv => FaithfulUnqueued
  BY DEF FInv, NoneEmpty, FaithfulUnqueued, Committed, Done, Readers
<1>3. TypeOK /\ FInv /\ [Next]_vars => FInv'
  BY FaithfulNext
<1> QED
  BY <1>1, <1>2, <1>3, TypeInit, TypeNext, PTL DEF Spec
================================================================================
