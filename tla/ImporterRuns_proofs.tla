-------------------------- MODULE ImporterRuns_proofs --------------------------
(***************************************************************************)
(* No run of an importer, of whatever kind, leaves behind a document that  *)
(* neither was ingested nor will be asked for, unless it is one of those   *)
(* that the code does not retry.  The invariant holds during the runs as   *)
(* well: what the row of the importer would ask for always makes up for    *)
(* what was not ingested.                                                  *)
(***************************************************************************)
EXTENDS ImporterRuns, WellFoundedInduction, TLAPS

Markers == [Docs -> Nat]

RunType ==
  [active : BOOLEAN, start : Nat, todo : SUBSET Docs, from : Markers, seen : Markers,
   peeked : SUBSET Docs, next : Markers, dropped : SUBSET Docs, failed : BOOLEAN]

Typed ==
  /\ kind \in {"http", "git", "quay", "nvd", "cwe", "clearly"}
  /\ clock \in Nat
  /\ modified \in Markers
  /\ wanted \in SUBSET Docs
  /\ row \in [cont : Markers, success : Nat]
  /\ ingested \in Markers
  /\ cur \in RunType /\ old \in RunType
  /\ missed \in SUBSET Docs

\* No marker is ahead of the source.
MarkersBounded(r) ==
  /\ r.start <= clock
  /\ \A d \in Docs : r.seen[d] <= modified[d] /\ r.from[d] <= clock /\ r.next[d] <= clock

Bounded ==
  /\ row.success <= clock
  /\ \A d \in Docs : ingested[d] <= modified[d] /\ modified[d] <= clock /\ row.cont[d] <= clock
  /\ MarkersBounded(cur) /\ MarkersBounded(old)

\* Two documents never have the same version.
Distinct == \A d, e \in Docs : modified[d] = modified[e] /\ modified[d] # 0 => d = e

Settled(d) == ingested[d] = modified[d] \/ d \in missed

\* The row of the importer asks for d.
Due(d) ==
  /\ modified[d] > 0
  /\ kind = "http" => modified[d] > row.success
  /\ kind \in {"nvd", "cwe"} => modified[d] # row.cont[d]
  /\ kind \in {"git", "quay", "clearly"} => modified[d] > row.cont[d]

RowGood == \A d \in wanted : Settled(d) \/ Due(d)

\* What a run has passed by is ingested, except for what it dropped; what the source
\* had when the run started is what the run saw.
WalkGood ==
  cur.active /\ ~cur.failed /\ kind \notin {"nvd", "cwe"} =>
    /\ \A d \in wanted : modified[d] <= cur.start =>
         Settled(d) \/ d \in cur.todo \/ (kind = "clearly" /\ d \in cur.dropped)
    /\ \A d \in Docs : modified[d] <= cur.start => cur.seen[d] = modified[d]
    /\ \A d \in Docs : cur.seen[d] <= cur.start

\* A digest that a run will leave in the row is one of what was ingested.
PeekGood ==
  cur.active /\ kind \in {"nvd", "cwe"} =>
    \A d \in wanted : modified[d] = cur.next[d] => Settled(d)

\* A notice is still to be loaded, was dropped, or has left its date, which never changes.
NoticeGood ==
  kind = "clearly" =>
    /\ \A d \in Docs : cur.seen[d] \in {0, modified[d]}
    /\ \A d \in Docs : cur.next[d] \in {0, cur.seen[d]}
    /\ \A d \in cur.todo : cur.next[d] = 0
    /\ \A d \in cur.dropped : cur.next[d] = 0 /\ d \notin cur.todo

RunsInv == Typed /\ Bounded /\ Distinct /\ RowGood /\ WalkGood /\ PeekGood /\ NoticeGood

-----------------------------------------------------------------------------
(* The latest of a set of times. *)

LEMMA LatestIsMax ==
  ASSUME NEW S \in SUBSET Nat, S # {}, NEW n \in Nat, \A x \in S : x <= n
  PROVE  Latest(S) \in S /\ \A x \in S : x <= Latest(S)
<1> DEFINE Above == {m \in Nat : \A x \in S : x <= m}
<1>1. n \in Above
  OBVIOUS
<1>2. PICK m \in Above : \A k \in Above : ~(<<k, m>> \in OpToRel(<, Nat))
  BY <1>1, NatLessThanWellFounded, WFMin
<1>3. m \in Nat /\ \A x \in S : x <= m
  BY <1>2
<1>4. m \in S
  <2> SUFFICES ASSUME m \notin S PROVE FALSE
    OBVIOUS
  <2>1. \A x \in S : x < m
    BY <1>3
  <2>2. PICK x \in S : TRUE
    OBVIOUS
  <2>3. m - 1 \in Nat /\ \A y \in S : y <= m - 1
    BY <1>3, <2>1, <2>2
  <2>4. m - 1 \in Above
    BY <2>3
  <2>5. <<m - 1, m>> \in OpToRel(<, Nat)
    BY <1>3, <2>3 DEF OpToRel
  <2> QED
    BY <1>2, <2>4, <2>5
<1>5. \E x \in S : \A y \in S : y <= x
  BY <1>3, <1>4
<1> QED
  BY <1>5 DEF Latest

LEMMA LatestOfTwo ==
  ASSUME NEW a \in Nat, NEW b \in Nat
  PROVE  Latest({a, b}) = IF a <= b THEN b ELSE a
<1>1. \E n \in Nat : \A x \in {a, b} : x <= n
  OBVIOUS
<1>2. Latest({a, b}) \in {a, b} /\ \A x \in {a, b} : x <= Latest({a, b})
  BY <1>1, LatestIsMax
<1> QED
  BY <1>2

-----------------------------------------------------------------------------
LEMMA NoRunType == NoRun \in RunType /\ ~NoRun.active /\ None \in Markers
BY DEF NoRun, RunType, None, Markers

LEMMA RunsInit == Init => RunsInv
<1> SUFFICES ASSUME Init PROVE RunsInv
  OBVIOUS
<1>1. Typed
  BY NoRunType, RunsAssumption DEF Init, Typed, None, Markers
<1>2. cur = NoRun /\ old = NoRun /\ modified = None /\ ingested = None /\ clock = 0
      /\ row = [cont |-> None, success |-> 0]
  BY DEF Init
<1>3. \A d \in Docs : None[d] = 0
  BY DEF None
<1>4. /\ NoRun.start = 0 /\ NoRun.seen = None /\ NoRun.from = None /\ NoRun.next = None
      /\ NoRun.todo = {} /\ NoRun.dropped = {} /\ NoRun.active = FALSE
  BY DEF NoRun
<1>5. Bounded
  BY <1>2, <1>3, <1>4 DEF Bounded, MarkersBounded
<1>6. Distinct /\ RowGood
  BY <1>1, <1>2, <1>3 DEF Distinct, RowGood, Settled, Typed
<1>7. WalkGood /\ PeekGood /\ NoticeGood
  BY <1>2, <1>3, <1>4 DEF WalkGood, PeekGood, NoticeGood
<1> QED
  BY <1>1, <1>5, <1>6, <1>7 DEF RunsInv

LEMMA DueAsked ==
  ASSUME Typed, NEW d \in Docs
  PROVE  d \in Asked(row, wanted) <=> d \in wanted /\ Due(d)
BY DEF Typed, Asked, Due

-----------------------------------------------------------------------------
(* What steps of every kind keep. *)

\* A continuation that is taken away only makes the row ask for more.
LEMMA ResetAsksMore ==
  ASSUME Typed, UNCHANGED <<kind, modified>>,
         row' = row \/ row' = [row EXCEPT !.cont = None],
         NEW d \in Docs, Due(d)
  PROVE  Due(d)'
<1>1. row'.success = row.success /\ (row'.cont = row.cont \/ row'.cont[d] = 0)
  BY DEF Typed, None
<1>2. modified[d] \in Nat /\ row.success \in Nat
  BY DEF Typed, Markers
<1> QED
  BY <1>1, <1>2 DEF Due

LEMMA ResetMarkers ==
  ASSUME Typed, Bounded, row' = row \/ row' = [row EXCEPT !.cont = None]
  PROVE  /\ row' \in [cont : Markers, success : Nat]
         /\ row'.success = row.success
         /\ \A d \in Docs : row'.cont[d] <= clock
<1>1. \A d \in Docs : None[d] = 0
  BY DEF None
<1>2. clock \in Nat /\ \A d \in Docs : row.cont[d] <= clock
  BY DEF Typed, Bounded
<1> QED
  BY <1>1, <1>2, NoRunType DEF Typed

\* A run that is not touched stands as it did.
LEMMA CurKept ==
  ASSUME RunsInv, UNCHANGED <<kind, modified, wanted, cur>>,
         \A d \in Docs : Settled(d) => Settled(d)'
  PROVE  WalkGood' /\ PeekGood' /\ NoticeGood'
<1> USE DEF RunsInv, Typed
<1>1. WalkGood'
  BY DEF WalkGood
<1>2. PeekGood'
  BY DEF PeekGood
<1>3. NoticeGood'
  BY DEF NoticeGood
<1> QED
  BY <1>1, <1>2, <1>3

LEMMA RowKept ==
  ASSUME RunsInv, UNCHANGED <<kind, modified, wanted>>,
         row' = row \/ row' = [row EXCEPT !.cont = None],
         \A d \in Docs : Settled(d) => Settled(d)'
  PROVE  RowGood'
<1> SUFFICES ASSUME NEW d \in wanted PROVE Settled(d)' \/ Due(d)'
  BY DEF RowGood
<1>1. d \in Docs
  BY DEF RunsInv, Typed
<1> QED
  BY <1>1, ResetAsksMore DEF RunsInv, RowGood

\* A run that ended, or was never begun, promises nothing.
LEMMA NoRunGood ==
  ASSUME cur' = NoRun, modified' \in Markers
  PROVE  WalkGood' /\ PeekGood' /\ NoticeGood'
<1>1. cur' = NoRun /\ \A d \in Docs : None[d] = 0
  BY DEF None
<1>2. /\ NoRun.seen = None /\ NoRun.next = None
      /\ NoRun.todo = {} /\ NoRun.dropped = {} /\ NoRun.active = FALSE
  BY DEF NoRun
<1> QED
  BY <1>1, <1>2 DEF WalkGood, PeekGood, NoticeGood

LEMMA NoRunBounded == clock \in Nat => MarkersBounded(NoRun) \/ modified \notin Markers
<1>1. \A d \in Docs : None[d] = 0
  BY DEF None
<1>2. /\ NoRun.seen = None /\ NoRun.next = None /\ NoRun.from = None /\ NoRun.start = 0
  BY DEF NoRun
<1> QED
  BY <1>1, <1>2 DEF MarkersBounded, Markers

\* A step of a run that leaves the source, the users and the row alone.
LEMMA QuietStep ==
  ASSUME RunsInv, NEW r, NEW r2 \in RunType, r \in {cur, old}, Becomes(r, r2),
         UNCHANGED <<kind, clock, modified, wanted, row>>,
         ingested' \in Markers, \A d \in Docs : ingested'[d] <= modified[d],
         missed' \in SUBSET Docs,
         MarkersBounded(r2),
         \A d \in Docs : Settled(d) => Settled(d)',
         r = cur /\ cur' = r2 => WalkGood' /\ PeekGood' /\ NoticeGood'
  PROVE  RunsInv'
<1>1. Typed'
  BY DEF RunsInv, Typed, Becomes
<1>2. Bounded'
  BY DEF RunsInv, Bounded, Becomes, MarkersBounded
<1>3. Distinct'
  BY DEF RunsInv, Distinct
<1>4. RowGood'
  BY RowKept
<1>5. WalkGood' /\ PeekGood' /\ NoticeGood'
  BY CurKept DEF Becomes
<1> QED
  BY <1>1, <1>2, <1>3, <1>4, <1>5 DEF RunsInv

-----------------------------------------------------------------------------
(* The source and the users. *)

LEMMA PublishGood ==
  ASSUME RunsInv, NEW d \in Docs, Publish(d)
  PROVE  RunsInv'
<1> USE DEF RunsInv, Typed
<1>1. /\ clock' = clock + 1
      /\ modified' = [modified EXCEPT ![d] = clock + 1]
      /\ missed' = missed \ {d}
      /\ kind = "clearly" => modified[d] = 0
      /\ UNCHANGED <<kind, wanted, row, stale, ingested, cur, old, disturbed>>
  BY DEF Publish
<1>2. modified'[d] = clock + 1 /\ \A e \in Docs : e # d => modified'[e] = modified[e]
  BY <1>1 DEF Markers
<1>3. Typed'
  BY <1>1 DEF Markers
<1>4. /\ clock \in Nat /\ row.success \in Nat /\ row.success <= clock
      /\ \A e \in Docs : /\ modified[e] \in Nat /\ ingested[e] \in Nat /\ row.cont[e] \in Nat
                         /\ ingested[e] <= modified[e] /\ modified[e] <= clock
                         /\ row.cont[e] <= clock
  BY DEF Bounded, Markers
<1>5. /\ cur.start \in Nat /\ cur.start <= clock
      /\ \A e \in Docs : /\ cur.seen[e] \in Nat /\ cur.from[e] \in Nat /\ cur.next[e] \in Nat
                         /\ cur.seen[e] <= modified[e] /\ cur.from[e] <= clock
                         /\ cur.next[e] <= clock
  BY DEF Bounded, Markers, MarkersBounded, RunType
<1>6. /\ old.start \in Nat /\ old.start <= clock
      /\ \A e \in Docs : /\ old.seen[e] \in Nat /\ old.from[e] \in Nat /\ old.next[e] \in Nat
                         /\ old.seen[e] <= modified[e] /\ old.from[e] <= clock
                         /\ old.next[e] <= clock
  BY DEF Bounded, Markers, MarkersBounded, RunType
<1>7. Bounded'
  <2>1. \A e \in Docs : modified[e] <= modified'[e] /\ modified'[e] <= clock'
    BY <1>1, <1>2, <1>4
  <2>2. \A e \in Docs : ingested'[e] <= modified'[e] /\ row'.cont[e] <= clock'
    BY <1>1, <1>2, <1>4
  <2>3. MarkersBounded(cur)' /\ MarkersBounded(old)'
    <3>1. \A e \in Docs : cur'.seen[e] <= modified'[e] /\ old'.seen[e] <= modified'[e]
      BY <1>1, <1>2, <1>4, <1>5, <1>6
    <3>2. cur'.start <= clock' /\ old'.start <= clock'
      BY <1>1, <1>4, <1>5, <1>6
    <3>3. \A e \in Docs : /\ cur'.from[e] <= clock' /\ cur'.next[e] <= clock'
                          /\ old'.from[e] <= clock' /\ old'.next[e] <= clock'
      BY <1>1, <1>4, <1>5, <1>6
    <3> QED
      BY <3>1, <3>2, <3>3 DEF MarkersBounded
  <2> QED
    BY <1>1, <1>4, <2>1, <2>2, <2>3 DEF Bounded
<1>8. Distinct'
  BY <1>2, <1>4 DEF Distinct
<1>9. \A e \in Docs : e # d => (Settled(e) => Settled(e)')
  BY <1>1, <1>2 DEF Settled
<1>10. RowGood'
  <2> SUFFICES ASSUME NEW e \in wanted PROVE Settled(e)' \/ Due(e)'
    BY <1>1 DEF RowGood
  <2>1. CASE e = d
    BY <1>1, <1>2, <1>4, <2>1 DEF Due
  <2>2. CASE e # d
    BY <1>1, <1>2, <1>9, <2>2 DEF RowGood, Due
  <2> QED
    BY <2>1, <2>2
<1>11. WalkGood'
  <2>1. \A e \in Docs : modified'[e] <= cur.start => e # d /\ modified[e] <= cur.start
    BY <1>2, <1>4, <1>5
  <2> QED
    BY <1>1, <1>2, <1>9, <2>1 DEF WalkGood
<1>12. PeekGood'
  <2>1. \A e \in Docs : modified'[e] = cur.next[e] => e # d /\ modified[e] = cur.next[e]
    BY <1>2, <1>4, <1>5
  <2> QED
    BY <1>1, <1>9, <2>1 DEF PeekGood
<1>13. NoticeGood'
  <2>1. kind = "clearly" => cur.seen[d] = 0
    BY <1>1, <1>5
  <2> QED
    BY <1>1, <1>2, <2>1 DEF NoticeGood
<1> QED
  BY <1>3, <1>7, <1>8, <1>10, <1>11, <1>12, <1>13

LEMMA ReconfigureGood ==
  ASSUME RunsInv, NEW w \in SUBSET Docs, Reconfigure(w)
  PROVE  RunsInv'
<1> USE DEF RunsInv, Typed
<1>1. /\ wanted' = w /\ missed' = missed \cup (w \ wanted)
      /\ UNCHANGED <<kind, clock, modified, row, ingested, cur, old>>
  BY DEF Reconfigure
<1>2. Typed' /\ Bounded' /\ Distinct' /\ NoticeGood'
  BY <1>1 DEF Bounded, MarkersBounded, Distinct, NoticeGood
<1>3. \A e \in Docs : Settled(e) => Settled(e)'
  BY <1>1 DEF Settled
<1>4. \A e \in w : e \in wanted \/ Settled(e)'
  BY <1>1 DEF Settled
<1>5. RowGood'
  BY <1>1, <1>3, <1>4 DEF RowGood, Due
<1>6. WalkGood'
  BY <1>1, <1>3, <1>4 DEF WalkGood
<1>7. PeekGood'
  BY <1>1, <1>3, <1>4 DEF PeekGood
<1> QED
  BY <1>2, <1>5, <1>6, <1>7

\* The request, and the loop that reaps the row of a dead process.
LEMMA ResetGood ==
  ASSUME RunsInv, Reset \/ Reap
  PROVE  RunsInv'
<1>1. /\ row' = [row EXCEPT !.cont = None]
      /\ UNCHANGED <<kind, clock, modified, wanted, ingested, cur, old, missed>>
  BY DEF Reset, Reap
<1>2. \A e \in Docs : Settled(e) => Settled(e)'
  BY <1>1 DEF Settled
<1>3. RowGood' /\ WalkGood' /\ PeekGood' /\ NoticeGood'
  BY <1>1, <1>2, RowKept, CurKept
<1>4. Typed' /\ Bounded' /\ Distinct'
  BY <1>1, ResetMarkers DEF RunsInv, Typed, Bounded, MarkersBounded, Distinct
<1> QED
  BY <1>3, <1>4 DEF RunsInv

\* The row of an importer that was created asks for everything.
LEMMA RecreateGood ==
  ASSUME RunsInv, NEW w \in SUBSET Docs, Recreate(w)
  PROVE  RunsInv'
<1> USE DEF RunsInv, Typed
<1>1. /\ wanted' = w /\ row' = [cont |-> None, success |-> 0]
      /\ old' = cur /\ cur' = NoRun
      /\ UNCHANGED <<kind, clock, modified, ingested, missed>>
  BY DEF Recreate
<1>2. \A e \in Docs : None[e] = 0
  BY DEF None
<1>3. Typed'
  BY <1>1, NoRunType
<1>4. Bounded' /\ Distinct'
  BY <1>1, <1>2, NoRunBounded DEF Bounded, MarkersBounded, Distinct
<1>5. WalkGood' /\ PeekGood' /\ NoticeGood'
  BY <1>1, NoRunGood
<1>6. RowGood'
  <2> SUFFICES ASSUME NEW e \in w PROVE Settled(e)' \/ Due(e)'
    BY <1>1 DEF RowGood
  <2>1. modified[e] \in Nat /\ ingested[e] \in Nat /\ ingested[e] <= modified[e]
    BY DEF Bounded, Markers
  <2> QED
    BY <1>1, <1>2, <2>1 DEF Settled, Due
<1> QED
  BY <1>3, <1>4, <1>5, <1>6

-----------------------------------------------------------------------------
(* The beginning of a run. *)

LEMMA StartGood ==
  ASSUME RunsInv, Start
  PROVE  RunsInv'
<1> USE DEF RunsInv, Typed
<1>1. /\ UNCHANGED <<kind, clock, modified, wanted, ingested, old, missed>>
      /\ row' = row \/ row' = [row EXCEPT !.cont = None]
  BY DEF Start
<1>2. CASE kind \in {"nvd", "cwe"}
  <2>1. cur' = [NoRun EXCEPT !.active = TRUE, !.start = clock, !.todo = wanted,
                             !.from = row.cont, !.next = row.cont]
    BY <1>2 DEF Start
  <2>2. /\ cur'.start = clock /\ cur'.from = row.cont /\ cur'.next = row.cont
        /\ cur'.seen = None /\ cur' \in RunType
    BY <2>1, NoRunType DEF NoRun, RunType
  <2>3. MarkersBounded(cur)'
    BY <1>1, <2>2 DEF MarkersBounded, Bounded, None, Markers
  <2>4. \A e \in wanted : modified[e] = row.cont[e] => Settled(e)'
    <3> SUFFICES ASSUME NEW e \in wanted, modified[e] = row.cont[e] PROVE Settled(e)
      BY <1>1 DEF Settled
    <3> QED
      BY <1>2 DEF RowGood, Due
  <2>5. WalkGood' /\ PeekGood' /\ NoticeGood'
    BY <1>1, <1>2, <2>2, <2>4 DEF WalkGood, PeekGood, NoticeGood
  <2> QED
    BY <1>1, <2>2, <2>3, <2>5, RowKept, ResetMarkers
    DEF Bounded, MarkersBounded, Distinct, Settled
<1>3. CASE kind \notin {"nvd", "cwe"}
  <2>1. cur' = [NoRun EXCEPT !.active = TRUE, !.start = clock, !.todo = Asked(row, wanted),
                             !.seen = modified]
    BY <1>3 DEF Start
  <2>2. /\ cur'.start = clock /\ cur'.from = None /\ cur'.next = None /\ cur'.seen = modified
        /\ cur'.todo = Asked(row, wanted) /\ cur'.dropped = {} /\ cur' \in RunType
    BY <2>1, NoRunType DEF NoRun, RunType, Asked
  <2>3. \A e \in Docs : None[e] = 0
    BY DEF None
  <2>4. MarkersBounded(cur)'
    BY <1>1, <2>2, <2>3 DEF MarkersBounded, Bounded, Markers
  <2>5. \A e \in wanted : Settled(e)' \/ e \in cur'.todo
    <3> SUFFICES ASSUME NEW e \in wanted PROVE Settled(e) \/ e \in Asked(row, wanted)
      BY <1>1, <2>2 DEF Settled
    <3> QED
      BY DueAsked DEF RowGood
  <2>6. WalkGood'
    BY <1>1, <2>2, <2>5 DEF WalkGood, Bounded
  <2>7. PeekGood' /\ NoticeGood'
    <3>1. \A e \in Docs : cur'.next[e] = 0 /\ cur'.seen[e] = modified'[e]
      BY <1>1, <2>2, <2>3
    <3>2. cur'.todo \subseteq Docs
      BY <2>2 DEF Asked
    <3> QED
      BY <1>1, <1>3, <2>2, <3>1, <3>2 DEF PeekGood, NoticeGood
  <2> QED
    BY <1>1, <2>2, <2>4, <2>6, <2>7, RowKept, ResetMarkers
    DEF Bounded, MarkersBounded, Distinct, Settled
<1> QED
  BY <1>2, <1>3

-----------------------------------------------------------------------------
(* The steps of the walkers. *)

LEMMA RunIsTyped ==
  ASSUME RunsInv, NEW r \in {cur, old}
  PROVE  r \in RunType /\ MarkersBounded(r)
BY DEF RunsInv, Typed, Bounded

LEMMA PeekKeeps ==
  ASSUME RunsInv, NEW r \in {cur, old}, NEW d \in Docs, Peek(r, d)
  PROVE  RunsInv'
<1>1. /\ kind \in {"nvd", "cwe"}
      /\ UNCHANGED <<kind, clock, modified, wanted, row, ingested, missed>>
  BY DEF Peek
<1>2. PICK r2 : /\ r2 \in { [r EXCEPT !.todo = @ \ {d}],
                            [r EXCEPT !.peeked = {d}, !.seen[d] = modified[d]] }
                /\ Becomes(r, r2)
  BY DEF Peek
<1>3. r \in RunType /\ MarkersBounded(r)
  BY RunIsTyped
<1>4. /\ r2 \in RunType /\ r2.next = r.next /\ r2.start = r.start /\ r2.from = r.from
      /\ r2.active = r.active
      /\ \A e \in Docs : r2.seen[e] \in {r.seen[e], modified[e]}
  <2>1. r.seen \in Markers /\ modified \in Markers /\ [r.seen EXCEPT ![d] = modified[d]] \in Markers
    BY <1>3 DEF RunType, RunsInv, Typed, Markers
  <2>2. \A e \in Docs : [r.seen EXCEPT ![d] = modified[d]][e] \in {r.seen[e], modified[e]}
    BY <2>1 DEF Markers
  <2>3. CASE r2 = [r EXCEPT !.todo = @ \ {d}]
    BY <1>3, <2>3 DEF RunType
  <2>4. CASE r2 = [r EXCEPT !.peeked = {d}, !.seen[d] = modified[d]]
    <3>1. r2 = [r EXCEPT !.peeked = {d}, !.seen = [r.seen EXCEPT ![d] = modified[d]]]
      BY <1>3, <2>4 DEF RunType
    <3> QED
      BY <1>3, <2>1, <2>2, <3>1 DEF RunType
  <2> QED
    BY <1>2, <2>3, <2>4
<1>5. MarkersBounded(r2)
  BY <1>3, <1>4 DEF MarkersBounded, RunsInv, Typed, Markers
<1>6. \A e \in Docs : Settled(e) => Settled(e)'
  BY <1>1 DEF Settled
<1>7. ASSUME r = cur, cur' = r2 PROVE WalkGood' /\ PeekGood' /\ NoticeGood'
  <2>1. PeekGood'
    BY <1>1, <1>4, <1>6, <1>7 DEF PeekGood, RunsInv, Typed
  <2> QED
    BY <1>1, <1>7, <2>1 DEF WalkGood, NoticeGood
<1>8. ingested' \in Markers /\ missed' \in SUBSET Docs
      /\ \A e \in Docs : ingested'[e] <= modified[e]
  BY <1>1 DEF RunsInv, Typed, Bounded
<1> QED
  BY <1>1, <1>2, <1>4, <1>5, <1>6, <1>7, <1>8, QuietStep

\* A document that is done: its run passes it by.
LEMMA DoneRun ==
  ASSUME RunsInv, NEW r \in {cur, old}, NEW d \in Docs
  PROVE  /\ Done(r, d) \in RunType /\ MarkersBounded(Done(r, d))
         /\ Done(r, d).active = r.active /\ Done(r, d).start = r.start
         /\ Done(r, d).failed = r.failed /\ Done(r, d).seen = r.seen
         /\ Done(r, d).dropped = r.dropped /\ Done(r, d).todo = r.todo \ {d}
         /\ Done(r, d).next[d] = IF kind \in {"nvd", "cwe", "clearly"}
                                 THEN r.seen[d] ELSE r.next[d]
         /\ \A e \in Docs : e # d => Done(r, d).next[e] = r.next[e]
<1> DEFINE r2 == Done(r, d)
<1>1. r \in RunType /\ MarkersBounded(r)
  BY RunIsTyped
<1>2. /\ r.seen \in Markers /\ r.next \in Markers
      /\ r.seen[d] \in Nat /\ r.next[d] \in Nat
  BY <1>1 DEF RunType, Markers
<1>3. r2 = [r EXCEPT !.todo = r.todo \ {d}, !.peeked = {},
                     !.next = [r.next EXCEPT ![d] = IF kind \in {"nvd", "cwe", "clearly"}
                                                    THEN r.seen[d] ELSE r.next[d]]]
  BY <1>1 DEF Done, RunType
<1>4. [r.next EXCEPT ![d] = IF kind \in {"nvd", "cwe", "clearly"}
                            THEN r.seen[d] ELSE r.next[d]] \in Markers
  BY <1>2 DEF Markers
<1>5. /\ r2 \in RunType
      /\ r2.active = r.active /\ r2.start = r.start /\ r2.failed = r.failed
      /\ r2.seen = r.seen /\ r2.from = r.from
      /\ r2.dropped = r.dropped /\ r2.todo = r.todo \ {d}
  BY <1>1, <1>3, <1>4 DEF RunType
<1>6. /\ r2.next[d] = IF kind \in {"nvd", "cwe", "clearly"} THEN r.seen[d] ELSE r.next[d]
      /\ \A e \in Docs : e # d => r2.next[e] = r.next[e]
  BY <1>1, <1>2, <1>3 DEF RunType, Markers
<1>7. r.seen[d] <= clock
  <2>1. r.seen[d] <= modified[d] /\ modified[d] <= clock /\ modified[d] \in Nat /\ clock \in Nat
    BY <1>1 DEF MarkersBounded, RunsInv, Bounded, Typed, Markers
  <2> QED
    BY <1>2, <2>1
<1>8. MarkersBounded(r2)
  <2>1. \A e \in Docs : r2.next[e] <= clock
    BY <1>1, <1>6, <1>7 DEF MarkersBounded
  <2> QED
    BY <1>1, <1>5, <2>1 DEF MarkersBounded
<1> HIDE DEF r2
<1>9. r2 = Done(r, d)
  BY DEF r2
<1> QED
  BY <1>5, <1>6, <1>8, <1>9

LEMMA IngestKeeps ==
  ASSUME RunsInv, NEW r \in {cur, old}, NEW d \in Docs, Ingest(r, d)
  PROVE  RunsInv'
<1>1. /\ ingested' = [ingested EXCEPT ![d] = Latest({ingested[d], Content(r, d)})]
      /\ missed' = missed \ {e \in {d} : Content(r, d) = modified[d]}
      /\ Becomes(r, Done(r, d)) /\ d \in r.todo
      /\ UNCHANGED <<kind, clock, modified, wanted, row>>
  BY DEF Ingest, Ready
<1>2. r \in RunType /\ MarkersBounded(r)
  BY RunIsTyped
<1>3. /\ Content(r, d) \in Nat /\ ingested[d] \in Nat /\ modified[d] \in Nat
      /\ Content(r, d) <= modified[d] /\ ingested[d] <= modified[d]
  BY <1>2 DEF Content, RunType, MarkersBounded, RunsInv, Typed, Bounded, Markers
<1>4. Latest({ingested[d], Content(r, d)})
        = IF ingested[d] <= Content(r, d) THEN Content(r, d) ELSE ingested[d]
  BY <1>3, LatestOfTwo
<1>5. /\ ingested' \in Markers
      /\ ingested'[d] = IF ingested[d] <= Content(r, d) THEN Content(r, d) ELSE ingested[d]
      /\ \A e \in Docs : e # d => ingested'[e] = ingested[e]
  BY <1>1, <1>3, <1>4 DEF RunsInv, Typed, Markers
<1>6. \A e \in Docs : ingested'[e] <= modified[e]
  BY <1>3, <1>5 DEF RunsInv, Bounded
<1>7. Content(r, d) = modified[d] => Settled(d)'
  BY <1>1, <1>3, <1>5 DEF Settled
<1>8. \A e \in Docs : Settled(e) => Settled(e)'
  <2> SUFFICES ASSUME NEW e \in Docs, Settled(e) PROVE Settled(e)'
    OBVIOUS
  <2>1. CASE e # d
    BY <1>1, <1>5, <2>1 DEF Settled
  <2>2. CASE e = d /\ Content(r, d) # modified[d] /\ ingested[d] = modified[d]
    BY <1>1, <1>3, <1>5, <2>2 DEF Settled
  <2>3. CASE e = d /\ Content(r, d) # modified[d] /\ d \in missed
    BY <1>1, <2>3 DEF Settled
  <2> QED
    BY <1>7, <2>1, <2>2, <2>3 DEF Settled
<1>9. missed' \in SUBSET Docs
  BY <1>1 DEF RunsInv, Typed
<1>10. ASSUME r = cur, cur' = Done(r, d) PROVE WalkGood' /\ PeekGood' /\ NoticeGood'
  <2>1. WalkGood'
    <3> SUFFICES ASSUME cur'.active, ~cur'.failed, kind \notin {"nvd", "cwe"}
                 PROVE  /\ \A e \in wanted : modified[e] <= cur'.start =>
                             Settled(e)' \/ e \in cur'.todo
                               \/ (kind = "clearly" /\ e \in cur'.dropped)
                        /\ \A e \in Docs : modified[e] <= cur'.start => cur'.seen[e] = modified[e]
                        /\ \A e \in Docs : cur'.seen[e] <= cur'.start
      BY <1>1 DEF WalkGood
    <3>1. /\ \A e \in wanted : modified[e] <= cur.start =>
               Settled(e) \/ e \in cur.todo \/ (kind = "clearly" /\ e \in cur.dropped)
          /\ \A e \in Docs : modified[e] <= cur.start => cur.seen[e] = modified[e]
          /\ \A e \in Docs : cur.seen[e] <= cur.start
      BY <1>10, DoneRun DEF RunsInv, WalkGood
    <3>2. modified[d] <= cur.start => Content(r, d) = modified[d]
      BY <1>10, <3>1 DEF Content
    <3>3. wanted \subseteq Docs
      BY DEF RunsInv, Typed
    <3> QED
      BY <1>7, <1>8, <1>10, <3>1, <3>2, <3>3, DoneRun
  <2>2. PeekGood'
    <3> SUFFICES ASSUME cur'.active, kind \in {"nvd", "cwe"},
                        NEW e \in wanted, modified[e] = cur'.next[e]
                 PROVE  Settled(e)'
      BY <1>1 DEF PeekGood
    <3>1. e \in Docs
      BY DEF RunsInv, Typed
    <3>2. CASE e = d
      <4>1. modified[d] = r.seen[d]
        BY <1>10, <3>2, DoneRun
      <4>2. Content(r, d) = modified[d]
        BY <4>1 DEF Content
      <4> QED
        BY <1>7, <3>2, <4>2
    <3>3. CASE e # d
      BY <1>8, <1>10, <3>1, <3>3, DoneRun DEF RunsInv, PeekGood
    <3> QED
      BY <3>2, <3>3
  <2>3. NoticeGood'
    BY <1>1, <1>2, <1>10, DoneRun DEF RunsInv, NoticeGood, RunType
  <2> QED
    BY <2>1, <2>2, <2>3
<1>11. Done(r, d) \in RunType /\ MarkersBounded(Done(r, d))
  BY DoneRun
<1> QED
  BY <1>1, <1>5, <1>6, <1>8, <1>9, <1>10, <1>11, QuietStep

LEMMA ReportKeeps ==
  ASSUME RunsInv, NEW r \in {cur, old}, NEW d \in Docs, Report(r, d)
  PROVE  RunsInv'
<1>1. /\ UNCHANGED <<kind, clock, modified, wanted, row, ingested>>
      /\ d \in r.todo
  BY DEF Report, Ready
<1>2. r \in RunType /\ MarkersBounded(r)
  BY RunIsTyped
<1>3. missed \subseteq missed' /\ missed' \in SUBSET Docs
  BY DEF Report, RunsInv, Typed
<1>4. \A e \in Docs : Settled(e) => Settled(e)'
  BY <1>1, <1>3 DEF Settled
<1>5. ingested' \in Markers /\ \A e \in Docs : ingested'[e] <= modified[e]
  BY <1>1 DEF RunsInv, Typed, Bounded
<1>6. CASE kind = "cwe"
  <2> DEFINE r2 == [r EXCEPT !.todo = @ \ {d}, !.peeked = {}]
  <2>1. Becomes(r, r2)
    BY <1>6 DEF Report
  <2>2. r2 \in RunType /\ MarkersBounded(r2) /\ r2.next = r.next /\ r2.active = r.active
    BY <1>2 DEF RunType, MarkersBounded
  <2>3. ASSUME r = cur, cur' = r2 PROVE WalkGood' /\ PeekGood' /\ NoticeGood'
    <3>1. cur'.active = cur.active /\ cur'.next = cur.next
      BY <2>2, <2>3
    <3> HIDE DEF r2
    <3>2. wanted \subseteq Docs
      BY DEF RunsInv, Typed
    <3> QED
      BY <1>1, <1>4, <1>6, <3>1, <3>2 DEF RunsInv, WalkGood, PeekGood, NoticeGood
  <2> HIDE DEF r2
  <2> QED
    BY <1>1, <1>3, <1>4, <1>5, <2>1, <2>2, <2>3, QuietStep
<1>7. CASE kind # "cwe"
  <2>1. Becomes(r, Done(r, d)) /\ missed' = missed \cup {d}
    BY <1>7 DEF Report
  <2>2. Settled(d)'
    BY <2>1 DEF Settled
  <2>3. ASSUME r = cur, cur' = Done(r, d) PROVE WalkGood' /\ PeekGood' /\ NoticeGood'
    <3>1. wanted \subseteq Docs
      BY DEF RunsInv, Typed
    <3>2. WalkGood'
      BY <1>1, <1>4, <2>2, <2>3, <3>1, DoneRun DEF RunsInv, WalkGood
    <3>3. PeekGood'
      BY <1>1, <1>4, <2>2, <2>3, <3>1, DoneRun DEF RunsInv, PeekGood
    <3>4. NoticeGood'
      BY <1>1, <1>2, <2>3, DoneRun DEF RunsInv, NoticeGood, RunType
    <3> QED
      BY <3>2, <3>3, <3>4
  <2>4. Done(r, d) \in RunType /\ MarkersBounded(Done(r, d))
    BY DoneRun
  <2> QED
    BY <1>1, <1>3, <1>4, <1>5, <2>1, <2>3, <2>4, QuietStep
<1> QED
  BY <1>6, <1>7

LEMMA DropKeeps ==
  ASSUME RunsInv, NEW r \in {cur, old}, NEW d \in Docs, Drop(r, d)
  PROVE  RunsInv'
<1> DEFINE r2 == [r EXCEPT !.todo = @ \ {d}, !.peeked = {}, !.dropped = @ \cup {d}]
<1>1. /\ UNCHANGED <<kind, clock, modified, wanted, row, ingested, missed>>
      /\ d \in r.todo /\ kind \in {"nvd", "clearly"} /\ Becomes(r, r2)
  BY DEF Drop, Ready
<1>2. r \in RunType /\ MarkersBounded(r)
  BY RunIsTyped
<1>3. \A e \in Docs : Settled(e) => Settled(e)'
  BY <1>1 DEF Settled
<1>4. /\ r2 \in RunType /\ MarkersBounded(r2)
      /\ r2.next = r.next /\ r2.active = r.active /\ r2.failed = r.failed
      /\ r2.start = r.start /\ r2.seen = r.seen
      /\ r2.todo = r.todo \ {d} /\ r2.dropped = r.dropped \cup {d}
  BY <1>2 DEF RunType, MarkersBounded
<1> HIDE DEF r2
<1>5. ASSUME r = cur, cur' = r2 PROVE WalkGood' /\ PeekGood' /\ NoticeGood'
  <2>1. wanted \subseteq Docs
    BY DEF RunsInv, Typed
  <2>2. WalkGood'
    BY <1>1, <1>3, <1>4, <1>5, <2>1 DEF RunsInv, WalkGood
  <2>3. PeekGood'
    BY <1>1, <1>3, <1>4, <1>5, <2>1 DEF RunsInv, PeekGood
  <2>4. NoticeGood'
    BY <1>1, <1>4, <1>5 DEF RunsInv, NoticeGood
  <2> QED
    BY <2>2, <2>3, <2>4
<1>6. /\ ingested' \in Markers /\ \A e \in Docs : ingested'[e] <= modified[e]
      /\ missed' \in SUBSET Docs
  BY <1>1 DEF RunsInv, Typed, Bounded
<1> QED
  BY <1>1, <1>3, <1>4, <1>5, <1>6, QuietStep

LEMMA BreakKeeps ==
  ASSUME RunsInv, NEW r \in {cur, old}, Break(r)
  PROVE  RunsInv'
<1> DEFINE r2 == IF kind = "nvd" THEN [r EXCEPT !.todo = {}, !.peeked = {}]
                 ELSE [r EXCEPT !.failed = TRUE]
<1>1. /\ UNCHANGED <<kind, clock, modified, wanted, row, ingested, missed>>
      /\ kind \notin {"cwe", "clearly"} /\ Becomes(r, r2)
  BY DEF Break
<1>2. r \in RunType /\ MarkersBounded(r)
  BY RunIsTyped
<1>3. \A e \in Docs : Settled(e) => Settled(e)'
  BY <1>1 DEF Settled
<1>4. /\ r2 \in RunType /\ MarkersBounded(r2) /\ r2.next = r.next /\ r2.active = r.active
      /\ kind # "nvd" => r2.failed
  BY <1>2 DEF RunType, MarkersBounded
<1> HIDE DEF r2
<1>5. ASSUME r = cur, cur' = r2 PROVE WalkGood' /\ PeekGood' /\ NoticeGood'
  <2>1. wanted \subseteq Docs
    BY DEF RunsInv, Typed
  <2>2. PeekGood'
    BY <1>1, <1>3, <1>4, <1>5, <2>1 DEF RunsInv, PeekGood
  <2> QED
    BY <1>1, <1>4, <1>5, <2>2 DEF WalkGood, NoticeGood
<1>6. /\ ingested' \in Markers /\ \A e \in Docs : ingested'[e] <= modified[e]
      /\ missed' \in SUBSET Docs
  BY <1>1 DEF RunsInv, Typed, Bounded
<1> QED
  BY <1>1, <1>3, <1>4, <1>5, <1>6, QuietStep

LEMMA CrashKeeps ==
  ASSUME RunsInv, NEW r \in {cur, old}, Crash(r)
  PROVE  RunsInv'
<1>1. /\ UNCHANGED <<kind, clock, modified, wanted, row, ingested, missed>>
      /\ Becomes(r, NoRun)
  BY DEF Crash
<1>2. \A e \in Docs : Settled(e) => Settled(e)'
  BY <1>1 DEF Settled
<1>3. /\ ingested' \in Markers /\ modified' \in Markers
      /\ \A e \in Docs : ingested'[e] <= modified[e]
      /\ missed' \in SUBSET Docs
  BY <1>1 DEF RunsInv, Typed, Bounded
<1>4. MarkersBounded(NoRun)
  BY NoRunBounded DEF RunsInv, Typed
<1>5. cur' = NoRun => WalkGood' /\ PeekGood' /\ NoticeGood'
  BY <1>3, NoRunGood
<1> QED
  BY <1>1, <1>2, <1>3, <1>4, <1>5, NoRunType, QuietStep

-----------------------------------------------------------------------------
(* The end of a run. *)

\* The last notice that a run loaded is the latest that left its date.
LEMMA LastNotice ==
  ASSUME RunsInv, NEW r \in {cur, old}, NEW d \in Docs
  PROVE  LET last == Latest({r.next[e] : e \in Docs})
         IN  /\ last \in Nat /\ last <= clock
             /\ \E e \in Docs : last = r.next[e]
<1> DEFINE S == {r.next[e] : e \in Docs}
<1>1. r \in RunType /\ MarkersBounded(r) /\ clock \in Nat
  BY RunIsTyped DEF RunsInv, Typed
<1>2. S \in SUBSET Nat /\ \A x \in S : x <= clock
  BY <1>1 DEF RunType, MarkersBounded, Markers
<1>3. S # {}
  OBVIOUS
<1> HIDE DEF S
<1>4. Latest(S) \in S
  BY <1>1, <1>2, <1>3, LatestIsMax
<1>5. Latest(S) \in Nat /\ Latest(S) <= clock
  BY <1>2, <1>4
<1>6. \E e \in Docs : Latest(S) = r.next[e]
  BY <1>4 DEF S
<1> QED
  BY <1>5, <1>6 DEF S

LEMMA ContinuationMarkers ==
  ASSUME RunsInv, NEW r \in {cur, old}
  PROVE  Continuation(r) \in Markers /\ \A d \in Docs : Continuation(r)[d] <= clock
<1>1. r \in RunType /\ MarkersBounded(r) /\ clock \in Nat
  BY RunIsTyped DEF RunsInv, Typed
<1>2. \A d \in Docs : None[d] = 0
  BY DEF None
<1>3. CASE kind = "http"
  BY <1>1, <1>2, <1>3, NoRunType DEF Continuation
<1>4. CASE kind = "git"
  BY <1>1, <1>4 DEF Continuation, Markers, RunType, MarkersBounded
<1>5. CASE kind = "quay"
  BY <1>1, <1>5 DEF Continuation, Markers
<1>6. CASE kind \in {"nvd", "cwe"}
  BY <1>1, <1>6 DEF Continuation, RunType, MarkersBounded
<1>7. CASE kind = "clearly"
  <2>1. Continuation(r) = [d \in Docs |-> Latest({r.next[e] : e \in Docs})]
    BY <1>7 DEF Continuation
  <2> QED
    BY <2>1, LastNotice DEF Markers
<1> QED
  BY <1>3, <1>4, <1>5, <1>6, <1>7 DEF RunsInv, Typed

\* What a run that worked has not seen to is asked for by the next one, or is
\* behind for good.
LEMMA WorkedWell ==
  ASSUME RunsInv, cur.active, ~cur.failed, cur.todo = {},
         NEW d \in wanted, modified[d] # 0,
         kind = "http" => modified[d] <= cur.start,
         kind \in {"nvd", "cwe"} => modified[d] = Continuation(cur)[d],
         kind \in {"git", "quay", "clearly"} => modified[d] <= Continuation(cur)[d]
  PROVE  Settled(d) \/ d \in Behind(cur)
<1>1. /\ d \in Docs /\ cur \in RunType
      /\ clock \in Nat /\ cur.start \in Nat
      /\ \A e \in Docs : modified[e] \in Nat /\ cur.seen[e] \in Nat /\ cur.next[e] \in Nat
  BY DEF RunsInv, Typed, RunType, Markers
<1>2. CASE kind = "http"
  BY <1>1, <1>2 DEF RunsInv, WalkGood
<1>3. CASE kind = "git"
  <2>1. modified[d] <= cur.start
    BY <1>1, <1>3 DEF Continuation
  <2> QED
    BY <1>1, <1>3, <2>1 DEF RunsInv, WalkGood
<1>4. CASE kind = "quay"
  <2>1. CASE modified[d] > cur.start
    BY <1>1, <1>4, <2>1 DEF Behind
  <2>2. CASE modified[d] <= cur.start
    BY <1>1, <1>4, <2>2 DEF RunsInv, WalkGood
  <2> QED
    BY <1>1, <2>1, <2>2
<1>5. CASE kind \in {"nvd", "cwe"}
  BY <1>5 DEF RunsInv, PeekGood, Continuation
<1>6. CASE kind = "clearly"
  <2> DEFINE last == Latest({cur.next[e] : e \in Docs})
  <2>1. last \in Nat /\ \E e \in Docs : last = cur.next[e]
    BY <1>1, LastNotice
  <2>2. Continuation(cur)[d] = last
    BY <1>1, <1>6 DEF Continuation
  <2> HIDE DEF last
  <2>3. PICK e \in Docs : last = cur.next[e]
    BY <2>1
  <2>4. modified[d] <= last /\ last # 0
    BY <1>1, <1>6, <2>1, <2>2
  <2>5. last = cur.seen[e] /\ cur.seen[e] = modified[e]
    BY <1>6, <2>3, <2>4 DEF RunsInv, NoticeGood
  <2>6. cur.seen[e] <= cur.start
    BY <1>6 DEF RunsInv, WalkGood
  <2>7. modified[d] <= cur.start
    BY <1>1, <2>1, <2>4, <2>5, <2>6
  <2>8. Settled(d) \/ d \in cur.dropped
    BY <1>6, <2>7 DEF RunsInv, WalkGood
  <2>9. ASSUME d \in cur.dropped PROVE modified[d] < Continuation(cur)[d]
    <3>1. cur.next[d] = 0
      BY <1>6, <2>9 DEF RunsInv, NoticeGood
    <3>2. d # e
      BY <2>3, <2>4, <3>1
    <3>3. modified[d] # modified[e]
      BY <1>1, <3>2 DEF RunsInv, Distinct
    <3> QED
      BY <1>1, <2>1, <2>2, <2>4, <2>5, <3>3
  <2>10. d \in cur.dropped => d \in Behind(cur)
    BY <1>1, <1>6, <2>9 DEF Behind
  <2> QED
    BY <2>8, <2>10
<1> QED
  BY <1>2, <1>3, <1>4, <1>5, <1>6 DEF RunsInv, Typed

LEMMA FinishKeeps ==
  ASSUME RunsInv, NEW r \in {cur, old}, Finish(r)
  PROVE  RunsInv'
<1> USE DEF RunsInv, Typed
<1>1. /\ UNCHANGED <<kind, clock, modified, wanted, ingested>>
      /\ Becomes(r, NoRun) /\ r.active /\ (r.failed \/ r.todo = {})
      /\ row' = IF r.failed THEN [row EXCEPT !.cont = None]
                ELSE [cont |-> Continuation(r), success |-> r.start]
      /\ missed' = missed \cup (IF r.failed THEN {} ELSE Behind(r))
                          \cup (IF r = old THEN wanted ELSE {})
  BY DEF Finish
<1>2. r \in RunType /\ MarkersBounded(r)
  BY RunIsTyped
<1>3. Continuation(r) \in Markers /\ \A d \in Docs : Continuation(r)[d] <= clock
  BY ContinuationMarkers
<1>4. /\ row' \in [cont : Markers, success : Nat]
      /\ row'.success <= clock
      /\ \A d \in Docs : row'.cont[d] <= clock
  <2>1. CASE r.failed
    BY <1>1, <2>1, ResetMarkers DEF Bounded
  <2>2. CASE ~r.failed
    BY <1>1, <1>2, <1>3, <2>2 DEF RunType, MarkersBounded
  <2> QED
    BY <2>1, <2>2
<1>5. Behind(r) \subseteq Docs
  BY DEF Behind
<1>6. cur' \in RunType /\ old' \in RunType /\ MarkersBounded(cur') /\ MarkersBounded(old')
  BY <1>1, NoRunType, NoRunBounded DEF Becomes, Bounded
<1>7. Typed'
  BY <1>1, <1>4, <1>5, <1>6
<1>8. Bounded'
  BY <1>1, <1>4, <1>6 DEF Bounded, MarkersBounded
<1>9. Distinct'
  BY <1>1 DEF Distinct
<1>10. \A d \in Docs : Settled(d) => Settled(d)'
  BY <1>1 DEF Settled
<1>11. WalkGood' /\ PeekGood' /\ NoticeGood'
  BY <1>1, <1>10, CurKept, NoRunGood DEF Becomes
<1>12. RowGood'
  <2>1. CASE r = old
    BY <1>1, <2>1 DEF RowGood, Settled
  <2>2. CASE r.failed
    BY <1>1, <1>10, <2>2, RowKept
  <2>3. CASE r = cur /\ ~r.failed
    <3> SUFFICES ASSUME NEW d \in wanted, ~Due(d)' PROVE Settled(d)'
      BY <1>1 DEF RowGood
    <3>1. /\ d \in Docs /\ modified[d] \in Nat /\ ingested[d] \in Nat
          /\ ingested[d] <= modified[d] /\ cur.start \in Nat
          /\ Continuation(cur)[d] \in Nat
      BY <1>3, <2>3 DEF Bounded, Markers, RunType
    <3>2. CASE modified[d] = 0
      BY <1>1, <3>1, <3>2 DEF Settled
    <3>3. CASE modified[d] # 0
      <4>1. row'.success = cur.start /\ row'.cont = Continuation(cur)
        BY <1>1, <2>3
      <4>2. /\ kind = "http" => modified[d] <= cur.start
            /\ kind \in {"nvd", "cwe"} => modified[d] = Continuation(cur)[d]
            /\ kind \in {"git", "quay", "clearly"} => modified[d] <= Continuation(cur)[d]
        BY <1>1, <3>1, <3>3, <4>1 DEF Due
      <4>3. Settled(d) \/ d \in Behind(cur)
        BY <1>1, <2>3, <3>3, <4>2, WorkedWell
      <4> QED
        BY <1>1, <1>10, <2>3, <3>1, <4>3 DEF Settled
    <3> QED
      BY <3>2, <3>3
  <2> QED
    BY <2>1, <2>2, <2>3
<1> QED
  BY <1>7, <1>8, <1>9, <1>11, <1>12

-----------------------------------------------------------------------------
LEMMA RunsStep == RunsInv /\ [Next]_vars => RunsInv'
<1> SUFFICES ASSUME RunsInv, [Next]_vars PROVE RunsInv'
  OBVIOUS
<1>1. ASSUME NEW d \in Docs, Publish(d) PROVE RunsInv'
  BY <1>1, PublishGood
<1>2. ASSUME NEW w \in SUBSET Docs, Reconfigure(w) \/ Recreate(w) PROVE RunsInv'
  BY <1>2, ReconfigureGood, RecreateGood
<1>3. CASE Reset \/ Reap
  BY <1>3, ResetGood
<1>4. CASE Start
  BY <1>4, StartGood
<1>5. ASSUME NEW r \in {cur, old}, Walk(r) PROVE RunsInv'
  BY <1>5, PeekKeeps, IngestKeeps, FinishKeeps DEF Walk
<1>6. ASSUME NEW r \in {cur, old}, Break(r) \/ Crash(r) PROVE RunsInv'
  BY <1>6, BreakKeeps, CrashKeeps
<1>7. ASSUME NEW r \in {cur, old}, NEW d \in Docs, Report(r, d) \/ Drop(r, d) PROVE RunsInv'
  BY <1>7, ReportKeeps, DropKeeps
<1>8. CASE UNCHANGED vars
  <2>1. UNCHANGED <<kind, clock, modified, wanted, row, ingested, cur, old, missed>>
    BY <1>8 DEF vars
  <2>2. \A d \in Docs : (Settled(d) => Settled(d)') /\ (Due(d) => Due(d)')
    BY <2>1 DEF Settled, Due
  <2>3. Typed' /\ Bounded' /\ Distinct' /\ RowGood'
    BY <2>1, <2>2 DEF RunsInv, Typed, Bounded, MarkersBounded, Distinct, RowGood
  <2>4. WalkGood' /\ PeekGood' /\ NoticeGood'
    BY <2>1, <2>2, CurKept
  <2> QED
    BY <2>3, <2>4 DEF RunsInv
<1> QED
  BY <1>1, <1>2, <1>3, <1>4, <1>5, <1>6, <1>7, <1>8 DEF Next

\* For every set of documents and every kind of importer, the markers of the row, of
\* the source and of the two runs stand in the relations of RunsInv, at every moment of
\* the runs: modules/importer/src/runner.
THEOREM RunsInvariance == Spec => []RunsInv
<1>1. Spec => Init /\ [][Next]_vars
  BY PTL DEF Spec
<1> QED
  BY <1>1, RunsInit, RunsStep, PTL

LEMMA RunsInvMeansNothingMissed == RunsInv => NothingMissed
<1> SUFFICES ASSUME RunsInv, NEW d \in wanted
             PROVE  ingested[d] = modified[d] \/ d \in Asked(row, wanted) \/ d \in missed
  BY DEF NothingMissed
<1>1. Typed /\ d \in Docs
  BY DEF RunsInv, Typed
<1> QED
  BY <1>1, DueAsked DEF RunsInv, RowGood, Settled

\* Between runs, whatever the source has and the filters let through was ingested or
\* is asked for by the next run, after any sequence of publications, errors, crashes,
\* resets and changes of the configuration, except for what the code never retries.
THEOREM NothingIsMissed == Spec => []NothingMissed
BY RunsInvariance, RunsInvMeansNothingMissed, PTL

================================================================================
