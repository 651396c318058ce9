---------------------------- MODULE ImporterServer ----------------------------
(***************************************************************************)
(* The importer server, modules/importer/src/server/mod.rs, with the rows  *)
(* of the importer table (modules/importer/src/service.rs) and the clients *)
(* of the REST API that change them.                                       *)
(*                                                                         *)
(* The loop of each replica lists the table, finishes the runs that seem   *)
(* dead (reap) and spawns Hearts for importers that are due, up to a       *)
(* limit.  A Heart acquires its row, runs the import and keeps beating.    *)
(* Every await on the database separates two steps, so the loop works on a *)
(* list that may be out of date.                                           *)
(*                                                                         *)
(* Times are abstract here: a heartbeat is alive or has expired, a row is  *)
(* due or not yet, and of last_run only the order matters.  Heartbeat has  *)
(* the clock.                                                              *)
(***************************************************************************)
EXTENDS Integers, FiniteSets

CONSTANTS
  Importers,        \* names of importers
  Replicas,         \* server processes
  Concurrency,      \* Server.concurrency
  Slots,            \* bound: Hearts one replica has at a time
  Beats,            \* bound: heartbeats of one importer known at a time
  Requests,         \* what clients do: "create", "delete", "force", "enable"
  Checking,         \* the importers of a kind whose runner asks check_canceled
  Timely,           \* whether pumps keep their pace
  Prompt,           \* whether loops do
  DbFaults,         \* whether a statement may fail
  MaxCrashes,       \* bound: crashes of a replica
  Ages,             \* bound: times that are told apart, the older ones count as equal
  NoRow, NoBeat, Never, Nobody

Row ==
  [ disabled : BOOLEAN,
    state : {"Waiting", "Running"},
    due : BOOLEAN,                   \* is_due
    last_run : Nat \cup {Never},
    last_change : Nat \cup {Never},  \* as written by update_start
    heartbeat : Beats \cup {NoBeat} ]

NewRow ==
  [ disabled |-> FALSE, state |-> "Waiting", due |-> TRUE, last_run |-> Never,
    last_change |-> Never, heartbeat |-> NoBeat ]

ASSUME ServerAssumption ==
  /\ IsFiniteSet(Importers) /\ IsFiniteSet(Replicas) /\ IsFiniteSet(Slots)
  /\ Concurrency \in Nat
  /\ Requests \subseteq {"create", "delete", "force", "enable"}
  /\ Checking \subseteq Importers
  /\ Timely \in BOOLEAN /\ Prompt \in BOOLEAN
  /\ DbFaults \in BOOLEAN
  /\ MaxCrashes \in Nat
  /\ Ages \in Nat
  /\ NoRow \notin Row
  /\ NoBeat \notin Beats
  /\ Never \notin Nat
  /\ Nobody \notin Importers

VARIABLES
  rows,       \* the importer table
  alive,      \* per importer, which heartbeats of its row or of a list of it are younger
              \* than 2 * Heart::RATE
  servers,    \* the loop of each replica
  runs,       \* the Hearts, each with its pump and the import it spawned
  crashes,    \* how often a replica crashed
  strayed     \* history: the importers whose latest update_start was followed by an
              \* update_finish of a loop or an import that did not know the heartbeat

vars == <<rows, alive, servers, runs, crashes, strayed>>

Runs == Replicas \X Slots

Host(r) == r[1]

\* pump: "acquire" before the first beat, "hold" after it, "off" when not in use.
\* known is the heartbeat the pump compares with.
\* work: "ready" before update_start, "running" until update_finish.
Run ==
  [ pump : {"off", "acquire", "hold"},
    target : Importers \cup {Nobody},
    known : Beats \cup {NoBeat},
    work : {"none", "ready", "running", "done"},
    start : Nat \cup {Never},
    cancelled : BOOLEAN ]

Off ==
  [ pump |-> "off", target |-> Nobody, known |-> NoBeat, work |-> "none", start |-> Never,
    cancelled |-> FALSE ]

\* pc: "idle" waits for the interval, "loop" works on the list.
\* "exited": the loop returned an error, "down": the process was killed.
Server ==
  [ pc : {"idle", "loop", "exited", "down"},
    list : [Importers -> Row \cup {NoRow}],
    toReap : SUBSET Importers,
    count : Nat ]

Stopped(pc) ==
  [pc |-> pc, list |-> [i \in Importers |-> NoRow], toReap |-> {}, count |-> 0]

TypeOK ==
  /\ rows \in [Importers -> Row \cup {NoRow}]
  /\ alive \in [Importers -> SUBSET Beats]
  /\ servers \in [Replicas -> Server]
  /\ runs \in [Runs -> Run]
  /\ crashes \in Nat
  /\ strayed \subseteq Importers

Init ==
  /\ rows = [i \in Importers |-> NewRow]
  /\ alive = [i \in Importers |-> {}]
  /\ servers = [s \in Replicas |-> Stopped("idle")]
  /\ runs = [r \in Runs |-> Off]
  /\ crashes = 0
  /\ strayed = {}

Exists(i) == rows[i] # NoRow

Live(r) == runs[r].pump # "off"

LiveOn(s) == {r \in Runs : Host(r) = s /\ Live(r)}

\* The heartbeats of i in the lists of replicas S, and in its row
Listed(i, S) ==
  {servers[s].list[i].heartbeat : s \in {t \in S : servers[t].list[i] # NoRow}}

Stored(i) == IF Exists(i) THEN {rows[i].heartbeat} ELSE {}

\* Mutant of IsRunning: the age of the heartbeat is not looked at.
HasHeartbeat(i, x) == x.heartbeat # NoBeat

\* Importer::is_running, for a row or a listed row x of i
IsRunning(i, x) == x.heartbeat \in alive[i]

-----------------------------------------------------------------------------
(* The statements of ImporterService on a row. *)

UpdateStart(x, t) ==
  [x EXCEPT !.state = "Running", !.last_change = t]

\* due says whether start is longer ago than the period.
UpdateFinish(x, start, due) ==
  [x EXCEPT !.state = "Waiting", !.last_run = start, !.due = due]

\* The UPDATE of update_finish names no heartbeat; known is the one its writer knows.
FinishedKnowing(i, known) ==
  strayed' = IF rows[i].heartbeat = known THEN strayed \ {i} ELSE strayed \cup {i}

Reset(x) == [x EXCEPT !.last_run = Never, !.due = TRUE]

-----------------------------------------------------------------------------
(* Clients. *)

Create(i) ==
  /\ "create" \in Requests
  /\ ~Exists(i)
  /\ rows' = [rows EXCEPT ![i] = NewRow]
  /\ UNCHANGED <<alive, servers, runs, crashes, strayed>>

Delete(i) ==
  /\ "delete" \in Requests
  /\ Exists(i)
  /\ rows' = [rows EXCEPT ![i] = NoRow]
  /\ alive' = [alive EXCEPT ![i] = @ \cap Listed(i, Replicas)]
  /\ UNCHANGED <<servers, runs, crashes, strayed>>

\* POST /importer/{name}/force
ForceRun(i) ==
  /\ "force" \in Requests
  /\ Exists(i)
  /\ rows' = [rows EXCEPT ![i] = Reset(@)]
  /\ UNCHANGED <<alive, servers, runs, crashes, strayed>>

\* PUT /importer/{name}/enabled
SetEnabled(i) ==
  /\ "enable" \in Requests
  /\ Exists(i)
  /\ rows' = [rows EXCEPT ![i].disabled = ~@]
  /\ UNCHANGED <<alive, servers, runs, crashes, strayed>>

-----------------------------------------------------------------------------
(* The loop of a replica. *)

\* The list of s is dropped.
EndLoop(s, pc) ==
  /\ servers' = [servers EXCEPT ![s] = Stopped(pc)]
  /\ alive' = [i \in Importers |-> alive[i] \cap (Listed(i, Replicas \ {s}) \cup Stored(i))]

\* When the loop of s ends, its LocalSet is dropped and with it every task.
StopServer(s, pc) ==
  /\ EndLoop(s, pc)
  /\ runs' = [r \in Runs |-> IF Host(r) = s THEN Off ELSE runs[r]]

\* interval.tick, runs.retain, service.list
List(s) ==
  /\ servers[s].pc = "idle"
  /\ servers' = [servers EXCEPT ![s] =
       [ pc |-> "loop",
         list |-> rows,
         toReap |-> {i \in Importers : Exists(i) /\ rows[i].state = "Running"},
         count |-> Cardinality(LiveOn(s)) ]]
  /\ UNCHANGED <<rows, alive, runs, crashes, strayed>>

\* What reap stores for a run nobody finished, from the listed row x: the last_run
\* it had, if any.
UpdateAborted(i, x) ==
  rows' = [rows EXCEPT ![i] =
    IF x.last_run = Never THEN UpdateFinish(@, x.last_change, FALSE)
    ELSE UpdateFinish(@, x.last_run, x.due)]

Reaped(s, i) == servers' = [servers EXCEPT ![s].toReap = @ \ {i}]

\* The importers that reap iterates over are those of the list.
ReapSkip(s, i) ==
  /\ i \in servers[s].toReap
  /\ IsRunning(i, servers[s].list[i])
  /\ Reaped(s, i)
  /\ UNCHANGED <<rows, alive, runs, crashes, strayed>>

\* Mutant of Reap: importers with a beating Heart are finished as well.
ReapAll(s, i) ==
  /\ i \in servers[s].toReap
  /\ Exists(i)
  /\ UpdateAborted(i, servers[s].list[i])
  /\ FinishedKnowing(i, servers[s].list[i].heartbeat)
  /\ Reaped(s, i)
  /\ UNCHANGED <<alive, runs, crashes>>

\* update_finish, on whatever row has the name by now
Reap(s, i) ==
  /\ i \in servers[s].toReap
  /\ ~IsRunning(i, servers[s].list[i])
  /\ Exists(i)
  /\ UpdateAborted(i, servers[s].list[i])
  /\ FinishedKnowing(i, servers[s].list[i].heartbeat)
  /\ Reaped(s, i)
  /\ UNCHANGED <<alive, runs, crashes>>

\* update_finish reports NotFound, and the loop passes it on.
ReapError(s, i) ==
  /\ i \in servers[s].toReap
  /\ ~IsRunning(i, servers[s].list[i])
  /\ DbFaults \/ ~Exists(i)
  /\ StopServer(s, "exited")
  /\ UNCHANGED <<rows, crashes, strayed>>

\* Mutant of Eligible: without is_running
EligibleRunning(s) ==
  {i \in Importers :
     LET x == servers[s].list[i]
     IN  x # NoRow /\ ~x.disabled /\ x.due}

\* The listed importers that pass the filter of run_local.
Eligible(s) ==
  {i \in Importers :
     LET x == servers[s].list[i]
     IN  x # NoRow /\ ~x.disabled /\ x.due /\ ~IsRunning(i, x)}

\* The list is sorted by last_run, None first; the sort is not stable.
SortedBefore(x, y) == x.last_run # Never => y.last_run # Never /\ x.last_run >= y.last_run

\* Mutant of Taken: the list is not sorted.
TakenUnsorted(s, S) ==
  /\ S \subseteq Eligible(s)
  /\ \/ S = Eligible(s) /\ Cardinality(S) <= Concurrency - servers[s].count
     \/ Cardinality(S) = Concurrency - servers[s].count

\* Mutant of Taken: take(concurrency)
TakenUncounted(s, S) ==
  /\ S \subseteq Eligible(s)
  /\ \A i \in S, j \in Eligible(s) \ S : SortedBefore(servers[s].list[i], servers[s].list[j])
  /\ Cardinality(S) <= Concurrency

\* take(concurrency - count)
Taken(s, S) ==
  /\ S \subseteq Eligible(s)
  /\ \A i \in S, j \in Eligible(s) \ S : SortedBefore(servers[s].list[i], servers[s].list[j])
  /\ \/ S = Eligible(s) /\ Cardinality(S) <= Concurrency - servers[s].count
     \/ Cardinality(S) = Concurrency - servers[s].count

FreeSlots(s) == {r \in Runs : Host(r) = s /\ ~Live(r)}

Started(s, i) ==
  [Off EXCEPT !.pump = "acquire", !.target = i, !.known = servers[s].list[i].heartbeat]

\* Heart::new for each importer that is taken
Spawn(s) ==
  /\ servers[s].pc = "loop"
  /\ servers[s].toReap = {}
  /\ \E S \in SUBSET Importers :
       /\ Taken(s, S)
       /\ Cardinality(S) <= Cardinality(FreeSlots(s))
       /\ LET slot == CHOOSE f \in [S -> FreeSlots(s)] : \A i, j \in S : f[i] = f[j] => i = j
          IN  runs' = [r \in Runs |->
                IF \E i \in S : slot[i] = r
                  THEN Started(s, CHOOSE i \in S : slot[i] = r)
                  ELSE runs[r]]
  /\ EndLoop(s, "idle")
  /\ UNCHANGED <<rows, crashes, strayed>>

\* service.list fails, and the loop passes it on.
ListError(s) ==
  /\ DbFaults
  /\ servers[s].pc = "idle"
  /\ StopServer(s, "exited")
  /\ UNCHANGED <<rows, crashes, strayed>>

\* The process is killed.
Crash(s) ==
  /\ crashes < MaxCrashes
  /\ servers[s].pc \in {"idle", "loop"}
  /\ crashes' = crashes + 1
  /\ StopServer(s, "down")
  /\ UNCHANGED <<rows, strayed>>

\* Whoever runs the process starts it again.
Restart(s) ==
  /\ servers[s].pc \in {"exited", "down"}
  /\ servers' = [servers EXCEPT ![s] = Stopped("idle")]
  /\ UNCHANGED <<rows, alive, runs, crashes, strayed>>

-----------------------------------------------------------------------------
(* The pump of a Heart; a write of the heartbeat is one step here. *)

Target(r) == runs[r].target

\* The filter of the UPDATE in Heart::beat
Matches(r) == Exists(Target(r)) /\ rows[Target(r)].heartbeat = runs[r].known

\* now_utc in nanoseconds: a heartbeat nobody knows
FreshBeats(i) ==
  Beats \ ({runs[r].known : r \in {q \in Runs : Target(q) = i}}
             \cup Listed(i, Replicas) \cup Stored(i))

WriteBeat(i, b) ==
  /\ rows' = [rows EXCEPT ![i].heartbeat = b]
  /\ alive' = [alive EXCEPT ![i] = (@ \cap Listed(i, Replicas)) \cup {b}]

Acquire(r) ==
  /\ runs[r].pump = "acquire"
  /\ Matches(r)
  /\ FreshBeats(Target(r)) # {}
  /\ LET b == CHOOSE b \in FreshBeats(Target(r)) : TRUE
     IN  /\ WriteBeat(Target(r), b)
         /\ runs' = [runs EXCEPT ![r].pump = "hold", ![r].known = b, ![r].work = "ready"]
  /\ UNCHANGED <<servers, crashes, strayed>>

\* The row is not as it was listed, or the statement fails and may still have
\* taken effect.
FailedBeat(r) ==
  \/ (DbFaults \/ ~Matches(r)) /\ UNCHANGED <<rows, alive>>
  \/ /\ DbFaults /\ Matches(r) /\ FreshBeats(Target(r)) # {}
     /\ WriteBeat(Target(r), CHOOSE b \in FreshBeats(Target(r)) : TRUE)

AcquireFail(r) ==
  /\ runs[r].pump = "acquire"
  /\ FailedBeat(r)
  /\ runs' = [runs EXCEPT ![r] = Off]
  /\ UNCHANGED <<servers, crashes, strayed>>

\* After each beat the pump ends if the import has finished.
BeatOk(r) ==
  /\ runs[r].pump = "hold"
  /\ Matches(r)
  /\ FreshBeats(Target(r)) # {}
  /\ LET b == CHOOSE b \in FreshBeats(Target(r)) : TRUE
     IN  /\ WriteBeat(Target(r), b)
         /\ runs' = [runs EXCEPT ![r] = IF @.work = "done" THEN Off ELSE [@ EXCEPT !.known = b]]
  /\ UNCHANGED <<servers, crashes, strayed>>

\* Mutant of BeatFail: the token is not cancelled.
BeatFailQuietly(r) ==
  /\ runs[r].pump = "hold"
  /\ FailedBeat(r)
  /\ runs' = [runs EXCEPT ![r] = IF @.work = "done" THEN Off ELSE @]
  /\ UNCHANGED <<servers, crashes, strayed>>

BeatFail(r) ==
  /\ runs[r].pump = "hold"
  /\ FailedBeat(r)
  /\ runs' = [runs EXCEPT ![r] =
       IF @.work = "done" THEN Off ELSE [@ EXCEPT !.cancelled = TRUE]]
  /\ UNCHANGED <<servers, crashes, strayed>>

-----------------------------------------------------------------------------
(* The import. *)

ListedRows == {p \in Replicas \X Importers : servers[p[1]].list[p[2]] # NoRow}

Stamps ==
  ({rows[i].last_run : i \in {j \in Importers : Exists(j)}}
    \cup {rows[i].last_change : i \in {j \in Importers : Exists(j)}}
    \cup {runs[r].start : r \in Runs}
    \cup {servers[p[1]].list[p[2]].last_run : p \in ListedRows}
    \cup {servers[p[1]].list[p[2]].last_change : p \in ListedRows})
  \ {Never}

\* Of the times only the order matters: the latest is 0, and those before it are
\* numbered again whenever a new one is taken.
Renumber(t) ==
  LET n == 1 + Cardinality({u \in Stamps : u < t})
  IN  IF t = Never THEN Never ELSE IF n < Ages THEN n ELSE Ages

RenumberRow(x) ==
  IF x = NoRow THEN NoRow
  ELSE [x EXCEPT !.last_run = Renumber(@), !.last_change = Renumber(@)]

\* update_start, and the time that update_finish will store
WorkStart(r) ==
  /\ runs[r].work = "ready"
  /\ Exists(Target(r))
  /\ rows' = [i \in Importers |->
       IF i = Target(r) THEN UpdateStart(RenumberRow(rows[i]), 0) ELSE RenumberRow(rows[i])]
  /\ runs' = [q \in Runs |->
       IF q = r THEN [runs[q] EXCEPT !.work = "running", !.start = 0]
       ELSE [runs[q] EXCEPT !.start = Renumber(@)]]
  /\ servers' = [s \in Replicas |->
       [servers[s] EXCEPT !.list = [i \in Importers |-> RenumberRow(servers[s].list[i])]]]
  /\ strayed' = strayed \ {Target(r)}
  /\ UNCHANGED <<alive, crashes>>

WorkStartError(r) ==
  /\ runs[r].work = "ready"
  /\ DbFaults \/ ~Exists(Target(r))
  /\ runs' = [runs EXCEPT ![r].work = "done"]
  /\ UNCHANGED <<rows, alive, servers, crashes, strayed>>

\* CheckCancellation::check of server/context.rs.  The runners of the kinds ClearlyDefined
\* and CWE never ask.
WorkCheck(r) ==
  /\ Target(r) \in Checking
  /\ runs[r].work = "running"
  /\ ~runs[r].cancelled
  /\ Exists(Target(r)) => rows[Target(r)].disabled
  /\ runs' = [runs EXCEPT ![r].cancelled = TRUE]
  /\ UNCHANGED <<rows, alive, servers, crashes, strayed>>

\* The check fails: the import counts as cancelled.
WorkCheckError(r) ==
  /\ DbFaults
  /\ Target(r) \in Checking
  /\ runs[r].work = "running"
  /\ ~runs[r].cancelled
  /\ runs' = [runs EXCEPT ![r].cancelled = TRUE]
  /\ UNCHANGED <<rows, alive, servers, crashes, strayed>>

\* run_once ended, in whatever way, and update_finish names no revision.
WorkFinish(r) ==
  /\ runs[r].work = "running"
  /\ \/ /\ Exists(Target(r))
        /\ rows' = [rows EXCEPT ![Target(r)] = UpdateFinish(@, runs[r].start, FALSE)]
        /\ FinishedKnowing(Target(r), runs[r].known)
     \/ (DbFaults \/ ~Exists(Target(r))) /\ UNCHANGED <<rows, strayed>>
  /\ runs' = [runs EXCEPT ![r].work = "done", ![r].start = Never]
  /\ UNCHANGED <<alive, servers, crashes>>

-----------------------------------------------------------------------------
(* Time. *)

\* r has the row: it goes on as long as its beats succeed.
Holds(r) == runs[r].pump = "hold" /\ Matches(r)

\* Heartbeat b gets 2 * RATE old.  When pumps keep their pace, that of a Heart which has
\* the row and did not miss a beat does not; when loops do, none does while a loop works
\* on a list that has it.
Expire(i, b) ==
  /\ b \in alive[i]
  /\ Timely =>
       ~\E r \in Runs : Target(r) = i /\ runs[r].known = b /\ Holds(r) /\ ~runs[r].cancelled
  /\ Prompt => b \notin Listed(i, Replicas)
  /\ alive' = [alive EXCEPT ![i] = @ \ {b}]
  /\ UNCHANGED <<rows, servers, runs, crashes, strayed>>

\* The period of the importer passes, for the row and for lists with the same last_run
\* or an older one.
BecomeDue(i) ==
  /\ Exists(i) /\ ~rows[i].due
  /\ rows' = [rows EXCEPT ![i].due = TRUE]
  /\ servers' = [s \in Replicas |->
       IF servers[s].list[i] # NoRow /\ SortedBefore(servers[s].list[i], rows[i])
         THEN [servers[s] EXCEPT !.list[i].due = TRUE]
         ELSE servers[s]]
  /\ UNCHANGED <<alive, runs, crashes, strayed>>

ClientNext == \E i \in Importers : Create(i) \/ Delete(i) \/ ForceRun(i) \/ SetEnabled(i)

Loop(s) ==
  \/ List(s)
  \/ \E i \in Importers : ReapSkip(s, i) \/ Reap(s, i) \/ ReapError(s, i)
  \/ Spawn(s)

Pump(r) == Acquire(r) \/ AcquireFail(r) \/ BeatOk(r) \/ BeatFail(r)

Begin(r) == WorkStart(r) \/ WorkStartError(r)

Next ==
  \/ ClientNext
  \/ \E s \in Replicas : Loop(s) \/ ListError(s) \/ Crash(s) \/ Restart(s)
  \/ \E r \in Runs : Pump(r) \/ Begin(r)
       \/ WorkCheck(r) \/ WorkCheckError(r) \/ WorkFinish(r)
  \/ \E i \in Importers : BecomeDue(i) \/ \E b \in Beats : Expire(i, b)

Spec == Init /\ [][Next]_vars

\* An import that was asked to stop ends, if its runner asks for that.
WorkStop(r) == Target(r) \in Checking /\ runs[r].cancelled /\ WorkFinish(r)

\* Tasks of the runtime are scheduled, imports of most kinds look for cancellation and
\* heed it, and time passes.  Clients and faults are not fair.
Fairness ==
  /\ \A s \in Replicas : WF_vars(Loop(s)) /\ WF_vars(Restart(s))
  /\ \A r \in Runs :
       WF_vars(Pump(r)) /\ WF_vars(Begin(r)) /\ WF_vars(WorkCheck(r)) /\ WF_vars(WorkStop(r))
  /\ \A i \in Importers : WF_vars(BecomeDue(i)) /\ SF_vars(\E b \in Beats : Expire(i, b))

\* An import may go on forever unless it is stopped.
EndlessSpec == Spec /\ Fairness

\* Imports end.
FairSpec == EndlessSpec /\ \A r \in Runs : WF_vars(WorkFinish(r))

-----------------------------------------------------------------------------
\* A replica never has more Hearts than Server.concurrency: the count taken before
\* the database is asked still bounds take(concurrency - count), which does not
\* underflow.
ConcurrencyLimit ==
  \A s \in Replicas :
    /\ Cardinality(LiveOn(s)) <= Concurrency
    /\ servers[s].count <= Concurrency

Working(r) == runs[r].work = "running"

Active(r) == Working(r) /\ ~runs[r].cancelled

\* An import that is under way, was not asked to stop and has its row is shown as Running.
\* update_finish takes it out of Running by mistake only when its writer did not know the
\* heartbeat: a loop whose list is older than the latest beat, or an import that lost
\* the row.  Both do happen.
StateTruth ==
  \A r \in Runs :
    Active(r) /\ Holds(r) /\ Target(r) \notin strayed => rows[Target(r)].state = "Running"

\* A Heart that does not miss a beat keeps its row until it ends, or the importer is
\* deleted: however old the lists of other loops are, and although a reap from one of them
\* or a forced run may have made the importer due again, nobody else gets to import it.
HeartKeepsRow ==
  [][\A r \in Runs :
       Holds(r) /\ ~runs[r].cancelled
       => \/ Holds(r)'
          \/ runs'[r].pump = "off"
          \/ runs'[r].cancelled
          \/ ~Exists(Target(r))']_vars

\* A statement fails that the state of the row would have let succeed.
Fault ==
  \/ \E s \in Replicas : ListError(s) \/ \E i \in Importers : ReapError(s, i) /\ Exists(i)
  \/ \E r \in Runs :
       \/ (AcquireFail(r) \/ BeatFail(r)) /\ Matches(r)
       \/ (WorkStartError(r) \/ (WorkFinish(r) /\ UNCHANGED rows)) /\ Exists(Target(r))
       \/ WorkCheckError(r)

\* A run nobody is working on any more, because its replica ended or because
\* update_finish failed, does not stay Running once statements succeed again: some loop
\* reaps it.
Abandoned(i) ==
  /\ Exists(i) /\ rows[i].state = "Running"
  /\ ~\E r \in Runs : Target(r) = i /\ Working(r)

AbandonedReaped ==
  <>[][~Fault]_vars => \A i \in Importers : Abandoned(i) ~> ~Abandoned(i)

\* No importer starves: one that is enabled and due gets its run, or is no longer
\* due because its last run was reaped.
Wanted(i) == Exists(i) /\ ~rows[i].disabled /\ rows[i].due

NoStarvation ==
  \A i \in Importers :
    Wanted(i) ~> (~Wanted(i) \/ \E r \in Runs : Target(r) = i /\ Working(r))

\* An import whose importer was deleted or taken over by another Heart is asked to stop,
\* and so is one whose importer was disabled if its runner asks for that, or the importer
\* is wanted again; it would go on forever otherwise.
Unwanted(r) ==
  /\ Active(r)
  /\ \/ ~Matches(r)
     \/ Target(r) \in Checking /\ Exists(Target(r)) /\ rows[Target(r)].disabled

UnwantedCancelled == \A r \in Runs : Unwanted(r) ~> ~Unwanted(r)
================================================================================
