------------------------------- MODULE Heartbeat -------------------------------
(***************************************************************************)
(* How replicas of the importer server agree on who runs an importer:      *)
(* Heart of modules/importer/src/runner/common/heartbeat.rs, on one row of *)
(* the importer table.                                                     *)
(*                                                                         *)
(* A replica lists the row, finds that nobody is running the importer and  *)
(* spawns a Heart.  Its pump writes the current time into the heartbeat    *)
(* column, provided the column still holds what was listed; if that works  *)
(* it spawns the import and goes on writing the time every Rate, each      *)
(* write compared with the previous one.  A failed write cancels the token *)
(* of the import, which asks it to stop; nothing makes it stop.            *)
(*                                                                         *)
(* A write is two steps: the time is taken in one (BeatBegin) and the      *)
(* statement takes effect in a later one.  What the loop of a replica does *)
(* besides is in ImporterServer.                                           *)
(***************************************************************************)
EXTENDS Integers, FiniteSets

CONSTANTS
  Runs,             \* Hearts, of every replica
  Rate,             \* Heart::RATE in ticks
  MaxDelay,         \* how late a write may be, in ticks
  DbFaults,         \* whether a statement may fail
  BeatIds,          \* tell apart the writes of one tick
  NoRow,            \* the importer does not exist
  NoBeat,           \* heartbeat IS NULL
  Nobody,           \* no Heart
  MaxTime,          \* bound of the clock
  MaxIncarnation    \* bound: creates of the importer

\* A heartbeat is a time in nanoseconds.  The clock of the model is coarser, so
\* a heartbeat also carries an id.
Beat == [at : Nat, id : BeatIds]

\* incarnation and writer are history: which create made the row, and which
\* Heart wrote the heartbeat.
Row ==
  [ incarnation : Nat,
    heartbeat : Beat \cup {NoBeat},
    writer : Runs \cup {Nobody} ]

ASSUME HeartbeatAssumption ==
  /\ Rate \in Nat \ {0}
  /\ MaxDelay \in Nat
  /\ DbFaults \in BOOLEAN
  /\ MaxTime \in Nat
  /\ MaxIncarnation \in Nat
  /\ NoBeat \notin Beat
  /\ NoRow \notin Row
  /\ Nobody \notin Runs

VARIABLES
  now,        \* the wall clock, which all replicas are assumed to agree on
  row,        \* the row of the importer, or NoRow
  created,    \* history: how often the importer was created
  runs        \* the Hearts

vars == <<now, row, created, runs>>

\* pump: "listed" from list() to the filter of run_local, "acquire" until the
\* first write, "hold" after it, "off" when not in use.
\* known is the heartbeat the pump compares with, flight the one being written.
Run ==
  [ pump : {"off", "listed", "acquire", "hold"},
    known : Beat \cup {NoBeat},
    flight : Beat \cup {NoBeat},
    working : BOOLEAN,           \* the spawned import has not finished
    cancelled : BOOLEAN,         \* the token
    missed : BOOLEAN,            \* history: a beat has failed
    incarnation : Nat ]          \* history: the row that was acquired

Off ==
  [ pump |-> "off", known |-> NoBeat, flight |-> NoBeat, working |-> FALSE,
    cancelled |-> FALSE, missed |-> FALSE, incarnation |-> 0 ]

TypeOK ==
  /\ now \in Nat
  /\ row = NoRow \/ row \in Row
  /\ created \in Nat
  /\ runs \in [Runs -> Run]

Init ==
  /\ now = 0
  /\ row = NoRow
  /\ created = 0
  /\ runs = [r \in Runs |-> Off]

Exists == row # NoRow

\* Mutant of IsRunning: one missed beat is enough.
IsBeating(h) == h # NoBeat /\ now - h.at < Rate

\* Importer::is_running, for the listed heartbeat h
IsRunning(h) == h # NoBeat /\ now - h.at < 2 * Rate

-----------------------------------------------------------------------------
(* The row: ImporterService::create and delete. *)

Create ==
  /\ ~Exists
  /\ created < MaxIncarnation
  /\ created' = created + 1
  /\ row' = [incarnation |-> created + 1, heartbeat |-> NoBeat, writer |-> Nobody]
  /\ UNCHANGED <<now, runs>>

Delete ==
  /\ Exists
  /\ row' = NoRow
  /\ UNCHANGED <<now, created, runs>>

-----------------------------------------------------------------------------
(* The loop of a replica, as far as the Heart needs it. *)

List(r) ==
  /\ Exists
  /\ runs[r].pump = "off"
  /\ runs' = [runs EXCEPT ![r].pump = "listed", ![r].known = row.heartbeat]
  /\ UNCHANGED <<now, row, created>>

\* Mutant of Spawn: the filter ignores is_running.
SpawnAnyway(r) ==
  /\ runs[r].pump = "listed"
  /\ runs' = [runs EXCEPT ![r].pump = "acquire"]
  /\ UNCHANGED <<now, row, created>>

\* Heart::new, for an importer that passes the filter of run_local
Spawn(r) ==
  /\ runs[r].pump = "listed"
  /\ ~IsRunning(runs[r].known)
  /\ runs' = [runs EXCEPT ![r].pump = "acquire"]
  /\ UNCHANGED <<now, row, created>>

\* The importer is not taken, or the replica stops: its LocalSet is dropped, and
\* with it the pump and the import.
Stop(r) ==
  /\ runs[r].pump # "off"
  /\ runs' = [runs EXCEPT ![r] = Off]
  /\ UNCHANGED <<now, row, created>>

-----------------------------------------------------------------------------
(* The pump. *)

BeatsInUse ==
  {runs[r].known : r \in Runs} \cup {runs[r].flight : r \in Runs}
    \cup (IF Exists THEN {row.heartbeat} ELSE {})

\* now_utc in nanoseconds: two writes never take the same stamp.
FreshIds == {n \in BeatIds : [at |-> now, id |-> n] \notin BeatsInUse}

FreshBeat == [at |-> now, id |-> CHOOSE n \in FreshIds : TRUE]

\* The interval ticks at once, then every Rate, and sooner after a late tick.
BeatBegin(r) ==
  /\ runs[r].pump \in {"acquire", "hold"}
  /\ runs[r].flight = NoBeat
  /\ FreshIds # {}
  /\ runs' = [runs EXCEPT ![r].flight = FreshBeat]
  /\ UNCHANGED <<now, row, created>>

\* Mutant of Matches: the filter is left out.
MatchesName(r) == Exists

\* The filter of the UPDATE in Heart::beat
Matches(r) == Exists /\ row.heartbeat = runs[r].known

WriteBeat(r) == row' = [row EXCEPT !.heartbeat = runs[r].flight, !.writer = r]

\* What a failed statement leaves behind: nothing, or all of its effect when
\* only the answer was lost.
FailedBeat(r) ==
  \/ (DbFaults \/ ~Matches(r)) /\ UNCHANGED row
  \/ DbFaults /\ Matches(r) /\ WriteBeat(r)

\* The first write acquires the row and spawns the import.
Acquire(r) ==
  /\ runs[r].pump = "acquire"
  /\ runs[r].flight # NoBeat
  /\ Matches(r)
  /\ WriteBeat(r)
  /\ runs' = [runs EXCEPT ![r] =
       [Off EXCEPT !.pump = "hold", !.known = runs[r].flight, !.working = TRUE,
                   !.incarnation = row.incarnation]]
  /\ UNCHANGED <<now, created>>

AcquireFail(r) ==
  /\ runs[r].pump = "acquire"
  /\ runs[r].flight # NoBeat
  /\ FailedBeat(r)
  /\ runs' = [runs EXCEPT ![r] = Off]
  /\ UNCHANGED <<now, created>>

\* After each write the pump ends if the import has finished.
BeatOk(r) ==
  /\ runs[r].pump = "hold"
  /\ runs[r].flight # NoBeat
  /\ Matches(r)
  /\ WriteBeat(r)
  /\ runs' = [runs EXCEPT ![r] =
       IF runs[r].working
         THEN [@ EXCEPT !.known = runs[r].flight, !.flight = NoBeat]
         ELSE Off]
  /\ UNCHANGED <<now, created>>

\* The pump goes on, with the heartbeat it knows.
BeatFail(r) ==
  /\ runs[r].pump = "hold"
  /\ runs[r].flight # NoBeat
  /\ FailedBeat(r)
  /\ runs' = [runs EXCEPT ![r] =
       IF runs[r].working
         THEN [@ EXCEPT !.flight = NoBeat, !.cancelled = TRUE, !.missed = TRUE]
         ELSE Off]
  /\ UNCHANGED <<now, created>>

-----------------------------------------------------------------------------
(* The import: it ends, asked to or not, and may find the row gone. *)

WorkDone(r) ==
  /\ runs[r].working
  /\ runs' = [runs EXCEPT ![r].working = FALSE]
  /\ UNCHANGED <<now, row, created>>

\* CheckCancellation::check of server/context.rs; the importer is deleted or
\* disabled, or the check fails
WorkCancelled(r) ==
  /\ runs[r].working
  /\ ~runs[r].cancelled
  /\ runs' = [runs EXCEPT ![r].cancelled = TRUE]
  /\ UNCHANGED <<now, row, created>>

-----------------------------------------------------------------------------
(* Time. *)

\* A pump is at most MaxDelay late: the first write takes effect within MaxDelay
\* of its stamp, and each later one within Rate + MaxDelay of the stamp before it,
\* as long as none has failed.
OnTime(r) ==
  /\ runs[r].pump = "acquire" /\ runs[r].flight # NoBeat =>
       now < runs[r].flight.at + MaxDelay
  /\ runs[r].pump = "hold" /\ ~runs[r].missed =>
       now < runs[r].known.at + Rate + MaxDelay

Tick ==
  /\ now < MaxTime
  /\ \A r \in Runs : OnTime(r)
  /\ now' = now + 1
  /\ UNCHANGED <<row, created, runs>>

Next ==
  \/ Create
  \/ Delete
  \/ Tick
  \/ \E r \in Runs :
       \/ List(r) \/ Spawn(r) \/ Stop(r)
       \/ BeatBegin(r) \/ Acquire(r) \/ AcquireFail(r) \/ BeatOk(r) \/ BeatFail(r)
       \/ WorkDone(r) \/ WorkCancelled(r)

Spec == Init /\ [][Next]_vars

-----------------------------------------------------------------------------
Holds(r) == runs[r].pump = "hold" /\ Matches(r)

\* The compare-and-swap of Heart::beat lets at most one pump go on, however
\* late the writes are and whichever of them fail.
OneHolder == \A q, r \in Runs : Holds(q) /\ Holds(r) => q = r

\* The heartbeat is a lease: it changes hands only when the row is new or has
\* gone without a beat for 2 * Rate, however late the writes are.
Leased == Exists /\ row.heartbeat # NoBeat

Lease == INSTANCE HeartbeatLease
  WITH holder <- IF Leased THEN row.writer ELSE Nobody,
       renewed <- IF Leased THEN row.heartbeat.at ELSE 0

ImplementsLease == Lease!Spec

Active(r) == runs[r].working /\ ~runs[r].cancelled

\* Two imports for the same row of the table are never under way without one of
\* them having been asked to stop.
OneActiveRun ==
  \A q, r \in Runs :
    Active(q) /\ Active(r) /\ runs[q].incarnation = runs[r].incarnation => q = r
================================================================================
