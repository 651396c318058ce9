--------------------------- MODULE ImporterRevisions ---------------------------
(***************************************************************************)
(* The configuration of one importer under concurrent requests: the        *)
(* optimistic concurrency control of ImporterService and the REST API      *)
(* above it.  Every UPDATE gives the row a new revision; requests name the *)
(* revision they expect with If-Match, and patch_configuration names the   *)
(* one it has read.  Each statement is one step, so that the two           *)
(* statements of a patch, and the one with which update finds out why no   *)
(* row was affected, interleave with other requests and with the run of    *)
(* the importer, whose state and progress are columns of the same row.     *)
(***************************************************************************)
EXTENDS Integers

CONSTANTS
  Clients,
  Configs,        \* values of ImporterConfiguration
  MaxRevision,    \* bound: the number of revisions that are ever given out
  NoRow

ASSUME BoundAssumption == MaxRevision \in Nat
ASSUME ConfigsAssumption == Configs # {}
ASSUME NoRowAssumption == NoRow \notin [revision : Nat, config : Configs]

VARIABLES
  row,      \* the row of the importer
  fresh,    \* how many revisions were given out (Uuid::new_v4)
  calls     \* each client: what it knows of the row, and its request

vars == <<row, fresh, calls>>

AnyRevision == 0      \* IfMatch::Any, and expected_revision None

\* tag and seen are the ETag and the configuration of the client's last GET, ifMatch
\* the header of its request; expected is the revision the next statement names, base
\* the configuration a patch has read and config the one it will store.
Call ==
  [pc : {"idle", "patch", "count"}, tag : 0 .. fresh, seen : Configs,
   ifMatch : 0 .. fresh, expected : 0 .. fresh, base : Configs, config : Configs,
   answer : {"none", "ok", "notfound", "collision", "error"}]

TypeOK ==
  /\ fresh \in 0 .. MaxRevision
  /\ row \in [revision : 1 .. fresh, config : Configs] \cup {NoRow}
  /\ calls \in [Clients -> Call]

Unknown == CHOOSE config \in Configs : TRUE

Init ==
  /\ row = NoRow
  /\ fresh = 0
  /\ calls = [c \in Clients |->
       [pc |-> "idle", tag |-> 0, seen |-> Unknown, ifMatch |-> AnyRevision,
        expected |-> AnyRevision, base |-> Unknown, config |-> Unknown, answer |-> "none"]]

-----------------------------------------------------------------------------
\* The filter on the revision
Matches(expected) == row # NoRow /\ expected \in {AnyRevision, row.revision}

\* Mutant of Write: a revision is used twice.
WriteReusingRevision(config) ==
  /\ fresh < MaxRevision
  /\ fresh' = fresh
  /\ row' = [revision |-> fresh + 1, config |-> config]

\* A revision that was never used before
Write(config) ==
  /\ fresh < MaxRevision
  /\ fresh' = fresh + 1
  /\ row' = [revision |-> fresh + 1, config |-> config]

Idle(call, answer) ==
  [call EXCEPT !.pc = "idle", !.expected = AnyRevision, !.base = Unknown, !.config = Unknown,
               !.answer = answer]

\* The UPDATE of service.update affects the row.
UpdateOk(c, call, config) ==
  /\ Matches(call.expected)
  /\ Write(config)
  /\ calls' = [calls EXCEPT ![c] = Idle(call, "ok")]

\* It affects no row.
UpdateNone(c, call) ==
  /\ ~Matches(call.expected)
  /\ calls' = [calls EXCEPT ![c] = [Idle(call, "none") EXCEPT !.pc = "count"]]
  /\ UNCHANGED <<row, fresh>>

\* The second statement of update: was the row not there, or was it modified?
Count(c) ==
  /\ calls[c].pc = "count"
  /\ calls' = [calls EXCEPT ![c] = Idle(@, IF row = NoRow THEN "notfound" ELSE "collision")]
  /\ UNCHANGED <<row, fresh>>

\* A statement after the first fails.
Fail(c) ==
  /\ calls[c].pc # "idle"
  /\ calls' = [calls EXCEPT ![c] = Idle(@, "error")]
  /\ UNCHANGED <<row, fresh>>

-----------------------------------------------------------------------------
(* The requests. *)

\* The primary key refuses a second importer of the name.
Create ==
  /\ row = NoRow
  /\ \E config \in Configs : Write(config)
  /\ UNCHANGED calls

\* GET
Read(c) ==
  /\ calls[c].pc = "idle"
  /\ row # NoRow
  /\ calls' = [calls EXCEPT ![c].tag = row.revision, ![c].seen = row.config, ![c].answer = "none"]
  /\ UNCHANGED <<row, fresh>>

\* A request names the revision of the client's last GET or none.
Requests(c) ==
  {[calls[c] EXCEPT !.ifMatch = m, !.expected = m] : m \in {AnyRevision, calls[c].tag}}

Put(c) ==
  /\ calls[c].pc = "idle"
  /\ \E call \in Requests(c) :
       UpdateNone(c, call) \/ \E config \in Configs : UpdateOk(c, call, config)

\* service.reset: other columns only
ForceRun(c) ==
  /\ calls[c].pc = "idle"
  /\ \E call \in Requests(c) :
       UpdateNone(c, call) \/ (row # NoRow /\ UpdateOk(c, call, row.config))

\* The answer is NoContent whether or not a row was deleted.
Delete(c) ==
  /\ calls[c].pc = "idle"
  /\ \E call \in Requests(c) :
       /\ row' = IF Matches(call.expected) THEN NoRow ELSE row
       /\ calls' = [calls EXCEPT ![c] = Idle(call, "ok")]
  /\ UNCHANGED fresh

\* patch_configuration, for PATCH and for enabled: read the row and compute the
\* new configuration from it.
PatchRead(c) ==
  /\ calls[c].pc = "idle"
  /\ \E call \in Requests(c) :
       \/ /\ Matches(call.expected)
          /\ \E config \in Configs :
               calls' = [calls EXCEPT ![c] =
                 [call EXCEPT !.pc = "patch", !.expected = row.revision, !.base = row.config,
                              !.config = config, !.answer = "none"]]
       \/ /\ ~Matches(call.expected)
          /\ calls' = [calls EXCEPT ![c] =
               Idle(call, IF row = NoRow THEN "notfound" ELSE "collision")]
  /\ UNCHANGED <<row, fresh>>

\* Mutant of PatchWrite: the update names no revision.
PatchWriteAny(c) ==
  /\ calls[c].pc = "patch"
  /\ LET call == [calls[c] EXCEPT !.expected = AnyRevision]
     IN  UpdateOk(c, call, call.config) \/ UpdateNone(c, call)

\* patch_configuration: store it if the row still has the revision it was read with.
PatchWrite(c) ==
  /\ calls[c].pc = "patch"
  /\ UpdateOk(c, calls[c], calls[c].config) \/ UpdateNone(c, calls[c])

\* update_start, update_finish, update_progress and set_progress_message of the run,
\* which name no revision and leave the configuration alone
RunUpdate ==
  /\ row # NoRow
  /\ Write(row.config)
  /\ UNCHANGED calls

Next ==
  \/ Create
  \/ RunUpdate
  \/ \E c \in Clients :
       \/ Read(c) \/ Put(c) \/ ForceRun(c) \/ Delete(c)
       \/ PatchRead(c) \/ PatchWrite(c)
       \/ Count(c) \/ Fail(c)

Spec == Init /\ [][Next]_vars

-----------------------------------------------------------------------------
\* No request undoes what it does not know of.  What a patch stores was computed from
\* the configuration it replaces, whatever came between its two statements; a PUT or
\* DELETE with If-Match replaces what the client has seen, not a later configuration
\* and not that of another importer created with the same name.
NoLostUpdate ==
  [][\A c \in Clients :
       /\ PatchWrite(c) /\ row' # row => row.config = calls[c].base
       /\ (Put(c) \/ Delete(c)) /\ calls'[c].ifMatch # AnyRevision /\ row' # row
            => row.config = calls[c].seen]_vars

\* endpoints.rs:121, 159, 198 and 236: a request with If-Match that is answered 412 named a
\* revision that the row does not have, although the row is looked at a second time to find
\* out, and never has again.  (One without If-Match may be answered 412 as well.)
CollisionJustified ==
  \A c \in Clients :
    calls[c].answer = "collision" /\ calls[c].ifMatch # AnyRevision => ~Matches(calls[c].ifMatch)
================================================================================
