----------------------------- MODULE Assignments -----------------------------
(***************************************************************************)
(* What users attach to an SBOM: its groups and its labels.  Each request  *)
(* is a transaction of several statements (READ COMMITTED); its first one  *)
(* writes or locks the row of the SBOM, and the others rely on the lock.   *)
(* The deletion of a group takes no row of an SBOM: it is a writer of      *)
(* assignments of its own, by the cascade of the foreign key.  Waiting for *)
(* a lock is a guard.  The last write of a request and its commit are one  *)
(* step, since the locks that it takes are kept until then.  The hierarchy *)
(* of the groups is in SbomGroups.                                         *)
(***************************************************************************)
EXTENDS Integers

CONSTANTS
  Editors,        \* the clients
  Readers,        \* those of them that GET before they PUT
  SbomIds,        \* a document that is ingested again gets another one
  GroupIds,
  Keys,           \* labels: a key that is set or not
  MaxSbomRevision \* bound: the number of revisions that a row is ever given

ASSUME ReadersAssumption == Readers \subseteq Editors

VARIABLES
  sboms,      \* the table sbom: revision and labels
  groups,     \* the table sbom_group: each id is "unused", "row" or "deleted"
  assigned,   \* the table sbom_group_assignment, as committed
  known,      \* each reader: its SBOM, the ETag and the groups of its last GET
  trans       \* the transaction of each editor

assignVars == <<sboms, groups, assigned, known, trans>>

NoRevision == 0       \* IfMatch::Any
Unborn == [revision |-> 0, labels |-> {}]
Dropped == [revision |-> -1, labels |-> {}]

Rows == {s \in SbomIds : sboms[s].revision > 0}

\* sboms and group are the rows that the transaction has locked, removed the assignments
\* that it has deleted; remove, add, labels and expected are its request.
None == [pc |-> "none", sboms |-> {}, group |-> {}, remove |-> {}, add |-> {}, labels |-> {},
         expected |-> NoRevision, removed |-> {}]

\* Some ids may be gone already.
AssignInit ==
  /\ sboms \in [SbomIds -> {Unborn, Dropped}]
  /\ groups \in [GroupIds -> {"unused", "deleted"}]
  /\ assigned = {}
  /\ known = [e \in Readers |-> [sbom |-> CHOOSE s \in SbomIds : TRUE, tag |-> NoRevision,
                               groups |-> {}, pc |-> "idle"]]
  /\ trans = [e \in Editors |-> None]

\* What requests name; the foreign key refuses the others in the end.
Live == {g \in GroupIds : groups[g] = "row"}

GroupsOf(s, rows) == {g \in GroupIds : <<s, g>> \in rows}

-----------------------------------------------------------------------------
(* Locks *)

\* Mutant of Unlocked: a statement that takes no lock.
NeverLocked(s, e) == s \in SbomIds /\ e \in Editors

\* No other transaction has the row of the SBOM.
Unlocked(s, e) == \A d \in Editors \ {e} : s \notin trans[d].sboms

\* The foreign key: the group is there and nobody is about to delete it.
Referable(g, e) == groups[g] = "row" /\ \A d \in Editors \ {e} : g \notin trans[d].group

\* The transaction rolls back.
Rollback(e) ==
  /\ trans[e].pc # "none"
  /\ trans' = [trans EXCEPT ![e] = None]
  /\ UNCHANGED <<sboms, groups, assigned, known>>

-----------------------------------------------------------------------------
(* Assignments *)

\* The revisions of the SBOMs are changed, which must all be there.  A request that
\* finds fewer rows looks for the reason and fails without a trace.
Bump(e, S, remove, add, expected) ==
  /\ trans[e].pc = "none"
  /\ S \subseteq Rows
  /\ \A s \in S : Unlocked(s, e) /\ expected \in {NoRevision, sboms[s].revision}
  /\ trans' = [trans EXCEPT ![e] =
       [None EXCEPT !.pc = "remove", !.sboms = S, !.remove = remove, !.add = add, !.expected = expected]]
  /\ UNCHANGED <<sboms, groups, assigned, known>>

\* PUT for one SBOM, with If-Match or without
UpdateAssignments(e) ==
  \E s \in SbomIds, add \in SUBSET Live :
    \/ Bump(e, {s}, GroupIds, add, NoRevision)
    \/ /\ e \in Readers
       /\ known[e].sbom = s /\ known[e].pc = "idle" /\ known[e].tag # NoRevision
       /\ Bump(e, {s}, GroupIds, add, known[e].tag)

\* PUT for several: no revision is named.
BulkUpdateAssignments(e) ==
  \E add \in SUBSET Live : Bump(e, SbomIds, GroupIds, add, NoRevision)

\* PATCH: at most one group of each kind, which may be the same
AtMostOne(S) == {{}} \cup {{x} : x \in S}

PatchAssignments(e) ==
  \E S \in (SUBSET SbomIds) \ {{}}, remove, add \in AtMostOne(Live) :
    remove \cup add # {} /\ Bump(e, S, remove, add, NoRevision)

\* DELETE the assignments; a row that another transaction deletes is waited for.
Remove(e) ==
  /\ trans[e].pc = "remove"
  /\ LET rows == {row \in assigned : row[1] \in trans[e].sboms /\ row[2] \in trans[e].remove}
     IN  /\ \A d \in Editors \ {e} : rows \cap trans[d].removed = {}
         /\ trans' = [trans EXCEPT ![e].pc = "insert", ![e].removed = rows]
  /\ UNCHANGED <<sboms, groups, assigned, known>>

\* Mutant of Renew: a row keeps its revision.
KeepRevision(S, labels) ==
  sboms' = [s \in SbomIds |->
    IF s \notin S THEN sboms[s]
    ELSE IF s \in Rows THEN [sboms[s] EXCEPT !.labels = labels[s]]
    ELSE [revision |-> 1, labels |-> labels[s]]]

\* A revision that the row never had (Uuid::now_v7), visible from the commit on
Renew(S, labels) ==
  /\ \A s \in S : sboms[s].revision < MaxSbomRevision
  /\ sboms' = [s \in SbomIds |->
       IF s \in S THEN [revision |-> sboms[s].revision + 1, labels |-> labels[s]] ELSE sboms[s]]

\* INSERT and commit: a patch leaves alone what is there, and does not look for its group.
Insert(e) ==
  /\ trans[e].pc = "insert"
  /\ LET there == assigned \ trans[e].removed
         rows == (trans[e].sboms \X trans[e].add) \ there
     IN  /\ \A row \in rows : Referable(row[2], e)
         /\ assigned' = there \cup rows
  /\ Renew(trans[e].sboms, [s \in SbomIds |-> sboms[s].labels])
  /\ trans' = [trans EXCEPT ![e] = None]
  /\ UNCHANGED <<groups, known>>

\* GET: the SBOM, and in a statement that sees more, its assignments
ReadRevision(e, s) ==
  /\ known[e].pc = "idle" /\ known[e].sbom = s /\ trans[e].pc = "none" /\ s \in Rows
  /\ known' = [known EXCEPT ![e] =
       [sbom |-> s, tag |-> sboms[s].revision, groups |-> {}, pc |-> "reading"]]
  /\ UNCHANGED <<sboms, groups, assigned, trans>>

ReadGroups(e) ==
  /\ known[e].pc = "reading"
  /\ known' = [known EXCEPT ![e].groups = GroupsOf(known[e].sbom, assigned), ![e].pc = "idle"]
  /\ UNCHANGED <<sboms, groups, assigned, trans>>

-----------------------------------------------------------------------------
(* Groups and SBOMs come and go. *)

CreateGroup(g) ==
  /\ groups[g] = "unused"
  /\ groups' = [groups EXCEPT ![g] = "row"]
  /\ UNCHANGED <<sboms, assigned, known, trans>>

\* DELETE of a group locks its row.
DeleteGroup(e, g) ==
  /\ trans[e].pc = "none"
  /\ Referable(g, e)
  /\ trans' = [trans EXCEPT ![e] = [None EXCEPT !.pc = "cascade", !.group = {g}]]
  /\ UNCHANGED <<sboms, groups, assigned, known>>

\* The assignments go with it, as soon as nobody else is deleting them.
Cascade(e) ==
  /\ trans[e].pc = "cascade"
  /\ \A g \in trans[e].group :
       /\ \A d \in Editors, s \in SbomIds : <<s, g>> \notin trans[d].removed
       /\ groups' = [groups EXCEPT ![g] = "deleted"]
       /\ assigned' = {row \in assigned : row[2] # g}
  /\ trans' = [trans EXCEPT ![e] = None]
  /\ UNCHANGED <<sboms, known>>

\* An upload with groups: nobody sees the SBOM before the commit.
Upload(e, s) ==
  /\ trans[e].pc = "none"
  /\ sboms[s] = Unborn
  /\ Renew({s}, [t \in SbomIds |-> {}])
  /\ \E add \in SUBSET Live :
       /\ \A g \in add : Referable(g, e)
       /\ assigned' = assigned \cup ({s} \X add)
  /\ UNCHANGED <<groups, known, trans>>

DeleteSbom(e, s) ==
  /\ trans[e].pc = "none"
  /\ Unlocked(s, e)
  /\ sboms' = [sboms EXCEPT ![s] = IF s \in Rows THEN Dropped ELSE @]
  /\ assigned' = {row \in assigned : row[1] # s}
  /\ UNCHANGED <<groups, known, trans>>

-----------------------------------------------------------------------------
(* Labels *)

\* Update::apply_to
Labelled(labels, remove, add) == (labels \ remove) \cup add

\* PUT: in one statement, and without a new revision
SetLabels(e, s) ==
  /\ trans[e].pc = "none"
  /\ s \in Rows
  /\ Unlocked(s, e)
  /\ \E labels \in SUBSET Keys : sboms' = [sboms EXCEPT ![s].labels = labels]
  /\ UNCHANGED <<groups, assigned, known, trans>>

\* PATCH: SELECT ... FOR UPDATE
SelectLabels(e, s) ==
  /\ trans[e].pc = "none"
  /\ s \in Rows
  /\ Unlocked(s, e)
  /\ \E remove, add \in AtMostOne(Keys) :
       /\ remove \cap add = {} /\ remove \cup add # {}
       /\ trans' = [trans EXCEPT ![e] =
            [None EXCEPT !.pc = "label", !.sboms = {s}, !.remove = remove, !.add = add,
                         !.labels = Labelled(sboms[s].labels, remove, add)]]
  /\ UNCHANGED <<sboms, groups, assigned, known>>

\* The new labels, computed from the row that was read, and a new revision
UpdateLabels(e) ==
  /\ trans[e].pc = "label"
  /\ Renew(trans[e].sboms, [s \in SbomIds |-> trans[e].labels])
  /\ trans' = [trans EXCEPT ![e] = None]
  /\ UNCHANGED <<groups, assigned, known>>

AssignNext ==
  \/ \E g \in GroupIds : CreateGroup(g)
  \/ \E e \in Editors :
       \/ UpdateAssignments(e) \/ BulkUpdateAssignments(e) \/ PatchAssignments(e)
       \/ Remove(e) \/ Insert(e) \/ Rollback(e)
       \/ Cascade(e) \/ UpdateLabels(e)
       \/ \E g \in GroupIds : DeleteGroup(e, g)
       \/ \E s \in SbomIds :
            \/ Upload(e, s) \/ DeleteSbom(e, s) \/ SetLabels(e, s) \/ SelectLabels(e, s)
  \/ \E e \in Readers : ReadGroups(e) \/ \E s \in SbomIds : ReadRevision(e, s)

AssignSpec == AssignInit /\ [][AssignNext]_assignVars

-----------------------------------------------------------------------------
Present(rows) == {row \in rows : groups[row[2]] = "row"}

\* service.rs:644 and 723, label.rs:31: whatever comes between its statements, a request
\* has its whole effect on what is there when it commits, and no other: a PUT leaves just
\* the groups it names, a PATCH adds and removes those it names, and the labels of the SBOM
\* are those before with the update.  Only groups that were deleted meanwhile are not there.
RequestsWhole ==
  [][\A e \in Editors :
       /\ Insert(e) =>
            LET old == {pair \in assigned : pair[1] \in trans[e].sboms /\ pair[2] \notin trans[e].remove}
                new == trans[e].sboms \X trans[e].add
            IN  {pair \in assigned' : pair[1] \in trans[e].sboms} = old \cup Present(new)
       /\ UpdateLabels(e) => \A s \in trans[e].sboms :
            sboms'[s].labels = Labelled(sboms[s].labels, trans[e].remove, trans[e].add)]_assignVars

\* endpoints/mod.rs:281: a PUT with If-Match replaces what the client has seen, although GET
\* reads the revision and the groups in two statements and deleted groups go without a new
\* revision: nothing is there that the client has not seen, and what is missing was deleted.
NoLostAssignment ==
  [][\A e \in Readers :
       Insert(e) /\ trans[e].expected # NoRevision =>
         \A s \in trans[e].sboms :
           /\ GroupsOf(s, assigned) \subseteq known[e].groups
           /\ \A g \in known[e].groups : groups[g] = "row" => <<s, g>> \in assigned]_assignVars
================================================================================
