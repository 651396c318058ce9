------------------------------ MODULE SbomGroups ------------------------------
(***************************************************************************)
(* The hierarchy of SBOM groups under concurrent requests.  Each statement *)
(* of SbomGroupService is one step; transactions are READ COMMITTED, so    *)
(* what a statement has read may have changed by the time of the next one. *)
(* A write and its commit are one step: the row locks that it takes, on    *)
(* the row and on the parent the foreign key refers to, make it valid      *)
(* until the commit.  Names, descriptions, labels and revisions of groups  *)
(* are left out: a request that they refuse fails.                         *)
(***************************************************************************)
EXTENDS Integers

CONSTANTS
  Groups,         \* the ids that are ever given out
  Clients,
  SerialMoves,    \* TRUE: updates of a parent do not overlap
  AnySpelling,    \* TRUE: the id of a parent may be spelled in each way Uuid::parse_str takes
  Root,           \* parent NULL
  Absent          \* no such row

ASSUME SwitchAssumption == SerialMoves \in BOOLEAN /\ AnySpelling \in BOOLEAN
ASSUME RootAssumption == Root \notin Groups /\ Absent \notin Groups /\ Root # Absent

VARIABLES
  parent,    \* the table sbom_group
  used,      \* ids that were given out (Uuid::now_v7)
  calls      \* the request of each client

vars == <<parent, used, calls>>

Existing == {g \in Groups : parent[g] # Absent}

Idle == [pc |-> "idle", group |-> Root, parent |-> Root]

Move(g, p) == [pc |-> "move", group |-> g, parent |-> p]

Deletion(g) == [pc |-> "delete", group |-> g, parent |-> Root]

Call == {Move(g, p) : g, p \in used} \cup {Deletion(g) : g \in used} \cup {Idle}

\* The foreign key on parent is part of it.
TypeOK ==
  /\ parent \in [Groups -> Groups \cup {Root, Absent}]
  /\ used \subseteq Groups
  /\ Existing \subseteq used
  /\ \A g \in Existing : parent[g] \in Existing \cup {Root}
  /\ calls \in [Clients -> Call]

Init ==
  /\ parent = [g \in Groups |-> Absent]
  /\ used = {}
  /\ calls = [c \in Clients |-> Idle]

-----------------------------------------------------------------------------
Children(g) == {h \in Existing : parent[h] = g}

Closed(S) == \A g \in S : parent[g] \in S \cup {Root}

\* The recursive query of validate_no_cycle: p and all groups above it
ParentChain(p) ==
  {g \in Existing : p \in Existing /\ \A S \in SUBSET Existing : p \in S /\ Closed(S) => g \in S}

\* The INSERT of create
Create(g, p) ==
  /\ g \notin used
  /\ p \in Existing \cup {Root}
  /\ parent' = [parent EXCEPT ![g] = p]
  /\ used' = used \cup {g}
  /\ UNCHANGED calls

\* update, as far as validate_no_cycle; a group that is moved to the root needs none.
BeginMove(c, g, p) ==
  /\ calls[c] = Idle
  /\ SerialMoves => \A d \in Clients : calls[d].pc # "move"
  /\ calls' = [calls EXCEPT ![c] = Move(g, p)]
  /\ UNCHANGED <<parent, used>>

\* The query has no protection against a cycle, where it goes on forever.
Ends(p) == p \in Existing => \E h \in ParentChain(p) : parent[h] = Root

\* Mutant of MoveCheck: only the parent itself is compared.
MoveCheckParent(c, g, p) ==
  /\ p # g /\ Ends(p)
  /\ BeginMove(c, g, p)

\* Its comparisons are of text: they find nothing if p is spelled in another way.
MoveCheck(c, g, p) ==
  /\ ~AnySpelling => p # g /\ g \notin ParentChain(p) /\ Ends(p)
  /\ BeginMove(c, g, p)

\* The UPDATE of update_columns, if the group and the new parent are there.
MoveWrite(c) ==
  /\ calls[c].pc = "move"
  /\ calls[c].group \in Existing
  /\ calls[c].parent \in Existing
  /\ parent' = [parent EXCEPT ![calls[c].group] = calls[c].parent]
  /\ calls' = [calls EXCEPT ![c] = Idle]
  /\ UNCHANGED used

MoveToRoot(c, g) ==
  /\ calls[c] = Idle
  /\ g \in Existing
  /\ parent' = [parent EXCEPT ![g] = Root]
  /\ UNCHANGED <<used, calls>>

\* delete, as far as the check for child groups
DeleteCheck(c, g) ==
  /\ calls[c] = Idle
  /\ Children(g) = {}
  /\ calls' = [calls EXCEPT ![c] = Deletion(g)]
  /\ UNCHANGED <<parent, used>>

\* Mutant of DeleteWrite: the foreign key does not restrict it.
DeleteWriteUnrestricted(c) ==
  /\ calls[c].pc = "delete"
  /\ parent' = [parent EXCEPT ![calls[c].group] = Absent]
  /\ calls' = [calls EXCEPT ![c] = Idle]
  /\ UNCHANGED used

\* The DELETE; the foreign key restricts it to groups without children.
DeleteWrite(c) ==
  /\ calls[c].pc = "delete"
  /\ Children(calls[c].group) = {}
  /\ parent' = [parent EXCEPT ![calls[c].group] = Absent]
  /\ calls' = [calls EXCEPT ![c] = Idle]
  /\ UNCHANGED used

\* The write affects no row or is refused.
Fail(c) ==
  /\ calls[c] # Idle
  /\ calls' = [calls EXCEPT ![c] = Idle]
  /\ UNCHANGED <<parent, used>>

\* Clients only name ids they got from the service.
Next ==
  \/ \E g \in Groups, p \in Groups \cup {Root} : Create(g, p)
  \/ \E c \in Clients :
       \/ \E g, p \in used : MoveCheck(c, g, p)
       \/ \E g \in used : MoveToRoot(c, g) \/ DeleteCheck(c, g)
       \/ MoveWrite(c) \/ DeleteWrite(c) \/ Fail(c)

Spec == Init /\ [][Next]_vars

-----------------------------------------------------------------------------
\* docs/adrs/00013-sbom-groups.md: no update of a parent makes a cycle, which would no
\* longer be reachable from the root: every set of groups has one whose parent is
\* outside of it.
Acyclic == \A S \in SUBSET Existing : S # {} => \E g \in S : parent[g] \notin S
================================================================================
