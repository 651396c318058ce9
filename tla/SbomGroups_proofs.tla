--------------------------- MODULE SbomGroups_proofs ---------------------------
(***************************************************************************)
(* If updates of a parent do not overlap and clients spell ids as the      *)
(* service does, the hierarchy of SBOM groups never has a cycle, whatever  *)
(* creates, deletes and moves to the root come between the check and the   *)
(* update.                                                                 *)
(***************************************************************************)
EXTENDS SbomGroups, TLAPS

\* What the check has found out still holds when the update comes: no other request
\* adds a group to the chain above the new parent.
MoveSafe ==
  \A c \in Clients, g, p \in used : calls[c] = Move(g, p) => g # p /\ g \notin ParentChain(p)

OneMove == \A c, d \in Clients : calls[c].pc = "move" /\ calls[d].pc = "move" => c = d

IInv == TypeOK /\ Acyclic /\ MoveSafe /\ OneMove

LEMMA TypeInit == Init => TypeOK
BY RootAssumption DEF Init, TypeOK, Call, Existing, Idle

LEMMA TypeNext == TypeOK /\ [Next]_vars => TypeOK'
<1> SUFFICES ASSUME TypeOK, [Next]_vars PROVE TypeOK'
  OBVIOUS
<1> USE RootAssumption
<1>1. ASSUME NEW g \in Groups, NEW p \in Groups \cup {Root}, Create(g, p) PROVE TypeOK'
  <2>1. /\ parent' \in [Groups -> Groups \cup {Root, Absent}]
        /\ \A h \in Groups : parent'[h] = IF h = g THEN p ELSE parent[h]
    BY <1>1 DEF TypeOK, Create
  <2>2. Existing' = Existing \cup {g}
    BY <1>1, <2>1 DEF Existing, TypeOK
  <2>3. Call \subseteq Call'
    BY <1>1 DEF Create, Call, TypeOK, Idle
  <2> QED
    BY <1>1, <2>1, <2>2, <2>3 DEF TypeOK, Create
<1>2. ASSUME NEW c \in Clients, NEW g \in used, NEW p \in used, MoveCheck(c, g, p) PROVE TypeOK'
  <2>1. BeginMove(c, g, p)
    BY <1>2 DEF MoveCheck
  <2>2. Move(g, p) \in Call
    BY DEF Call
  <2> QED
    BY <2>1, <2>2 DEF TypeOK, BeginMove, Existing, Call
<1>3. ASSUME NEW c \in Clients, MoveWrite(c) PROVE TypeOK'
  <2> DEFINE g == calls[c].group
             p == calls[c].parent
  <2>1. g \in Existing /\ p \in Existing /\ parent' = [parent EXCEPT ![g] = p]
    BY <1>3 DEF MoveWrite
  <2> HIDE DEF g, p
  <2>2. \A h \in Groups : parent'[h] = IF h = g THEN p ELSE parent[h]
    BY <2>1 DEF TypeOK
  <2>3. Existing' = Existing
    BY <2>1, <2>2 DEF Existing, TypeOK
  <2>4. parent' \in [Groups -> Groups \cup {Root, Absent}]
    BY <2>1 DEF TypeOK, Existing
  <2>5. used' = used /\ calls' \in [Clients -> Call']
    BY <1>3 DEF MoveWrite, TypeOK, Call
  <2> QED
    BY <2>1, <2>2, <2>3, <2>4, <2>5 DEF TypeOK
<1>4. ASSUME NEW c \in Clients, NEW g \in used, MoveToRoot(c, g) PROVE TypeOK'
  <2>1. \A h \in Groups : parent'[h] = IF h = g THEN Root ELSE parent[h]
    BY <1>4 DEF MoveToRoot, TypeOK
  <2>2. Existing' = Existing
    BY <1>4, <2>1 DEF MoveToRoot, Existing, TypeOK
  <2> QED
    BY <1>4, <2>1, <2>2 DEF MoveToRoot, TypeOK, Call
<1>5. ASSUME NEW c \in Clients, NEW g \in used, DeleteCheck(c, g) PROVE TypeOK'
  <2>1. Deletion(g) \in Call
    BY DEF Call
  <2> QED
    BY <1>5, <2>1 DEF TypeOK, DeleteCheck, Existing, Call
<1>6. ASSUME NEW c \in Clients, DeleteWrite(c) PROVE TypeOK'
  <2> DEFINE g == calls[c].group
  <2>1. parent' = [parent EXCEPT ![g] = Absent] /\ Children(g) = {}
    BY <1>6 DEF DeleteWrite
  <2> HIDE DEF g
  <2>2. \A h \in Groups : parent'[h] = IF h = g THEN Absent ELSE parent[h]
    BY <2>1 DEF TypeOK
  <2>3. Existing' = Existing \ {g}
    BY <2>2 DEF Existing
  <2>4. \A h \in Existing' : parent'[h] \in Existing' \cup {Root}
    BY <2>1, <2>2, <2>3 DEF Existing, TypeOK, Children
  <2>5. parent' \in [Groups -> Groups \cup {Root, Absent}]
    BY <2>1 DEF TypeOK
  <2>6. used' = used /\ calls' \in [Clients -> Call']
    BY <1>6 DEF DeleteWrite, TypeOK, Call
  <2> QED
    BY <2>3, <2>4, <2>5, <2>6 DEF TypeOK
<1>7. ASSUME NEW c \in Clients, Fail(c) PROVE TypeOK'
  BY <1>7 DEF TypeOK, Fail, Existing, Call
<1>8. CASE UNCHANGED vars
  BY <1>8 DEF TypeOK, vars, Existing, Call
<1> QED
  BY <1>1, <1>2, <1>3, <1>4, <1>5, <1>6, <1>7, <1>8 DEF Next

-----------------------------------------------------------------------------
\* What a step other than a move does to the table.
Created(g, p) ==
  g \in Groups \ used /\ p \in Existing \cup {Root} /\ parent' = [parent EXCEPT ![g] = p]

MovedToRoot(g) == g \in Existing /\ parent' = [parent EXCEPT ![g] = Root]

Deleted(g) == Children(g) = {} /\ parent' = [parent EXCEPT ![g] = Absent]

\* A set that was closed and is still one, or is one without the deleted group: the
\* chain above a group that was used before gets no new members.
LEMMA ChainShrinks ==
  ASSUME TypeOK, NEW p \in used,
         \/ UNCHANGED parent
         \/ \E g, q : Created(g, q)
         \/ \E g : MovedToRoot(g) \/ Deleted(g)
  PROVE  ParentChain(p)' \subseteq ParentChain(p)
<1> USE RootAssumption
<1>0. Closed(Existing)
  BY DEF TypeOK, Closed
<1>1. ASSUME NEW S \in SUBSET Existing, Closed(S), p \in S, p \in Existing'
      PROVE  \E T \in SUBSET Existing' : T \subseteq S /\ p \in T /\ (Closed(T))'
  <2>1. CASE UNCHANGED parent
    <3>1. S \in SUBSET Existing' /\ (Closed(S))'
      BY <1>1, <2>1 DEF Existing, Closed
    <3> QED
      BY <1>1, <3>1
  <2>2. CASE \E g, q : Created(g, q)
    <3>1. PICK g, q : Created(g, q)
      BY <2>2
    <3>2. \A h \in Existing : h # g /\ parent'[h] = parent[h]
      BY <3>1 DEF Created, TypeOK, Existing
    <3>3. S \in SUBSET Existing'
      BY <3>2 DEF Existing
    <3>4. (Closed(S))'
      BY <1>1, <3>2 DEF Closed
    <3> QED
      BY <1>1, <3>3, <3>4
  <2>3. CASE \E g : MovedToRoot(g)
    <3>1. PICK g : MovedToRoot(g)
      BY <2>3
    <3>2. \A h \in Existing : parent'[h] = IF h = g THEN Root ELSE parent[h]
      BY <3>1 DEF MovedToRoot, TypeOK, Existing
    <3>3. S \in SUBSET Existing'
      BY <3>2 DEF Existing
    <3>4. (Closed(S))'
      BY <1>1, <3>2 DEF Closed
    <3> QED
      BY <1>1, <3>3, <3>4
  <2>4. CASE \E g : Deleted(g)
    <3>1. PICK g : Deleted(g)
      BY <2>4
    <3>2. \A h \in Groups : parent'[h] = IF h = g THEN Absent ELSE parent[h]
      BY <3>1 DEF Deleted, TypeOK
    <3>3. \A h \in Existing : parent[h] # g
      BY <3>1 DEF Deleted, Children
    <3> DEFINE T == S \ {g}
    <3>4. T \in SUBSET Existing' /\ p \in T
      BY <1>1, <3>2 DEF Existing
    <3>5. (Closed(T))'
      BY <1>1, <3>2, <3>3 DEF Closed, Existing
    <3> QED
      BY <3>4, <3>5
  <2> QED
    BY <2>1, <2>2, <2>3, <2>4
<1>2. p \in Existing' => p \in Existing
  BY DEF Existing, Created, MovedToRoot, Deleted, TypeOK
<1> SUFFICES ASSUME NEW h \in ParentChain(p)' PROVE h \in ParentChain(p)
  OBVIOUS
<1>3. p \in Existing' /\ p \in Existing
  BY <1>2 DEF ParentChain
<1>4. ASSUME NEW S \in SUBSET Existing, p \in S, Closed(S) PROVE h \in S
  <2>1. PICK T \in SUBSET Existing' : T \subseteq S /\ p \in T /\ (Closed(T))'
    BY <1>1, <1>3, <1>4
  <2>2. h \in T
    BY <2>1 DEF ParentChain
  <2> QED
    BY <2>1, <2>2
<1>5. h \in Existing
  BY <1>0, <1>3, <1>4
<1> QED
  BY <1>3, <1>4, <1>5 DEF ParentChain

LEMMA AcyclicKept ==
  ASSUME TypeOK, Acyclic,
         \/ UNCHANGED parent
         \/ \E g, q : Created(g, q)
         \/ \E g : MovedToRoot(g) \/ Deleted(g)
  PROVE  Acyclic'
<1> USE RootAssumption
<1> SUFFICES ASSUME NEW S \in SUBSET Existing', S # {}, \A h \in S : parent'[h] \in S
             PROVE  FALSE
  BY DEF Acyclic
<1>1. \A T \in SUBSET Existing : T # {} => \E h \in T : parent[h] \notin T
  BY DEF Acyclic
<1>2. CASE UNCHANGED parent
  BY <1>1, <1>2 DEF Existing
<1>3. CASE \E g, q : Created(g, q)
  <2>1. PICK g, q : Created(g, q)
    BY <1>3
  <2>2. \A h \in Groups : parent'[h] = IF h = g THEN q ELSE parent[h]
    BY <2>1 DEF Created, TypeOK
  <2>3. g \notin Existing /\ \A h \in Existing : parent[h] # g
    BY <2>1 DEF Created, TypeOK
  <2> DEFINE T == S \ {g}
  <2>4. T \in SUBSET Existing /\ \A h \in T : parent[h] \in T
    BY <2>2, <2>3 DEF Existing
  <2>5. T = {}
    BY <1>1, <2>4
  <2>6. S = {g} /\ parent'[g] = q /\ q # g
    BY <2>1, <2>2, <2>3, <2>5 DEF Created
  <2> QED
    BY <2>6
<1>4. CASE \E g : MovedToRoot(g)
  <2>1. PICK g : MovedToRoot(g)
    BY <1>4
  <2>2. \A h \in Groups : parent'[h] = IF h = g THEN Root ELSE parent[h]
    BY <2>1 DEF MovedToRoot, TypeOK
  <2>3. S \in SUBSET Existing /\ \A h \in S : parent[h] \in S
    BY <2>1, <2>2 DEF Existing, MovedToRoot
  <2> QED
    BY <1>1, <2>3
<1>5. CASE \E g : Deleted(g)
  <2>1. PICK g : Deleted(g)
    BY <1>5
  <2>2. \A h \in Groups : parent'[h] = IF h = g THEN Absent ELSE parent[h]
    BY <2>1 DEF Deleted, TypeOK
  <2>3. S \in SUBSET Existing /\ \A h \in S : parent[h] \in S
    BY <2>2 DEF Existing
  <2> QED
    BY <1>1, <2>3
<1> QED
  BY <1>2, <1>3, <1>4, <1>5

\* A move to a parent that is not below the group makes no cycle: a cycle would have
\* the group in it, and the part of it above the new parent was a cycle before.
LEMMA MoveAcyclic ==
  ASSUME TypeOK, Acyclic, NEW g \in Existing, NEW p \in Existing,
         g # p, g \notin ParentChain(p), parent' = [parent EXCEPT ![g] = p]
  PROVE  Acyclic'
<1> USE RootAssumption
<1>1. \A h \in Groups : parent'[h] = IF h = g THEN p ELSE parent[h]
  BY DEF TypeOK
<1>2. Existing' = Existing
  BY <1>1 DEF Existing
<1> SUFFICES ASSUME NEW S \in SUBSET Existing, S # {}, \A h \in S : parent'[h] \in S
             PROVE  FALSE
  BY <1>2 DEF Acyclic
<1>3. CASE g \notin S
  <2>1. \A h \in S : parent[h] \in S
    BY <1>1, <1>3 DEF Existing
  <2> QED
    BY <2>1 DEF Acyclic
<1>4. CASE g \in S
  <2>1. p \in S
    BY <1>1, <1>4 DEF Existing
  <2>2. PICK C \in SUBSET Existing : p \in C /\ Closed(C) /\ g \notin C
    BY DEF ParentChain
  <2> DEFINE T == S \cap C
  <2>3. T \in SUBSET Existing /\ T # {}
    BY <2>1, <2>2
  <2>4. ASSUME NEW h \in T PROVE parent[h] \in T
    <3>1. parent[h] = parent'[h] /\ parent[h] \in S
      BY <1>1, <2>2 DEF Existing
    <3>2. parent[h] \in C
      BY <2>2, <3>1 DEF Closed, Existing
    <3> QED
      BY <3>1, <3>2
  <2> QED
    BY <2>3, <2>4 DEF Acyclic
<1> QED
  BY <1>3, <1>4

-----------------------------------------------------------------------------
LEMMA InitInv == Init => IInv
<1> SUFFICES ASSUME Init PROVE IInv
  OBVIOUS
<1>1. TypeOK
  BY TypeInit
<1>2. Existing = {}
  BY DEF Init, Existing
<1>3. Acyclic
  BY <1>2 DEF Acyclic
<1>4. MoveSafe /\ OneMove
  BY DEF Init, MoveSafe, OneMove, Idle, Move
<1> QED
  BY <1>1, <1>3, <1>4 DEF IInv

LEMMA NextInv == SerialMoves /\ ~AnySpelling /\ IInv /\ [Next]_vars => IInv'
<1> SUFFICES ASSUME SerialMoves, ~AnySpelling, IInv, [Next]_vars PROVE IInv'
  OBVIOUS
<1>0. TypeOK'
  BY TypeNext DEF IInv
<1>1. ASSUME NEW c \in Clients, calls[c].pc = "move"
      PROVE  \E g, p \in used : calls[c] = Move(g, p)
  <2>1. calls[c] \in Call
    BY DEF IInv, TypeOK
  <2> QED
    BY <1>1, <2>1 DEF Call, Idle, Deletion
\* No request starts a move, and the table changes otherwise.
<1>2. ASSUME \/ UNCHANGED parent
             \/ \E g, q : Created(g, q)
             \/ \E g : MovedToRoot(g) \/ Deleted(g),
             \A c \in Clients : calls'[c].pc = "move" => calls'[c] = calls[c]
      PROVE  IInv'
  <2>1. Acyclic'
    BY <1>2, AcyclicKept DEF IInv
  <2>2. ASSUME NEW c \in Clients, NEW g \in used', NEW p \in used', calls'[c] = Move(g, p)
        PROVE  g # p /\ g \notin ParentChain(p)'
    <3>1. calls[c] = Move(g, p)
      BY <1>2, <2>2 DEF Move
    <3>2. PICK h, q \in used : calls[c] = Move(h, q)
      <4>1. calls[c].pc = "move"
        BY <3>1 DEF Move
      <4> QED
        BY <1>1, <4>1
    <3>3. g \in used /\ p \in used
      BY <3>1, <3>2 DEF Move
    <3>4. g # p /\ g \notin ParentChain(p)
      BY <3>1, <3>3 DEF IInv, MoveSafe
    <3>5. ParentChain(p)' \subseteq ParentChain(p)
      BY <1>2, <3>3, ChainShrinks DEF IInv
    <3> QED
      BY <3>4, <3>5
  <2>3. MoveSafe'
    BY <2>2 DEF MoveSafe, Move
  <2>4. OneMove'
    BY <1>2 DEF IInv, OneMove
  <2> QED
    BY <1>0, <2>1, <2>3, <2>4 DEF IInv
<1>3. ASSUME NEW g \in Groups, NEW p \in Groups \cup {Root}, Create(g, p) PROVE IInv'
  BY <1>2, <1>3 DEF Create, Created
<1>4. ASSUME NEW c \in Clients, NEW g \in used, NEW p \in used, MoveCheck(c, g, p) PROVE IInv'
  <2>1. /\ \A d \in Clients : calls[d].pc # "move"
        /\ \A d \in Clients : calls'[d] = IF d = c THEN Move(g, p) ELSE calls[d]
    BY <1>4 DEF MoveCheck, BeginMove, IInv, TypeOK
  <2>2. UNCHANGED parent /\ g # p /\ g \notin ParentChain(p)
    BY <1>4 DEF MoveCheck, BeginMove
  <2>3. Acyclic'
    BY <2>2, AcyclicKept DEF IInv
  <2>4. OneMove'
    BY <2>1 DEF OneMove
  <2>5. ASSUME NEW d \in Clients, NEW h \in used', NEW q \in used', calls'[d] = Move(h, q)
        PROVE  h # q /\ h \notin ParentChain(q)'
    <3>1. calls'[d].pc = "move"
      BY <2>5 DEF Move
    <3>2. d = c
      BY <2>1, <3>1
    <3>3. h = g /\ q = p
      BY <2>1, <2>5, <3>2 DEF Move
    <3>4. ParentChain(q)' = ParentChain(q)
      BY <2>2 DEF ParentChain, Existing, Closed
    <3> QED
      BY <2>2, <3>3, <3>4
  <2>6. MoveSafe'
    BY <2>5 DEF MoveSafe, Move
  <2> QED
    BY <1>0, <2>3, <2>4, <2>6 DEF IInv
<1>5. ASSUME NEW c \in Clients, MoveWrite(c) PROVE IInv'
  <2>1. \A d \in Clients : calls'[d].pc # "move"
    BY <1>5 DEF MoveWrite, IInv, TypeOK, OneMove, Idle
  <2>2. PICK g, p \in used : calls[c] = Move(g, p)
    BY <1>1, <1>5 DEF MoveWrite
  <2>3. g \in Existing /\ p \in Existing /\ parent' = [parent EXCEPT ![g] = p]
    BY <1>5, <2>2 DEF MoveWrite, Move
  <2>4. g # p /\ g \notin ParentChain(p)
    BY <2>2 DEF IInv, MoveSafe
  <2>5. Acyclic'
    BY <2>3, <2>4, MoveAcyclic DEF IInv
  <2> QED
    BY <1>0, <2>1, <2>5 DEF IInv, MoveSafe, OneMove, Move
<1>6. ASSUME NEW c \in Clients, NEW g \in used, MoveToRoot(c, g) PROVE IInv'
  BY <1>2, <1>6 DEF MoveToRoot, MovedToRoot
<1>7. ASSUME NEW c \in Clients, NEW g \in used, DeleteCheck(c, g) PROVE IInv'
  <2>1. \A d \in Clients : calls'[d].pc = "move" => calls'[d] = calls[d]
    BY <1>7 DEF DeleteCheck, IInv, TypeOK, Deletion
  <2> QED
    BY <1>2, <1>7, <2>1 DEF DeleteCheck
<1>8. ASSUME NEW c \in Clients, DeleteWrite(c) PROVE IInv'
  <2>1. \A d \in Clients : calls'[d].pc = "move" => calls'[d] = calls[d]
    BY <1>8 DEF DeleteWrite, IInv, TypeOK, Idle
  <2>2. Deleted(calls[c].group)
    BY <1>8 DEF DeleteWrite, Deleted
  <2> QED
    BY <1>2, <2>1, <2>2
<1>9. ASSUME NEW c \in Clients, Fail(c) PROVE IInv'
  <2>1. \A d \in Clients : calls'[d].pc = "move" => calls'[d] = calls[d]
    BY <1>9 DEF Fail, IInv, TypeOK, Idle
  <2> QED
    BY <1>2, <1>9, <2>1 DEF Fail
<1>10. CASE UNCHANGED vars
  BY <1>2, <1>10 DEF vars
<1> QED
  BY <1>3, <1>4, <1>5, <1>6, <1>7, <1>8, <1>9, <1>10 DEF Next

\* The foreign key holds and clients only name ids they were given.
THEOREM TypeCorrect == Spec => []TypeOK
<1> QED
  BY TypeInit, TypeNext, PTL DEF Spec

\* The check of validate_no_cycle is good enough unless two updates of a parent overlap or
\* a client spells the id of a parent in its own way.
THEOREM NoCycle ==
  ASSUME SerialMoves, ~AnySpelling
  PROVE  Spec => []Acyclic
<1>1. Init => IInv
  BY InitInv
<1>2. IInv /\ [Next]_vars => IInv'
  BY NextInv
<1>3. IInv => Acyclic
  BY DEF IInv
<1> QED
  BY <1>1, <1>2, <1>3, PTL DEF Spec
================================================================================
