---------------------------- MODULE Revisions_proofs ----------------------------
(***************************************************************************)
(* The rows that requests change by named revisions, for any number of     *)
(* clients: the configuration of an importer, a preference of a user, and  *)
(* the groups and labels of SBOMs.                                         *)
(***************************************************************************)
EXTENDS ImporterRevisions, Assignments, UserPreferences, TLAPS

-----------------------------------------------------------------------------
(* The configuration of an importer: no lost update and no unfounded 412.  *)
(* The argument: revisions are given out once, so whoever knows the        *)
(* revision of the row knows its configuration, and a revision that the    *)
(* row lost does not come back.                                            *)

Known(revision, config) == row # NoRow /\ row.revision = revision => row.config = config

Informed(call) == Known(call.tag, call.seen)

\* The If-Match of the request, if any, does not match.
Refused(call) == call.ifMatch # AnyRevision => ~Matches(call.ifMatch)

CallOK(call) ==
  /\ Informed(call)
  /\ call.pc = "patch" => /\ call.expected # AnyRevision /\ Known(call.expected, call.base)
                         /\ call.ifMatch \in {AnyRevision, call.expected}
  /\ call.pc = "count" \/ call.answer = "collision" => Refused(call)

\* What a client has read is what the row has, as long as it has that revision, and
\* whoever is about to be answered 412, or was, asked for a revision it does not have.
KnowledgeTrue == \A c \in Clients : CallOK(calls[c])

IInv == TypeOK /\ KnowledgeTrue

LEMMA UnknownType == Unknown \in Configs
  BY ConfigsAssumption DEF Unknown

LEMMA InitInv == Init => IInv
<1> SUFFICES ASSUME Init PROVE IInv
  OBVIOUS
<1> USE UnknownType, BoundAssumption
<1>1. TypeOK
  BY DEF Init, TypeOK, Call, AnyRevision
<1>2. KnowledgeTrue
  BY DEF Init, KnowledgeTrue, CallOK, Informed, Known
<1> QED
  BY <1>1, <1>2 DEF IInv

\* What happens to the row: nothing, a write, or a delete.  Knowledge stays true.
RowStep ==
  \/ UNCHANGED <<row, fresh>>
  \/ \E config \in Configs : Write(config)
  \/ row' = NoRow /\ UNCHANGED fresh

LEMMA RowStepInv ==
  ASSUME TypeOK, RowStep
  PROVE  /\ fresh' \in 0 .. MaxRevision /\ fresh' >= fresh
         /\ row' \in [revision : 1 .. fresh', config : Configs] \cup {NoRow}
         /\ \A call \in Call : call \in Call' /\ (CallOK(call) => CallOK(call)')
<1> USE BoundAssumption
<1>1. fresh' \in 0 .. MaxRevision /\ fresh' >= fresh
  BY DEF TypeOK, RowStep, Write
<1>2. row' \in [revision : 1 .. fresh', config : Configs] \cup {NoRow}
  BY DEF TypeOK, RowStep, Write
<1>3. ASSUME NEW call \in Call PROVE call \in Call'
  <2>1. 0 .. fresh \subseteq 0 .. fresh'
    BY <1>1 DEF TypeOK
  <2> QED
    BY <2>1 DEF Call
<1>4. ASSUME NEW revision \in 0 .. fresh, NEW config, Known(revision, config)
      PROVE  Known(revision, config)'
  BY <1>4 DEF TypeOK, RowStep, Write, Known
<1>5. ASSUME NEW revision \in 0 .. fresh, revision # AnyRevision, ~Matches(revision)
      PROVE  ~Matches(revision)'
  BY <1>5 DEF TypeOK, RowStep, Write, Matches, AnyRevision
<1>6. ASSUME NEW call \in Call, CallOK(call) PROVE CallOK(call)'
  <2>1. call.tag \in 0 .. fresh /\ call.expected \in 0 .. fresh /\ call.ifMatch \in 0 .. fresh
    BY DEF Call
  <2>2. Refused(call) => Refused(call)'
    BY <1>5, <2>1 DEF Refused, AnyRevision
  <2>3. Informed(call)'
    BY <1>4, <1>6, <2>1 DEF CallOK, Informed
  <2>4. call.pc = "patch" => Known(call.expected, call.base)'
    BY <1>4, <1>6, <2>1 DEF CallOK
  <2> QED
    BY <1>6, <2>2, <2>3, <2>4 DEF CallOK, AnyRevision
<1> QED
  BY <1>1, <1>2, <1>3, <1>6

\* A step in which one client's call changes.
LEMMA CallStep ==
  ASSUME IInv, RowStep, NEW c \in Clients, NEW call,
         calls' = [calls EXCEPT ![c] = call], call \in Call', CallOK(call)'
  PROVE  IInv'
<1> USE RowStepInv DEF IInv
<1>1. \A d \in Clients : calls[d] \in Call /\ CallOK(calls[d])
  BY DEF TypeOK, KnowledgeTrue
<1>2. \A d \in Clients : calls'[d] = IF d = c THEN call ELSE calls[d]
  BY DEF TypeOK
<1>3. \A d \in Clients : calls'[d] \in Call' /\ (CallOK(calls[d]))'
  <2> SUFFICES ASSUME NEW d \in Clients PROVE calls'[d] \in Call' /\ (CallOK(calls[d]))'
    OBVIOUS
  <2>1. CASE d = c
    BY <1>2, <2>1 DEF CallOK, Informed, Refused, Known, Matches
  <2>2. CASE d # c
    <3>1. calls'[d] = calls[d]
      BY <1>2, <2>2
    <3>2. CallOK(calls[d]) /\ calls[d] \in Call
      BY <1>1
    <3> QED
      BY <3>1, <3>2 DEF CallOK, Informed, Refused, Known, Matches
  <2> QED
    BY <2>1, <2>2
<1>4. calls' \in [Clients -> Call']
  BY <1>3 DEF TypeOK
<1>5. TypeOK'
  BY <1>4 DEF TypeOK
<1>6. KnowledgeTrue'
  BY <1>3 DEF KnowledgeTrue
<1> QED
  BY <1>5, <1>6

LEMMA IdleOK ==
  ASSUME IInv, NEW call \in Call, Informed(call),
         NEW answer \in {"none", "ok", "notfound", "collision", "error"},
         answer = "collision" => Refused(call)
  PROVE  /\ Idle(call, answer) \in Call
         /\ CallOK(Idle(call, answer))
         /\ [Idle(call, answer) EXCEPT !.pc = "count"] \in Call
         /\ Refused(call) => CallOK([Idle(call, answer) EXCEPT !.pc = "count"])
<1> DEFINE idle == Idle(call, answer)
<1>1. AnyRevision \in 0 .. fresh
  BY BoundAssumption DEF AnyRevision, IInv, TypeOK
<1>2. idle \in Call
  BY <1>1, UnknownType DEF Call, Idle
<1>3. /\ idle.tag = call.tag /\ idle.seen = call.seen /\ idle.pc = "idle"
      /\ idle.ifMatch = call.ifMatch /\ idle.answer = answer
  BY DEF Call, Idle
<1> HIDE DEF idle
<1> DEFINE counting == [idle EXCEPT !.pc = "count"]
<1>4. counting \in Call
  BY <1>2 DEF Call
<1>5. /\ counting.tag = call.tag /\ counting.seen = call.seen /\ counting.pc = "count"
      /\ counting.ifMatch = call.ifMatch /\ counting.answer = answer
  BY <1>2, <1>3 DEF Call
<1> HIDE DEF counting
<1>6. CallOK(idle)
  BY <1>3 DEF CallOK, Informed, Refused
<1>7. Refused(call) => CallOK(counting)
  BY <1>5 DEF CallOK, Informed, Refused
<1> QED
  BY <1>2, <1>4, <1>6, <1>7 DEF idle, counting

LEMMA RequestsOK ==
  ASSUME IInv, NEW c \in Clients, NEW call \in Requests(c), calls[c].pc = "idle"
  PROVE  /\ call \in Call /\ Informed(call)
         /\ call.pc = "idle" /\ call.seen = calls[c].seen /\ call.tag = calls[c].tag
         /\ call.expected = call.ifMatch /\ call.ifMatch \in {AnyRevision, call.tag}
<1>1. calls[c] \in Call /\ CallOK(calls[c])
  BY DEF IInv, TypeOK, KnowledgeTrue
<1>2. PICK m \in {AnyRevision, calls[c].tag} :
        call = [calls[c] EXCEPT !.ifMatch = m, !.expected = m]
  BY DEF Requests
<1>3. m \in 0 .. fresh
  BY <1>1 DEF Call, AnyRevision, IInv, TypeOK
<1> QED
  BY <1>1, <1>2, <1>3 DEF Call, CallOK, Informed, Known

\* An action that changes nothing but the call.
LEMMA CallOnlyInv ==
  ASSUME IInv, NEW c \in Clients, NEW call \in Call, CallOK(call),
         calls' = [calls EXCEPT ![c] = call], RowStep
  PROVE  IInv'
<1>1. call \in Call' /\ CallOK(call)'
  BY RowStepInv DEF IInv
<1> QED
  BY <1>1, CallStep

Affected(c, call) == calls' = [calls EXCEPT ![c] = Idle(call, "ok")]

NotAffected(c, call) ==
  /\ Refused(call)
  /\ calls' = [calls EXCEPT ![c] = [Idle(call, "none") EXCEPT !.pc = "count"]]

\* Either outcome of the UPDATE
LEMMA UpdateInv ==
  ASSUME IInv, NEW c \in Clients, NEW call \in Call, Informed(call), RowStep,
         Affected(c, call) \/ NotAffected(c, call)
  PROVE  IInv'
<1> DEFINE new(answer) == Idle(call, answer)
           counting == [new("none") EXCEPT !.pc = "count"]
<1>1. /\ new("ok") \in Call /\ CallOK(new("ok"))
      /\ counting \in Call /\ (Refused(call) => CallOK(counting))
  BY IdleOK
<1>2. CASE calls' = [calls EXCEPT ![c] = new("ok")]
  <2> HIDE DEF new
  <2> QED
    BY <1>1, <1>2, CallOnlyInv
<1>3. CASE Refused(call) /\ calls' = [calls EXCEPT ![c] = counting]
  <2> HIDE DEF counting
  <2> QED
    BY <1>1, <1>3, CallOnlyInv
<1> QED
  BY <1>2, <1>3 DEF Affected, NotAffected

LEMMA NextInv == IInv /\ [Next]_vars => IInv'
<1> SUFFICES ASSUME IInv, [Next]_vars PROVE IInv'
  OBVIOUS
<1>a. \A c \in Clients : calls[c] \in Call /\ CallOK(calls[c])
  BY DEF IInv, TypeOK, KnowledgeTrue
<1>b. row # NoRow => row.revision \in 0 .. fresh \ {0} /\ row.config \in Configs
  BY DEF IInv, TypeOK
<1>1. ASSUME UNCHANGED calls, RowStep PROVE IInv'
  <2>1. \A c \in Clients : calls[c] \in Call' /\ CallOK(calls[c])'
    <3> SUFFICES ASSUME NEW c \in Clients PROVE calls[c] \in Call' /\ CallOK(calls[c])'
      OBVIOUS
    <3>1. calls'[c] = calls[c]
      BY <1>1
    <3>2. calls[c] \in Call /\ CallOK(calls[c])
      BY <1>a
    <3> QED
      BY <1>1, <3>1, <3>2, RowStepInv DEF IInv, CallOK, Known
  <2> QED
    BY <1>1, <2>1, RowStepInv DEF IInv, TypeOK, KnowledgeTrue
<1>2. CASE Create
  BY <1>1, <1>2 DEF Create, RowStep
<1>3. CASE RunUpdate
  BY <1>1, <1>3, <1>b DEF RunUpdate, RowStep
<1>4. CASE UNCHANGED vars
  BY <1>1, <1>4 DEF vars, RowStep
<1>5. ASSUME NEW c \in Clients, Read(c) PROVE IInv'
  <2> DEFINE new == [calls[c] EXCEPT !.tag = row.revision, !.seen = row.config, !.answer = "none"]
  <2>1. calls' = [calls EXCEPT ![c] = new] /\ RowStep /\ calls[c].pc = "idle" /\ row # NoRow
    BY <1>5 DEF Read, RowStep
  <2>2. new \in Call
    <3>1. calls[c] \in Call /\ row.revision \in 0 .. fresh /\ row.config \in Configs
      BY <1>a, <1>b, <2>1
    <3> QED
      BY <3>1 DEF Call
  <2>3. CallOK(new)
    BY <1>a, <1>b, <2>1 DEF CallOK, Informed, Refused, Known, Call
  <2> HIDE DEF new
  <2> QED
    BY <2>1, <2>2, <2>3, CallOnlyInv
<1>6. ASSUME NEW c \in Clients, Put(c) PROVE IInv'
  <2>1. PICK call \in Requests(c) : RowStep /\ (Affected(c, call) \/ NotAffected(c, call))
    BY <1>6, RequestsOK
       DEF Put, UpdateOk, UpdateNone, RowStep, Affected, NotAffected, Refused
  <2>2. call \in Call /\ Informed(call)
    BY <1>6, RequestsOK DEF Put
  <2> QED
    BY <2>1, <2>2, UpdateInv
<1>7. ASSUME NEW c \in Clients, ForceRun(c) PROVE IInv'
  <2>1. PICK call \in Requests(c) : RowStep /\ (Affected(c, call) \/ NotAffected(c, call))
    BY <1>7, RequestsOK, <1>b
       DEF ForceRun, UpdateOk, UpdateNone, RowStep, Affected, NotAffected, Refused
  <2>2. call \in Call /\ Informed(call)
    BY <1>7, RequestsOK DEF ForceRun
  <2> QED
    BY <2>1, <2>2, UpdateInv
<1>8. ASSUME NEW c \in Clients, Delete(c) PROVE IInv'
  <2>1. PICK call \in Requests(c) :
          /\ row' = IF Matches(call.expected) THEN NoRow ELSE row
          /\ calls' = [calls EXCEPT ![c] = Idle(call, "ok")]
    BY <1>8 DEF Delete
  <2>2. Idle(call, "ok") \in Call /\ CallOK(Idle(call, "ok"))
    BY <1>8, RequestsOK, IdleOK DEF Delete
  <2>3. RowStep
    BY <1>8, <2>1 DEF Delete, RowStep
  <2> QED
    BY <2>1, <2>2, <2>3, CallOnlyInv
<1>9. ASSUME NEW c \in Clients, PatchRead(c) PROVE IInv'
  <2>1. PICK call \in Requests(c) :
          \/ /\ Matches(call.expected)
             /\ \E config \in Configs :
                  calls' = [calls EXCEPT ![c] =
                    [call EXCEPT !.pc = "patch", !.expected = row.revision, !.base = row.config,
                                 !.config = config, !.answer = "none"]]
          \/ /\ ~Matches(call.expected)
             /\ calls' = [calls EXCEPT ![c] =
                  Idle(call, IF row = NoRow THEN "notfound" ELSE "collision")]
    BY <1>9 DEF PatchRead
  <2>2. call \in Call /\ Informed(call) /\ RowStep
    BY <1>9, RequestsOK DEF PatchRead, RowStep
  <2>3. CASE Matches(call.expected)
    <3>1. PICK config \in Configs : calls' = [calls EXCEPT ![c] =
            [call EXCEPT !.pc = "patch", !.expected = row.revision, !.base = row.config,
                         !.config = config, !.answer = "none"]]
      BY <2>1, <2>3
    <3> DEFINE new == [call EXCEPT !.pc = "patch", !.expected = row.revision,
                                   !.base = row.config, !.config = config, !.answer = "none"]
    <3>2. row.revision \in 0 .. fresh \ {0} /\ row.config \in Configs
      BY <1>b, <2>3 DEF Matches
    <3>3. new \in Call
      BY <2>2, <3>2 DEF Call
    <3>4. /\ new.tag = call.tag /\ new.seen = call.seen
          /\ new.expected = row.revision /\ new.base = row.config
          /\ new.pc = "patch" /\ new.ifMatch = call.ifMatch /\ new.answer = "none"
      BY <2>2 DEF Call
    <3>5. call.ifMatch \in {AnyRevision, row.revision}
      BY <1>9, <2>3, RequestsOK DEF PatchRead, Matches
    <3> HIDE DEF new
    <3>6. CallOK(new)
      BY <2>2, <3>2, <3>4, <3>5 DEF CallOK, Informed, Known, AnyRevision
    <3> QED
      BY <2>2, <3>1, <3>3, <3>6, CallOnlyInv DEF new
  <2>4. CASE ~Matches(call.expected)
    <3> DEFINE answer == IF row = NoRow THEN "notfound" ELSE "collision"
    <3>1. Refused(call)
      BY <1>9, <2>4, RequestsOK DEF PatchRead, Refused
    <3>2. Idle(call, answer) \in Call /\ CallOK(Idle(call, answer))
      BY <2>2, <3>1, IdleOK
    <3> QED
      BY <2>1, <2>2, <2>4, <3>2, CallOnlyInv
  <2> QED
    BY <2>3, <2>4
<1>10. ASSUME NEW c \in Clients, PatchWrite(c) PROVE IInv'
  <2>1. /\ calls[c] \in Call /\ CallOK(calls[c]) /\ calls[c].config \in Configs
        /\ Informed(calls[c])
    BY <1>a DEF Call, CallOK
  <2>2. RowStep /\ (Affected(c, calls[c]) \/ NotAffected(c, calls[c]))
    BY <1>10, <2>1
       DEF PatchWrite, UpdateOk, UpdateNone, RowStep, Affected, NotAffected, Refused, CallOK
  <2> QED
    BY <2>1, <2>2, UpdateInv
<1>11. ASSUME NEW c \in Clients, Count(c) PROVE IInv'
  <2> DEFINE answer == IF row = NoRow THEN "notfound" ELSE "collision"
  <2>1. calls' = [calls EXCEPT ![c] = Idle(calls[c], answer)] /\ RowStep
    BY <1>11 DEF Count, RowStep
  <2>2. Informed(calls[c]) /\ Refused(calls[c])
    BY <1>a, <1>11 DEF Count, CallOK
  <2>3. Idle(calls[c], answer) \in Call /\ CallOK(Idle(calls[c], answer))
    BY <1>a, <2>2, IdleOK
  <2> QED
    BY <2>1, <2>3, CallOnlyInv
<1>12. ASSUME NEW c \in Clients, Fail(c) PROVE IInv'
  <2>1. calls' = [calls EXCEPT ![c] = Idle(calls[c], "error")] /\ RowStep
    BY <1>12 DEF Fail, RowStep
  <2>2. Idle(calls[c], "error") \in Call /\ CallOK(Idle(calls[c], "error"))
    BY <1>a, IdleOK DEF CallOK
  <2> QED
    BY <2>1, <2>2, CallOnlyInv
<1> QED
  BY <1>2, <1>3, <1>4, <1>5, <1>6, <1>7, <1>8, <1>9, <1>10, <1>11, <1>12 DEF Next

THEOREM Invariance == Spec => []IInv
<1> QED
  BY InitInv, NextInv, PTL DEF Spec

\* The variables keep their types, and every revision in the row was given out.
THEOREM TypeCorrect == Spec => []TypeOK
<1>1. IInv => TypeOK
  BY DEF IInv
<1> QED
  BY <1>1, Invariance, PTL

\* endpoints.rs: whoever is answered 412 and named a revision named one that the row does
\* not have, and will not have again.
THEOREM CollisionsJustified == Spec => []CollisionJustified
<1>1. IInv => CollisionJustified
  BY DEF IInv, KnowledgeTrue, CallOK, Refused, CollisionJustified
<1> QED
  BY <1>1, Invariance, PTL

\* A patch stores what was computed from the configuration it replaces, and a
\* conditional PUT or DELETE replaces what the client has seen.
THEOREM NoUpdateLost == Spec => NoLostUpdate
<1> DEFINE Replaces(c) ==
      /\ PatchWrite(c) /\ row' # row => row.config = calls[c].base
      /\ (Put(c) \/ Delete(c)) /\ calls'[c].ifMatch # AnyRevision /\ row' # row
           => row.config = calls[c].seen
<1>1. ASSUME IInv, NEW c \in Clients PROVE Replaces(c)
  <2>1. calls[c] \in Call /\ CallOK(calls[c])
    BY <1>1 DEF IInv, TypeOK, KnowledgeTrue
  <2>2. ASSUME PatchWrite(c), row' # row PROVE row.config = calls[c].base
    <3>1. calls[c].pc = "patch" /\ Matches(calls[c].expected)
      BY <2>2 DEF PatchWrite, UpdateOk, UpdateNone
    <3> QED
      BY <2>1, <3>1 DEF CallOK, Known, Matches
  <2>3. ASSUME NEW call \in Requests(c), calls[c].pc = "idle", Matches(call.expected),
               call.ifMatch # AnyRevision
        PROVE  row.config = calls[c].seen
    <3>1. Informed(call) /\ call.seen = calls[c].seen /\ call.expected = call.tag
      BY <1>1, <2>3, RequestsOK
    <3> QED
      BY <2>3, <3>1, RequestsOK, <1>1 DEF Matches, Informed, Known
  <2>4. \A call \in Requests(c) : calls[c].pc = "idle" =>
          Idle(call, "ok").ifMatch = call.ifMatch
    <3> SUFFICES ASSUME NEW call \in Requests(c), calls[c].pc = "idle"
                 PROVE  Idle(call, "ok").ifMatch = call.ifMatch
      OBVIOUS
    <3>1. call \in Call
      BY <1>1, RequestsOK
    <3> QED
      BY <3>1 DEF Idle, Call
  <2>5. \A call : calls' = [calls EXCEPT ![c] = call] => calls'[c] = call
    BY <1>1 DEF IInv, TypeOK
  <2>6. ASSUME Put(c), calls'[c].ifMatch # AnyRevision, row' # row
        PROVE  row.config = calls[c].seen
    <3>1. PICK call \in Requests(c) : \E config \in Configs : UpdateOk(c, call, config)
      BY <2>6 DEF Put, UpdateNone
    <3>2. calls'[c] = Idle(call, "ok")
      BY <2>5, <3>1 DEF UpdateOk
    <3>3. call.ifMatch = calls'[c].ifMatch
      BY <2>4, <2>6, <3>2 DEF Put
    <3> QED
      BY <2>3, <2>6, <3>1, <3>3 DEF UpdateOk, Put
  <2>7. ASSUME Delete(c), calls'[c].ifMatch # AnyRevision, row' # row
        PROVE  row.config = calls[c].seen
    <3>1. PICK call \in Requests(c) :
            /\ row' = IF Matches(call.expected) THEN NoRow ELSE row
            /\ calls' = [calls EXCEPT ![c] = Idle(call, "ok")]
      BY <2>7 DEF Delete
    <3>2. call.ifMatch = calls'[c].ifMatch
      BY <2>4, <2>5, <2>7, <3>1 DEF Delete
    <3> QED
      BY <2>3, <2>7, <3>1, <3>2 DEF Delete
  <2> QED
    BY <2>2, <2>6, <2>7
<1>2. IInv => [\A c \in Clients : Replaces(c)]_vars
  BY <1>1
<1> QED
  BY <1>2, Invariance, PTL DEF NoLostUpdate

-----------------------------------------------------------------------------
(* A preference of a user: the same argument, with a row that one request  *)
(* may create, replace or delete.                                          *)

Tab ==
  [pc : {"idle", "count"}, tag : 0 .. sets, seen : Values \cup {NoPreference},
   ifMatch : 0 .. sets, answer : {"none", "ok", "collision"}]

PreferenceTypeOK ==
  /\ sets \in Nat
  /\ preference \in [revision : 1 .. sets, value : Values] \cup {NoPreference}
  /\ tabs \in [Tabs -> Tab]

\* A tab that knows the revision of the row knows its value, and a tab that is about to be
\* answered 412, or was, named a revision that the row does not have.
TabOK(tab) ==
  /\ MatchesTag(tab.tag) => preference.value = tab.seen
  /\ tab.pc = "count" => tab.ifMatch # AnyMatch
  /\ tab.pc = "count" \/ (tab.answer = "collision" /\ tab.ifMatch # AnyMatch) =>
       ~MatchesTag(tab.ifMatch)

PreferenceInv == PreferenceTypeOK /\ \A t \in Tabs : TabOK(tabs[t])

LEMMA PreferenceInitInv == PreferenceInit => PreferenceInv
BY DEF PreferenceInit, PreferenceInv, PreferenceTypeOK, Tab, TabOK, MatchesTag, AnyMatch

\* What happens to the row: nothing, a new revision, or a delete
PreferenceMove ==
  \/ UNCHANGED <<preference, sets>>
  \/ \E value \in Values : Store(value)
  \/ preference' = NoPreference /\ UNCHANGED sets

\* Knowledge of the row stays true.
LEMMA TabKept ==
  ASSUME PreferenceTypeOK, PreferenceMove, NEW tab \in Tab
  PROVE  tab \in Tab' /\ (TabOK(tab) => TabOK(tab)')
<1>1. sets' \in Nat /\ sets' >= sets /\ sets \in Nat
  BY DEF PreferenceTypeOK, PreferenceMove, Store
<1>2. 0 .. sets \subseteq 0 .. sets'
  BY <1>1
<1>3. tab \in Tab'
  BY <1>2 DEF Tab
<1>4. \A tag \in 0 .. sets :
        MatchesTag(tag)' => MatchesTag(tag) /\ preference' = preference
  BY NoPreferenceAssumption DEF PreferenceTypeOK, PreferenceMove, Store, MatchesTag
<1>5. tab.tag \in 0 .. sets /\ tab.ifMatch \in 0 .. sets
  BY DEF Tab
<1> QED
  BY <1>3, <1>4, <1>5 DEF TabOK

\* A step of tab t, which becomes tab
LEMMA TabStep ==
  ASSUME PreferenceInv, PreferenceMove, NEW t \in Tabs, NEW tab,
         tabs' = [tabs EXCEPT ![t] = tab], tab \in Tab', TabOK(tab)'
  PROVE  PreferenceInv'
<1>1. /\ sets' \in Nat
      /\ preference' \in [revision : 1 .. sets', value : Values] \cup {NoPreference}
  BY DEF PreferenceInv, PreferenceTypeOK, PreferenceMove, Store
<1>2. ASSUME NEW u \in Tabs PROVE tabs'[u] \in Tab' /\ TabOK(tabs[u])'
  <2>1. tabs'[u] = IF u = t THEN tab ELSE tabs[u]
    BY DEF PreferenceInv, PreferenceTypeOK
  <2>2. PICK x : x = tabs[u] /\ x \in Tab /\ TabOK(x)
    BY DEF PreferenceInv, PreferenceTypeOK
  <2>3. x \in Tab' /\ TabOK(x)'
    BY <2>2, TabKept DEF PreferenceInv
  <2> QED
    BY <2>1, <2>2, <2>3 DEF TabOK
<1>3. tabs' \in [Tabs -> Tab']
  BY <1>2 DEF PreferenceInv, PreferenceTypeOK
<1> QED
  BY <1>1, <1>2, <1>3 DEF PreferenceInv, PreferenceTypeOK

LEMMA SetPreferenceInv ==
  ASSUME PreferenceInv, NEW t \in Tabs, NEW value \in Values, SetPreference(t, value)
  PROVE  PreferenceInv'
<1>1. PICK tag \in Headers(t) :
        \/ /\ tag = AnyMatch \/ MatchesTag(tag)
           /\ Store(value)
           /\ tabs' = [tabs EXCEPT ![t].tag = sets + 1, ![t].seen = value,
                                   ![t].ifMatch = tag, ![t].answer = "ok"]
        \/ /\ tag # AnyMatch /\ ~MatchesTag(tag)
           /\ Answer(t, tag, "collision") /\ UNCHANGED <<preference, sets>>
  BY DEF SetPreference
<1>2. tabs[t] \in Tab /\ TabOK(tabs[t]) /\ tabs \in [Tabs -> Tab] /\ sets \in Nat
  BY DEF PreferenceInv, PreferenceTypeOK
<1>3. tabs[t].pc = "idle" /\ tag \in 0 .. sets
  BY <1>2 DEF SetPreference, Headers, AnyMatch, Tab
<1>4. PreferenceMove
  BY <1>1 DEF PreferenceMove
<1>5. CASE Store(value) /\ tabs' = [tabs EXCEPT ![t].tag = sets + 1, ![t].seen = value,
                                                ![t].ifMatch = tag, ![t].answer = "ok"]
  <2>1. PICK x : x = [tabs[t] EXCEPT !.tag = sets + 1, !.seen = value, !.ifMatch = tag, !.answer = "ok"]
    OBVIOUS
  <2>2. tabs' = [tabs EXCEPT ![t] = x]
    BY <1>2, <1>5, <2>1
  <2>3. sets' = sets + 1 /\ preference' = [revision |-> sets + 1, value |-> value]
    BY <1>5 DEF Store
  <2>4. x = [pc |-> "idle", tag |-> sets + 1, seen |-> value, ifMatch |-> tag, answer |-> "ok"]
    BY <1>2, <1>3, <2>1 DEF Tab
  <2>5. x \in Tab'
    BY <1>2, <1>3, <2>3, <2>4 DEF Tab
  <2>6. TabOK(x)'
    BY <2>3, <2>4 DEF TabOK
  <2> QED
    BY <1>4, <2>2, <2>5, <2>6, TabStep
<1>6. CASE tag # AnyMatch /\ ~MatchesTag(tag) /\ Answer(t, tag, "collision") /\ UNCHANGED <<preference, sets>>
  <2>1. PICK x : x = [tabs[t] EXCEPT !.pc = "idle", !.ifMatch = tag, !.answer = "collision"]
    OBVIOUS
  <2>2. tabs' = [tabs EXCEPT ![t] = x]
    BY <1>2, <1>6, <2>1 DEF Answer
  <2>3. x \in Tab /\ x.tag = tabs[t].tag /\ x.seen = tabs[t].seen /\ x.ifMatch = tag /\ x.pc = "idle"
    BY <1>2, <1>3, <2>1 DEF Tab
  <2>4. TabOK(x)
    BY <1>2, <1>6, <2>3 DEF TabOK
  <2> QED
    BY <1>4, <2>2, <2>3, <2>4, TabKept, TabStep DEF PreferenceInv
<1> QED
  BY <1>1, <1>5, <1>6

LEMMA DeletePreferenceInv ==
  ASSUME PreferenceInv, NEW t \in Tabs, DeletePreference(t)
  PROVE  PreferenceInv'
<1>1. PICK tag \in Headers(t) :
        \/ preference' = NoPreference /\ Answer(t, tag, "ok")
        \/ /\ tag # AnyMatch /\ ~MatchesTag(tag) /\ preference' = preference
           /\ tabs' = [tabs EXCEPT ![t].pc = "count", ![t].ifMatch = tag, ![t].answer = "none"]
  BY DEF DeletePreference
<1>2. tabs[t] \in Tab /\ TabOK(tabs[t]) /\ tabs \in [Tabs -> Tab] /\ sets \in Nat
  BY DEF PreferenceInv, PreferenceTypeOK
<1>3. tag \in 0 .. sets
  BY <1>2 DEF Headers, AnyMatch, Tab
<1>4. PreferenceMove
  BY <1>1 DEF PreferenceMove, DeletePreference
<1>5. PICK pc \in {"idle", "count"}, answer \in {"none", "ok"} :
        /\ tabs' = [tabs EXCEPT ![t].pc = pc, ![t].ifMatch = tag, ![t].answer = answer]
        /\ pc = "count" => tag # AnyMatch /\ ~MatchesTag(tag)
  BY <1>1 DEF Answer
<1>6. PICK x : x = [tabs[t] EXCEPT !.pc = pc, !.ifMatch = tag, !.answer = answer]
  OBVIOUS
<1>7. tabs' = [tabs EXCEPT ![t] = x]
  BY <1>2, <1>5, <1>6
<1>8. /\ x \in Tab /\ x.tag = tabs[t].tag /\ x.seen = tabs[t].seen /\ x.ifMatch = tag
      /\ x.pc = pc /\ x.answer = answer
  BY <1>2, <1>3, <1>6 DEF Tab
<1>9. TabOK(x)
  BY <1>2, <1>5, <1>8 DEF TabOK
<1> QED
  BY <1>4, <1>7, <1>8, <1>9, TabKept, TabStep DEF PreferenceInv

LEMMA GetPreferenceInv ==
  ASSUME PreferenceInv, NEW t \in Tabs, GetPreference(t)
  PROVE  PreferenceInv'
<1>1. /\ tabs[t] \in Tab /\ TabOK(tabs[t]) /\ tabs \in [Tabs -> Tab] /\ sets \in Nat
      /\ preference.revision \in 0 .. sets /\ preference.value \in Values /\ tabs[t].pc = "idle"
  BY DEF PreferenceInv, PreferenceTypeOK, GetPreference
<1>2. PICK x : x = [tabs[t] EXCEPT !.tag = preference.revision, !.seen = preference.value, !.answer = "none"]
  OBVIOUS
<1>3. tabs' = [tabs EXCEPT ![t] = x]
  BY <1>1, <1>2 DEF GetPreference
<1>4. /\ x.pc = "idle" /\ x.tag = preference.revision /\ x.seen = preference.value
      /\ x.ifMatch = tabs[t].ifMatch /\ x.answer = "none" /\ x \in Tab
  BY <1>1, <1>2 DEF Tab
<1>5. TabOK(x)
  BY <1>4 DEF TabOK
<1>6. PreferenceMove
  BY DEF PreferenceMove, GetPreference
<1> QED
  BY <1>3, <1>4, <1>5, <1>6, TabKept, TabStep DEF PreferenceInv

LEMMA CountPreferenceInv ==
  ASSUME PreferenceInv, NEW t \in Tabs, CountPreference(t)
  PROVE  PreferenceInv'
<1>1. tabs[t] \in Tab /\ TabOK(tabs[t]) /\ tabs \in [Tabs -> Tab] /\ tabs[t].pc = "count"
  BY DEF PreferenceInv, PreferenceTypeOK, CountPreference
<1>2. PICK answer \in {"ok", "collision"} : Answer(t, tabs[t].ifMatch, answer)
  BY DEF CountPreference
<1>3. PICK x : x = [tabs[t] EXCEPT !.pc = "idle", !.ifMatch = tabs[t].ifMatch, !.answer = answer]
  OBVIOUS
<1>4. tabs' = [tabs EXCEPT ![t] = x]
  BY <1>1, <1>2, <1>3 DEF Answer
<1>5. /\ x.pc = "idle" /\ x.tag = tabs[t].tag /\ x.seen = tabs[t].seen
      /\ x.ifMatch = tabs[t].ifMatch /\ x \in Tab
  BY <1>1, <1>3 DEF Tab
<1>6. TabOK(x)
  BY <1>1, <1>5 DEF TabOK
<1>7. PreferenceMove
  BY DEF PreferenceMove, CountPreference
<1> QED
  BY <1>4, <1>5, <1>6, <1>7, TabKept, TabStep DEF PreferenceInv

LEMMA PreferenceNextInv == PreferenceInv /\ [PreferenceNext]_preferenceVars => PreferenceInv'
<1> SUFFICES ASSUME PreferenceInv, [PreferenceNext]_preferenceVars PROVE PreferenceInv'
  OBVIOUS
<1>1. CASE UNCHANGED preferenceVars
  BY <1>1 DEF preferenceVars, PreferenceInv, PreferenceTypeOK, Tab, TabOK, MatchesTag
<1> QED
  BY <1>1, GetPreferenceInv, SetPreferenceInv, DeletePreferenceInv, CountPreferenceInv DEF PreferenceNext

THEOREM PreferenceInvariance == PreferenceSpec => []PreferenceInv
BY PreferenceInitInv, PreferenceNextInv, PTL DEF PreferenceSpec

\* A request of another tab leaves tab t as it is.
LEMMA OtherTabs ==
  ASSUME PreferenceInv, NEW t \in Tabs, NEW u \in Tabs, t # u,
         \/ GetPreference(u) \/ DeletePreference(u) \/ CountPreference(u)
         \/ \E value \in Values : SetPreference(u, value)
  PROVE  tabs'[t] = tabs[t]
<1>1. tabs \in [Tabs -> Tab]
  BY DEF PreferenceInv, PreferenceTypeOK
<1> QED
  BY <1>1 DEF GetPreference, DeletePreference, CountPreference, SetPreference, Answer

LEMMA ReplacesSeen ==
  ASSUME PreferenceInv, NEW t \in Tabs, preference' # preference, tabs'[t].ifMatch # AnyMatch,
         DeletePreference(t) \/ \E value \in Values : SetPreference(t, value)
  PROVE  /\ preference # NoPreference
         /\ preference.revision = tabs'[t].ifMatch
         /\ preference.value = tabs[t].seen
<1>1. tabs[t] \in Tab /\ TabOK(tabs[t]) /\ tabs \in [Tabs -> Tab]
  BY DEF PreferenceInv, PreferenceTypeOK
<1>2. PICK tag \in Headers(t) : (tag = AnyMatch \/ MatchesTag(tag)) /\ tabs'[t].ifMatch = tag
  <2>1. CASE DeletePreference(t)
    <3>1. PICK tag \in Headers(t) : (tag = AnyMatch \/ MatchesTag(tag)) /\ Answer(t, tag, "ok")
      BY <2>1 DEF DeletePreference
    <3>2. tabs'[t] = [tabs[t] EXCEPT !.pc = "idle", !.ifMatch = tag, !.answer = "ok"]
      BY <1>1, <3>1 DEF Answer
    <3>3. tabs'[t].ifMatch = tag
      BY <1>1, <3>2 DEF Tab
    <3> QED
      BY <3>1, <3>3
  <2>2. ASSUME NEW value \in Values, SetPreference(t, value)
        PROVE  \E tag \in Headers(t) : (tag = AnyMatch \/ MatchesTag(tag)) /\ tabs'[t].ifMatch = tag
    <3>1. PICK tag \in Headers(t) :
            /\ tag = AnyMatch \/ MatchesTag(tag)
            /\ tabs' = [tabs EXCEPT ![t].tag = sets + 1, ![t].seen = value,
                                    ![t].ifMatch = tag, ![t].answer = "ok"]
      BY <2>2 DEF SetPreference
    <3>2. tabs'[t] = [tabs[t] EXCEPT !.tag = sets + 1, !.seen = value, !.ifMatch = tag, !.answer = "ok"]
      BY <1>1, <3>1
    <3>3. tabs'[t].ifMatch = tag
      BY <1>1, <3>2 DEF Tab
    <3> QED
      BY <3>1, <3>3
  <2> QED
    BY <2>1, <2>2
<1>3. tag = tabs[t].tag /\ MatchesTag(tag)
  BY <1>2 DEF Headers
<1> QED
  BY <1>1, <1>2, <1>3 DEF TabOK, MatchesTag

\* endpoints.rs:67 and 111: a set or delete with If-Match replaces what the tab has seen, and
\* is answered 412 only if the row it named is not there any more, for any number of tabs.
THEOREM NoPreferenceLost == PreferenceSpec => NoLostPreference
<1> DEFINE Kept(t) ==
      tabs'[t].ifMatch # AnyMatch =>
        /\ tabs'[t].answer = "ok" /\ tabs[t] # tabs'[t] /\ preference' # preference =>
             /\ preference # NoPreference
             /\ preference.revision = tabs'[t].ifMatch
             /\ preference.value = tabs[t].seen
        /\ tabs'[t].answer = "collision" /\ preference' # NoPreference =>
             preference'.revision # tabs'[t].ifMatch
<1>1. ASSUME PreferenceInv, PreferenceInv', PreferenceNext, NEW t \in Tabs PROVE Kept(t)
  <2>1. TabOK(tabs[t])'
    BY <1>1 DEF PreferenceInv
  <2>2. ASSUME tabs'[t].ifMatch # AnyMatch, tabs[t] # tabs'[t], preference' # preference
        PROVE  /\ preference # NoPreference
               /\ preference.revision = tabs'[t].ifMatch
               /\ preference.value = tabs[t].seen
    <3>1. PICK u \in Tabs : \/ GetPreference(u) \/ DeletePreference(u) \/ CountPreference(u)
                            \/ \E value \in Values : SetPreference(u, value)
      BY <1>1 DEF PreferenceNext
    <3>2. t = u
      BY <1>1, <2>2, <3>1, OtherTabs
    <3>3. DeletePreference(t) \/ \E value \in Values : SetPreference(t, value)
      BY <2>2, <3>1, <3>2 DEF GetPreference, CountPreference
    <3> QED
      BY <1>1, <2>2, <3>3, ReplacesSeen
  <2> QED
    BY <2>1, <2>2 DEF TabOK, MatchesTag
<1>2. PreferenceInv /\ PreferenceInv' /\ [PreferenceNext]_preferenceVars
        => [\A t \in Tabs : Kept(t)]_preferenceVars
  BY <1>1
<1> QED
  BY <1>2, PreferenceInvariance, PTL DEF NoLostPreference, PreferenceSpec

-----------------------------------------------------------------------------
(* What users attach to an SBOM.  The argument: a request owns the rows it *)
(* has locked, so that what it has read or removed of them still holds     *)
(* when it writes; and a revision that a client has read is not kept by    *)
(* what changes the groups of the row, except for groups that are deleted. *)

Transaction ==
  [pc : {"none", "remove", "insert", "cascade", "label"}, sboms : SUBSET SbomIds,
   group : SUBSET GroupIds, remove : SUBSET (GroupIds \cup Keys),
   add : SUBSET (GroupIds \cup Keys), labels : SUBSET Keys, expected : Nat,
   removed : SUBSET (SbomIds \X GroupIds)]

AssignTypeOK ==
  /\ sboms \in [SbomIds -> [revision : Nat \cup {-1}, labels : SUBSET Keys]]
  /\ groups \in [GroupIds -> {"unused", "row", "deleted"}]
  /\ assigned \subseteq SbomIds \X Live
  /\ known \in [Readers -> [sbom : SbomIds \cup {CHOOSE s \in SbomIds : TRUE}, tag : Nat,
                            groups : SUBSET GroupIds, pc : {"idle", "reading"}]]
  /\ trans \in [Editors -> Transaction]

\* A locked row belongs to one transaction.
Exclusive == \A d, e \in Editors : d # e => trans[d].sboms \cap trans[e].sboms = {}

\* What transaction x of e relies on
TransactionOK(e, x) ==
  /\ x.sboms \subseteq Rows
  /\ x.pc \in {"none", "cascade"} => x.sboms = {}
  /\ x.pc = "cascade" => x.group # {}
  /\ x.pc \in {"remove", "insert"} => x.remove \cup x.add \subseteq GroupIds
  /\ x.pc = "label" => x.remove \cup x.add \subseteq Keys
  /\ x.pc = "insert" => \A pair \in assigned :
       pair[1] \in x.sboms => (pair \in x.removed <=> pair[2] \in x.remove)
  /\ x.removed \subseteq x.sboms \X GroupIds
  /\ x.pc = "label" => \A s \in x.sboms : x.labels = Labelled(sboms[s].labels, x.remove, x.add)
  /\ x.expected # NoRevision =>
       /\ e \in Readers
       /\ x.pc \in {"remove", "insert"}
       /\ known[e].pc = "idle" /\ known[e].tag = x.expected
       /\ \A s \in x.sboms : s = known[e].sbom /\ sboms[s].revision = x.expected

\* The client has seen the groups of its SBOM, but for those that were deleted.
Seen(k) ==
  /\ GroupsOf(k.sbom, assigned) \subseteq k.groups
  /\ \A g \in k.groups : groups[g] = "row" => <<k.sbom, g>> \in assigned

KnowledgeOK(k) ==
  /\ k.pc = "reading" => k.tag # NoRevision
  /\ \A g \in k.groups : groups[g] # "unused"
  /\ k.tag # NoRevision =>
       /\ k.sbom \in SbomIds
       /\ sboms[k.sbom].revision # 0
       /\ k.sbom \in Rows => k.tag <= sboms[k.sbom].revision
       /\ k.pc = "idle" /\ sboms[k.sbom].revision = k.tag => Seen(k)

AssignInv ==
  /\ AssignTypeOK
  /\ Exclusive
  /\ \A e \in Editors : TransactionOK(e, trans[e])
  /\ \A e \in Readers : KnowledgeOK(known[e])

-----------------------------------------------------------------------------
LEMMA NoneOK ==
  /\ None \in Transaction
  /\ \A e \in Editors : TransactionOK(e, None)
BY DEF None, Transaction, TransactionOK, NoRevision

LEMMA AssignInitInv == AssignInit => AssignInv
<1> SUFFICES ASSUME AssignInit PROVE AssignInv
  OBVIOUS
<1>1. AssignTypeOK
  BY NoneOK DEF AssignInit, AssignTypeOK, Unborn, Dropped, NoRevision
<1>2. \A e \in Editors : trans[e] = None
  BY DEF AssignInit
<1>3. Exclusive
  BY <1>2 DEF Exclusive, None
<1>4. \A e \in Editors : TransactionOK(e, trans[e])
  BY <1>2, NoneOK
<1>5. \A e \in Readers : KnowledgeOK(known[e])
  BY DEF AssignInit, KnowledgeOK, NoRevision
<1> QED
  BY <1>1, <1>3, <1>4, <1>5 DEF AssignInv

\* What a step leaves alone that transaction x relies on: its rows, and what the client of a
\* request with If-Match has read.
Untouched(e, x) ==
  /\ \A s \in x.sboms : sboms'[s] = sboms[s]
  /\ \A pair \in assigned' : pair[1] \in x.sboms => pair \in assigned
  /\ x.expected # NoRevision => known'[e] = known[e]

LEMMA UntouchedOK ==
  ASSUME AssignTypeOK, NEW e, NEW x, TransactionOK(e, x), Untouched(e, x)
  PROVE  TransactionOK(e, x)'
<1>1. x.sboms \subseteq Rows'
  BY DEF TransactionOK, Untouched, Rows
<1> QED
  BY <1>1 DEF TransactionOK, Untouched

\* What becomes of the revision of an SBOM and of its groups in one step
Move(s) ==
  \/ /\ sboms'[s].revision = sboms[s].revision
     /\ sboms[s].revision > 0 =>
          /\ GroupsOf(s, assigned') \subseteq GroupsOf(s, assigned)
          /\ \A g \in GroupsOf(s, assigned) :
               groups'[g] = "row" => g \in GroupsOf(s, assigned')
  \/ sboms[s].revision >= 0 /\ sboms'[s].revision = sboms[s].revision + 1
  \/ sboms[s].revision > 0 /\ sboms'[s].revision = -1

GroupMove(g) == groups'[g] = groups[g] \/ groups[g] = "unused" \/ groups'[g] = "deleted"

LEMMA KnowledgeKept ==
  ASSUME AssignTypeOK, \A s \in SbomIds : Move(s), \A g \in GroupIds : GroupMove(g),
         NEW e \in Readers, KnowledgeOK(known[e]), known'[e] = known[e]
  PROVE  KnowledgeOK(known[e])'
<1> DEFINE k == known[e]
<1>1. k.tag \in Nat /\ k.groups \subseteq GroupIds
  BY DEF AssignTypeOK
<1>2. (k.pc = "reading" => k.tag # NoRevision) /\ (\A g \in k.groups : groups'[g] # "unused")
  BY <1>1 DEF KnowledgeOK, GroupMove, AssignTypeOK
<1>3. ASSUME k.tag # NoRevision
      PROVE  /\ k.sbom \in SbomIds
             /\ sboms'[k.sbom].revision # 0
             /\ k.sbom \in Rows' => k.tag <= sboms'[k.sbom].revision
             /\ k.pc = "idle" /\ sboms'[k.sbom].revision = k.tag => Seen(k)'
  <2>1. /\ k.sbom \in SbomIds /\ Move(k.sbom) /\ sboms[k.sbom].revision # 0
        /\ k.sbom \in Rows => k.tag <= sboms[k.sbom].revision
        /\ k.pc = "idle" /\ sboms[k.sbom].revision = k.tag => Seen(k)
    BY <1>3 DEF KnowledgeOK
  <2>2. sboms[k.sbom].revision \in Nat \cup {-1}
    BY <2>1 DEF AssignTypeOK
  <2>3. sboms'[k.sbom].revision # 0
    BY <2>1, <2>2 DEF Move
  <2>4. k.sbom \in Rows' => k.tag <= sboms'[k.sbom].revision
    BY <1>1, <2>1, <2>2 DEF Move, Rows
  <2>5. ASSUME k.pc = "idle", sboms'[k.sbom].revision = k.tag PROVE Seen(k)'
    <3>1. sboms'[k.sbom].revision > 0
      BY <1>1, <1>3, <2>5 DEF NoRevision
    <3>2. sboms'[k.sbom].revision = sboms[k.sbom].revision /\ sboms[k.sbom].revision = k.tag
      BY <1>1, <2>1, <2>2, <2>5, <3>1 DEF Move, Rows
    <3>3. /\ GroupsOf(k.sbom, assigned') \subseteq GroupsOf(k.sbom, assigned)
          /\ \A g \in GroupsOf(k.sbom, assigned) :
               groups'[g] = "row" => g \in GroupsOf(k.sbom, assigned')
      BY <2>1, <3>1, <3>2, <2>2 DEF Move
    <3>4. Seen(k)
      BY <2>1, <2>5, <3>2
    <3>5. GroupsOf(k.sbom, assigned') \subseteq k.groups
      BY <3>3, <3>4 DEF Seen
    <3>6. ASSUME NEW g \in k.groups, groups'[g] = "row" PROVE <<k.sbom, g>> \in assigned'
      <4>1. g \in GroupIds /\ groups[g] # "unused" /\ GroupMove(g)
        BY <1>1 DEF KnowledgeOK
      <4>2. groups[g] = "row"
        BY <3>6, <4>1 DEF GroupMove
      <4> QED
        BY <3>3, <3>4, <3>6, <4>1, <4>2 DEF Seen, GroupsOf
    <3> QED
      BY <3>5, <3>6 DEF Seen
  <2> QED
    BY <2>1, <2>3, <2>4, <2>5
<1> QED
  BY <1>2, <1>3 DEF KnowledgeOK

\* A step of e, whose transaction becomes x
LEMMA TransactionStep ==
  ASSUME AssignInv, AssignTypeOK', NEW e \in Editors, NEW x, trans' = [trans EXCEPT ![e] = x],
         TransactionOK(e, x)', known' = known,
         \A d \in Editors \ {e} : /\ x.sboms \cap trans[d].sboms = {}
                                  /\ Untouched(d, trans[d]),
         \A s \in SbomIds : Move(s), \A g \in GroupIds : GroupMove(g)
  PROVE  AssignInv'
<1>1. \A d \in Editors : trans'[d] = IF d = e THEN x ELSE trans[d]
  BY DEF AssignInv, AssignTypeOK
<1>2. Exclusive'
  BY <1>1 DEF AssignInv, Exclusive
<1>3. ASSUME NEW d \in Editors PROVE TransactionOK(d, trans[d])'
  <2>1. CASE d = e
    BY <1>1, <2>1 DEF TransactionOK
  <2>2. CASE d # e
    <3>1. PICK y : y = trans[d] /\ TransactionOK(d, y) /\ Untouched(d, y)
      BY <2>2 DEF AssignInv
    <3>2. TransactionOK(d, y)'
      BY <3>1, UntouchedOK DEF AssignInv
    <3>3. trans'[d] = y
      BY <1>1, <2>2, <3>1
    <3> QED
      BY <3>2, <3>3 DEF TransactionOK
  <2> QED
    BY <2>1, <2>2
<1>4. \A d \in Readers : KnowledgeOK(known[d])'
  BY KnowledgeKept DEF AssignInv
<1> QED
  BY <1>2, <1>3, <1>4 DEF AssignInv

\* The client of e reads: no more than its knowledge changes, to k.
LEMMA ReadStep ==
  ASSUME AssignInv, NEW e \in Readers, NEW k, AssignTypeOK', KnowledgeOK(k),
         known' = [known EXCEPT ![e] = k], trans[e].expected = NoRevision \/ known[e].pc # "idle",
         UNCHANGED <<sboms, groups, assigned, trans>>
  PROVE  AssignInv'
<1>1. \A d \in Readers : known'[d] = IF d = e THEN k ELSE known[d]
  BY DEF AssignInv, AssignTypeOK
<1>2. Exclusive'
  BY DEF AssignInv, Exclusive
<1>3. \A d \in Editors : TransactionOK(d, trans[d])'
  BY <1>1 DEF AssignInv, TransactionOK, Rows
<1>4. \A d \in Readers : KnowledgeOK(known[d])'
  BY <1>1 DEF AssignInv, KnowledgeOK, Rows, Seen
<1> QED
  BY <1>2, <1>3, <1>4 DEF AssignInv

-----------------------------------------------------------------------------
(* The actions. *)

\* A statement that changes nothing but the transaction of e
LEMMA StatementStep ==
  ASSUME AssignInv, NEW e \in Editors, NEW x \in Transaction, TransactionOK(e, x),
         trans' = [trans EXCEPT ![e] = x], UNCHANGED <<sboms, groups, assigned, known>>,
         \A d \in Editors \ {e} : x.sboms \cap trans[d].sboms = {}
  PROVE  AssignInv'
<1>1. AssignTypeOK'
  BY DEF AssignInv, AssignTypeOK, Live
<1>2. \A s \in SbomIds : Move(s)
  BY DEF Move
<1>3. \A g \in GroupIds : GroupMove(g)
  BY DEF GroupMove
<1>4. \A d \in Editors : Untouched(d, trans[d])
  BY DEF Untouched
<1>5. TransactionOK(e, x)'
  BY DEF TransactionOK, Rows
<1> QED
  BY <1>1, <1>2, <1>3, <1>4, <1>5, TransactionStep

LEMMA RollbackInv ==
  ASSUME AssignInv, NEW e \in Editors, Rollback(e)
  PROVE  AssignInv'
BY NoneOK, StatementStep DEF Rollback, None

LEMMA BumpInv ==
  ASSUME AssignInv, NEW e \in Editors, NEW S, NEW remove \in SUBSET GroupIds,
         NEW add \in SUBSET GroupIds, NEW expected \in Nat, Bump(e, S, remove, add, expected),
         expected # NoRevision => /\ e \in Readers /\ S = {known[e].sbom}
                                  /\ known[e].pc = "idle" /\ known[e].tag = expected
  PROVE  AssignInv'
<1>1. PICK x : x = [None EXCEPT !.pc = "remove", !.sboms = S, !.remove = remove, !.add = add,
                                !.expected = expected]
  OBVIOUS
<1>2. x = [pc |-> "remove", sboms |-> S, group |-> {}, remove |-> remove, add |-> add,
           labels |-> {}, expected |-> expected, removed |-> {}]
  BY <1>1 DEF None
<1>3. x \in Transaction
  BY <1>2 DEF Transaction, Bump, Rows
<1>4. TransactionOK(e, x)
  BY <1>2 DEF TransactionOK, Bump
<1>5. \A d \in Editors \ {e} : x.sboms \cap trans[d].sboms = {}
  BY <1>2 DEF Bump, Unlocked
<1> QED
  BY <1>1, <1>3, <1>4, <1>5, StatementStep DEF Bump

LEMMA AssignUpdateInv ==
  ASSUME AssignInv, NEW e \in Editors,
         UpdateAssignments(e) \/ BulkUpdateAssignments(e) \/ PatchAssignments(e)
  PROVE  AssignInv'
<1> USE DEF Live
<1>1. ASSUME NEW s \in SbomIds, NEW add \in SUBSET Live,
             Bump(e, {s}, GroupIds, add, NoRevision)
      PROVE  AssignInv'
  BY <1>1, BumpInv DEF NoRevision
<1>2. ASSUME NEW s \in SbomIds, NEW add \in SUBSET Live, e \in Readers, known[e].sbom = s,
             known[e].pc = "idle", Bump(e, {s}, GroupIds, add, known[e].tag)
      PROVE  AssignInv'
  <2>1. PICK tag \in Nat : tag = known[e].tag
    BY <1>2 DEF AssignInv, AssignTypeOK
  <2> QED
    BY <1>2, <2>1, BumpInv
<1>3. CASE BulkUpdateAssignments(e)
  <2>1. PICK add \in SUBSET Live : Bump(e, SbomIds, GroupIds, add, NoRevision)
    BY <1>3 DEF BulkUpdateAssignments
  <2> QED
    BY <2>1, BumpInv DEF NoRevision
<1>4. CASE PatchAssignments(e)
  <2>1. PICK S \in SUBSET SbomIds, remove, add \in AtMostOne(Live) :
          Bump(e, S, remove, add, NoRevision)
    BY <1>4 DEF PatchAssignments
  <2>2. remove \in SUBSET GroupIds /\ add \in SUBSET GroupIds
    BY <2>1 DEF AtMostOne
  <2> QED
    BY <2>1, <2>2, BumpInv DEF NoRevision
<1> QED
  BY <1>1, <1>2, <1>3, <1>4 DEF UpdateAssignments

LEMMA RemoveInv ==
  ASSUME AssignInv, NEW e \in Editors, Remove(e)
  PROVE  AssignInv'
<1>1. PICK rows : rows = {pair \in assigned : pair[1] \in trans[e].sboms /\ pair[2] \in trans[e].remove}
  OBVIOUS
<1>2. PICK x : x = [trans[e] EXCEPT !.pc = "insert", !.removed = rows]
  OBVIOUS
<1>3. trans[e] \in Transaction /\ TransactionOK(e, trans[e]) /\ trans[e].pc = "remove"
  BY DEF AssignInv, AssignTypeOK, Remove
<1>4. rows \subseteq SbomIds \X GroupIds /\ rows \subseteq trans[e].sboms \X GroupIds
  BY <1>1 DEF AssignInv, AssignTypeOK, Live
<1>5. x \in Transaction
  BY <1>2, <1>3, <1>4 DEF Transaction
<1>6. /\ x.pc = "insert" /\ x.removed = rows /\ x.sboms = trans[e].sboms
      /\ x.remove = trans[e].remove /\ x.add = trans[e].add /\ x.expected = trans[e].expected
  BY <1>2, <1>3 DEF Transaction
<1>7. TransactionOK(e, x)
  BY <1>1, <1>3, <1>4, <1>6 DEF TransactionOK
<1>8. \A d \in Editors \ {e} : x.sboms \cap trans[d].sboms = {}
  BY <1>6 DEF AssignInv, Exclusive
<1>9. trans' = [trans EXCEPT ![e] = x] /\ UNCHANGED <<sboms, groups, assigned, known>>
  <2>1. trans' = [trans EXCEPT ![e].pc = "insert", ![e].removed = rows]
    BY <1>1 DEF Remove
  <2>2. [trans EXCEPT ![e].pc = "insert", ![e].removed = rows] = [trans EXCEPT ![e] = x]
    BY <1>2 DEF AssignInv, AssignTypeOK
  <2> QED
    BY <2>1, <2>2 DEF Remove
<1> QED
  BY <1>5, <1>7, <1>8, <1>9, StatementStep

\* A new revision for the rows of S: they stay rows, and no other row changes.
LEMMA RenewRows ==
  ASSUME AssignTypeOK, NEW S, NEW labels, Renew(S, labels),
         \A s \in S : sboms[s].revision >= 0 /\ labels[s] \subseteq Keys
  PROVE  /\ sboms' \in [SbomIds -> [revision : Nat \cup {-1}, labels : SUBSET Keys]]
         /\ \A s \in SbomIds \ S : sboms'[s] = sboms[s]
         /\ \A s \in SbomIds \cap S : /\ sboms'[s].revision = sboms[s].revision + 1
                                      /\ sboms'[s].labels = labels[s]
                                      /\ Move(s)
<1>1. \A s \in SbomIds : sboms[s] \in [revision : Nat \cup {-1}, labels : SUBSET Keys]
  BY DEF AssignTypeOK
<1>2. \A s \in SbomIds : sboms'[s] =
        IF s \in S THEN [revision |-> sboms[s].revision + 1, labels |-> labels[s]] ELSE sboms[s]
  BY DEF Renew
<1>3. ASSUME NEW s \in SbomIds \cap S
      PROVE  /\ sboms'[s].revision = sboms[s].revision + 1
             /\ sboms'[s].labels = labels[s]
             /\ sboms[s].revision \in Nat /\ sboms[s].revision >= 0
             /\ sboms'[s] \in [revision : Nat \cup {-1}, labels : SUBSET Keys]
  <2>1. sboms[s].revision \in Nat /\ labels[s] \subseteq Keys
    <3>1. sboms[s].revision \in Nat \cup {-1}
      BY <1>1
    <3> QED
      BY <3>1
  <2>2. sboms'[s] = [revision |-> sboms[s].revision + 1, labels |-> labels[s]]
    BY <1>2
  <2>3. sboms[s].revision + 1 \in Nat \cup {-1}
    BY <2>1
  <2> QED
    BY <2>1, <2>2, <2>3
<1>4. ASSUME NEW s \in SbomIds
      PROVE  sboms'[s] \in [revision : Nat \cup {-1}, labels : SUBSET Keys]
  <2>1. CASE s \in S
    BY <1>3, <2>1
  <2>2. CASE s \notin S
    BY <1>1, <1>2, <2>2
  <2> QED
    BY <2>1, <2>2
<1>5. sboms' \in [SbomIds -> [revision : Nat \cup {-1}, labels : SUBSET Keys]]
  BY <1>4 DEF Renew
<1> QED
  BY <1>2, <1>3, <1>5 DEF Move

\* A step of e that leaves its transaction alone or ends it
LEMMA WriteStep ==
  ASSUME AssignInv, AssignTypeOK', NEW e \in Editors,
         trans' = [trans EXCEPT ![e] = None] \/ (trans[e].pc = "none" /\ trans' = trans),
         known' = known,
         \A d \in Editors \ {e} : Untouched(d, trans[d]),
         \A s \in SbomIds : Move(s), \A g \in GroupIds : GroupMove(g)
  PROVE  AssignInv'
<1>1. CASE trans' = [trans EXCEPT ![e] = None]
  <2>1. PICK x : x = None
    OBVIOUS
  <2>2. TransactionOK(e, x)'
    BY <2>1 DEF None, TransactionOK, NoRevision
  <2>3. \A d \in Editors \ {e} : x.sboms \cap trans[d].sboms = {}
    BY <2>1 DEF None
  <2> QED
    BY <1>1, <2>1, <2>2, <2>3, TransactionStep
<1>2. CASE trans[e].pc = "none" /\ trans' = trans
  <2>1. PICK x : x = trans[e]
    OBVIOUS
  <2>2. /\ x \in Transaction /\ x.pc = "none" /\ TransactionOK(e, x)
        /\ trans' = [trans EXCEPT ![e] = x]
    BY <1>2, <2>1 DEF AssignInv, AssignTypeOK
  <2>3. x.sboms = {} /\ x.removed = {}
    BY <2>2 DEF TransactionOK
  <2>4. x.expected = NoRevision
    BY <2>2 DEF TransactionOK
  <2>5. TransactionOK(e, x)'
    BY <2>2, <2>3, <2>4 DEF TransactionOK
  <2> QED
    BY <2>2, <2>3, <2>5, TransactionStep
<1> QED
  BY <1>1, <1>2

LEMMA InsertInv ==
  ASSUME AssignInv, NEW e \in Editors, Insert(e)
  PROVE  AssignInv'
<1> DEFINE x == trans[e]
           new == (x.sboms \X x.add) \ (assigned \ x.removed)
<1>1. /\ x \in Transaction /\ TransactionOK(e, x) /\ x.pc = "insert"
      /\ AssignTypeOK /\ trans' = [trans EXCEPT ![e] = None] /\ known' = known /\ groups' = groups
      /\ Renew(x.sboms, [s \in SbomIds |-> sboms[s].labels])
      /\ assigned' = (assigned \ x.removed) \cup new
      /\ \A pair \in new : Referable(pair[2], e)
  BY DEF AssignInv, AssignTypeOK, Insert
<1>2. x.sboms \subseteq SbomIds /\ x.add \subseteq GroupIds /\ x.sboms \subseteq Rows
      /\ x.removed \subseteq x.sboms \X GroupIds
  BY <1>1 DEF Transaction, TransactionOK
<1> HIDE DEF x
<1>3. \A s \in x.sboms : sboms[s].revision >= 0 /\ [t \in SbomIds |-> sboms[t].labels][s] \subseteq Keys
  <2> SUFFICES ASSUME NEW s \in x.sboms
               PROVE  sboms[s].revision >= 0 /\ [t \in SbomIds |-> sboms[t].labels][s] \subseteq Keys
    OBVIOUS
  <2>1. s \in SbomIds /\ sboms[s].revision > 0
    BY <1>2 DEF Rows
  <2>2. sboms[s].revision \in Nat \cup {-1} /\ sboms[s].labels \subseteq Keys
    BY <1>1, <2>1 DEF AssignTypeOK
  <2> QED
    BY <2>1, <2>2
<1>4. /\ sboms' \in [SbomIds -> [revision : Nat \cup {-1}, labels : SUBSET Keys]]
      /\ \A s \in SbomIds \ x.sboms : sboms'[s] = sboms[s]
      /\ \A s \in SbomIds \cap x.sboms : Move(s)
  BY <1>1, <1>3, RenewRows
<1>5. \A s \in SbomIds \ x.sboms : GroupsOf(s, assigned') = GroupsOf(s, assigned)
  BY <1>1, <1>2 DEF GroupsOf
<1>6. \A s \in SbomIds : Move(s)
  BY <1>4, <1>5 DEF Move
<1>7. AssignTypeOK'
  <2>1. new \subseteq SbomIds \X Live
    BY <1>1, <1>2 DEF Referable, Live
  <2>2. assigned' \subseteq SbomIds \X Live'
    BY <1>1, <2>1 DEF AssignTypeOK, Live
  <2>3. trans' \in [Editors -> Transaction]
    BY <1>1, NoneOK DEF AssignTypeOK
  <2> QED
    BY <1>1, <1>4, <2>2, <2>3 DEF AssignTypeOK
<1>8. ASSUME NEW d \in Editors \ {e} PROVE Untouched(d, trans[d])
  <2>1. trans[d].sboms \cap x.sboms = {} /\ trans[d].sboms \subseteq SbomIds
    BY DEF AssignInv, Exclusive, x, AssignTypeOK, Transaction
  <2> QED
    BY <1>1, <1>4, <2>1 DEF Untouched
<1>9. \A g \in GroupIds : GroupMove(g)
  BY <1>1 DEF GroupMove
<1> QED
  BY <1>1, <1>6, <1>7, <1>8, <1>9, WriteStep

LEMMA ReadRevisionInv ==
  ASSUME AssignInv, NEW e \in Readers, NEW s \in SbomIds, ReadRevision(e, s)
  PROVE  AssignInv'
<1> USE ReadersAssumption
<1>1. PICK k : k = [sbom |-> s, tag |-> sboms[s].revision, groups |-> {}, pc |-> "reading"]
  OBVIOUS
<1>2. sboms[s].revision \in Nat /\ sboms[s].revision > 0 /\ s \in Rows
  <2>1. sboms[s].revision \in Nat \cup {-1}
    BY DEF AssignInv, AssignTypeOK
  <2> QED
    BY <2>1 DEF ReadRevision, Rows
<1>3. KnowledgeOK(k)
  BY <1>1, <1>2 DEF KnowledgeOK, NoRevision
<1>4. trans[e].expected = NoRevision
  BY DEF ReadRevision, AssignInv, TransactionOK
<1>5. AssignTypeOK'
  BY <1>2 DEF ReadRevision, AssignInv, AssignTypeOK, Live
<1> QED
  BY <1>1, <1>3, <1>4, <1>5, ReadStep DEF ReadRevision

LEMMA ReadGroupsInv ==
  ASSUME AssignInv, NEW e \in Readers, ReadGroups(e)
  PROVE  AssignInv'
<1>1. PICK k : k = [known[e] EXCEPT !.groups = GroupsOf(known[e].sbom, assigned), !.pc = "idle"]
  OBVIOUS
<1>2. /\ KnowledgeOK(known[e]) /\ known[e].pc = "reading" /\ AssignTypeOK
      /\ known[e] \in [sbom : SbomIds \cup {CHOOSE s \in SbomIds : TRUE}, tag : Nat,
                       groups : SUBSET GroupIds, pc : {"idle", "reading"}]
  BY DEF ReadGroups, AssignInv, AssignTypeOK
<1>3. /\ k.sbom = known[e].sbom /\ k.tag = known[e].tag /\ k.pc = "idle"
      /\ k.groups = GroupsOf(k.sbom, assigned)
  BY <1>1, <1>2
<1>4. k \in [sbom : SbomIds \cup {CHOOSE s \in SbomIds : TRUE}, tag : Nat,
             groups : SUBSET GroupIds, pc : {"idle", "reading"}]
  BY <1>1, <1>2 DEF GroupsOf
<1>5. \A g \in k.groups : <<k.sbom, g>> \in assigned /\ groups[g] # "unused"
  BY <1>2, <1>3 DEF GroupsOf, AssignTypeOK, Live
<1>6. KnowledgeOK(k)
  BY <1>2, <1>3, <1>5 DEF KnowledgeOK, Seen
<1>7. known' = [known EXCEPT ![e] = k]
  BY <1>1, <1>2 DEF ReadGroups, AssignTypeOK
<1>8. AssignTypeOK'
  BY <1>2, <1>4, <1>7 DEF ReadGroups, AssignTypeOK, Live
<1> QED
  BY <1>2, <1>6, <1>7, <1>8, ReadStep DEF ReadGroups

LEMMA CreateGroupInv ==
  ASSUME AssignInv, NEW g \in GroupIds, CreateGroup(g)
  PROVE  AssignInv'
<1>1. AssignTypeOK'
  BY DEF AssignInv, AssignTypeOK, CreateGroup, Live
<1>2. \A h \in GroupIds : GroupMove(h)
  BY DEF AssignInv, AssignTypeOK, CreateGroup, GroupMove
<1>3. \A s \in SbomIds : Move(s)
  <2>1. \A pair \in assigned : groups[pair[2]] = "row" /\ pair[2] \in GroupIds
    BY DEF AssignInv, AssignTypeOK, Live
  <2> QED
    BY <2>1 DEF CreateGroup, Move
<1>4. Exclusive'
  BY DEF AssignInv, Exclusive, CreateGroup
<1>5. \A e \in Editors : TransactionOK(e, trans[e])'
  BY DEF AssignInv, TransactionOK, CreateGroup, Rows
<1>6. \A e \in Readers : KnowledgeOK(known[e])'
  BY <1>2, <1>3, KnowledgeKept DEF AssignInv, CreateGroup
<1> QED
  BY <1>1, <1>4, <1>5, <1>6 DEF AssignInv

LEMMA DeleteGroupInv ==
  ASSUME AssignInv, NEW e \in Editors, NEW g \in GroupIds, DeleteGroup(e, g)
  PROVE  AssignInv'
<1>1. PICK x : x = [None EXCEPT !.pc = "cascade", !.group = {g}]
  OBVIOUS
<1>2. x = [pc |-> "cascade", sboms |-> {}, group |-> {g}, remove |-> {}, add |-> {},
           labels |-> {}, expected |-> NoRevision, removed |-> {}]
  BY <1>1 DEF None
<1>3. x \in Transaction /\ TransactionOK(e, x) /\ x.sboms = {}
  BY <1>2 DEF Transaction, TransactionOK, NoRevision
<1> QED
  BY <1>1, <1>3, StatementStep DEF DeleteGroup

LEMMA CascadeInv ==
  ASSUME AssignInv, NEW e \in Editors, Cascade(e)
  PROVE  AssignInv'
<1> DEFINE gone == trans[e].group
<1>1. /\ trans[e] \in Transaction /\ gone \subseteq GroupIds /\ AssignTypeOK
      /\ trans' = [trans EXCEPT ![e] = None] /\ known' = known /\ sboms' = sboms
  BY DEF AssignInv, AssignTypeOK, Transaction, Cascade
<1>2. PICK g \in gone : TRUE
  BY DEF AssignInv, TransactionOK, Cascade
<1>3. /\ g \in GroupIds /\ groups' = [groups EXCEPT ![g] = "deleted"]
      /\ assigned' = {pair \in assigned : pair[2] # g}
  BY <1>1, <1>2 DEF Cascade
<1>4. AssignTypeOK'
  <2>1. trans' \in [Editors -> Transaction]
    BY <1>1, NoneOK DEF AssignTypeOK
  <2>2. groups' \in [GroupIds -> {"unused", "row", "deleted"}]
    BY <1>1, <1>3 DEF AssignTypeOK
  <2>3. assigned' \subseteq SbomIds \X Live'
    BY <1>1, <1>3 DEF AssignTypeOK, Live
  <2> QED
    BY <1>1, <2>1, <2>2, <2>3 DEF AssignTypeOK
<1>5. \A h \in GroupIds : GroupMove(h)
  BY <1>1, <1>3 DEF AssignTypeOK, GroupMove
<1>6. \A s \in SbomIds : Move(s)
  BY <1>1, <1>3 DEF AssignTypeOK, Move, GroupsOf
<1>7. \A d \in Editors : Untouched(d, trans[d])
  BY <1>1, <1>3 DEF Untouched
<1> QED
  BY <1>1, <1>4, <1>5, <1>6, <1>7, WriteStep

LEMMA UploadInv ==
  ASSUME AssignInv, NEW e \in Editors, NEW s \in SbomIds, Upload(e, s)
  PROVE  AssignInv'
<1>1. PICK add \in SUBSET Live : /\ \A g \in add : Referable(g, e)
                                 /\ assigned' = assigned \cup ({s} \X add)
  BY DEF Upload
<1>2. /\ trans[e].pc = "none" /\ trans' = trans /\ known' = known /\ groups' = groups
      /\ sboms[s] = Unborn /\ Renew({s}, [t \in SbomIds |-> {}]) /\ AssignTypeOK
  BY DEF Upload, AssignInv
<1>3. /\ sboms' \in [SbomIds -> [revision : Nat \cup {-1}, labels : SUBSET Keys]]
      /\ \A t \in SbomIds \ {s} : sboms'[t] = sboms[t]
      /\ Move(s)
  BY <1>2, RenewRows DEF Unborn
<1>4. AssignTypeOK'
  BY <1>1, <1>2, <1>3 DEF AssignTypeOK, Live
<1>5. \A t \in SbomIds : Move(t)
  <2> SUFFICES ASSUME NEW t \in SbomIds \ {s} PROVE Move(t)
    BY <1>3
  <2>1. GroupsOf(t, assigned') = GroupsOf(t, assigned)
    BY <1>1 DEF GroupsOf
  <2> QED
    BY <1>3, <2>1 DEF Move
<1>6. ASSUME NEW d \in Editors PROVE Untouched(d, trans[d])
  <2>1. s \notin trans[d].sboms /\ trans[d].sboms \subseteq SbomIds
    BY <1>2 DEF AssignInv, TransactionOK, Rows, Unborn
  <2> QED
    BY <1>1, <1>2, <1>3, <2>1 DEF Untouched
<1>7. \A g \in GroupIds : GroupMove(g)
  BY <1>2 DEF GroupMove
<1> QED
  BY <1>2, <1>4, <1>5, <1>6, <1>7, WriteStep

LEMMA DeleteSbomInv ==
  ASSUME AssignInv, NEW e \in Editors, NEW s \in SbomIds, DeleteSbom(e, s)
  PROVE  AssignInv'
<1>1. /\ trans[e].pc = "none" /\ trans' = trans /\ known' = known /\ groups' = groups
      /\ sboms' = [sboms EXCEPT ![s] = IF s \in Rows THEN Dropped ELSE @]
      /\ assigned' = {pair \in assigned : pair[1] # s} /\ AssignTypeOK
      /\ \A d \in Editors \ {e} : s \notin trans[d].sboms /\ trans[d].sboms \subseteq SbomIds
  BY DEF DeleteSbom, AssignInv, Unlocked, AssignTypeOK, Transaction
<1>2. /\ \A t \in SbomIds \ {s} : sboms'[t] = sboms[t]
      /\ sboms'[s] = IF s \in Rows THEN Dropped ELSE sboms[s]
  BY <1>1 DEF AssignTypeOK
<1>3. AssignTypeOK'
  <2>1. \A t \in SbomIds : sboms'[t] \in [revision : Nat \cup {-1}, labels : SUBSET Keys]
    BY <1>1, <1>2 DEF AssignTypeOK, Dropped
  <2>2. sboms' \in [SbomIds -> [revision : Nat \cup {-1}, labels : SUBSET Keys]]
    BY <1>1, <2>1 DEF AssignTypeOK
  <2> QED
    BY <1>1, <2>2 DEF AssignTypeOK, Live
<1>4. \A t \in SbomIds : Move(t)
  <2> SUFFICES ASSUME NEW t \in SbomIds PROVE Move(t)
    OBVIOUS
  <2>1. CASE t = s
    BY <1>2, <2>1 DEF Move, Rows, Dropped
  <2>2. CASE t # s
    <3>1. GroupsOf(t, assigned') = GroupsOf(t, assigned)
      BY <1>1, <2>2 DEF GroupsOf
    <3> QED
      BY <1>2, <2>2, <3>1 DEF Move
  <2> QED
    BY <2>1, <2>2
<1>5. \A d \in Editors \ {e} : Untouched(d, trans[d])
  BY <1>1, <1>2 DEF Untouched
<1>6. \A g \in GroupIds : GroupMove(g)
  BY <1>1 DEF GroupMove
<1> QED
  BY <1>1, <1>3, <1>4, <1>5, <1>6, WriteStep

LEMMA SetLabelsInv ==
  ASSUME AssignInv, NEW e \in Editors, NEW s \in SbomIds, SetLabels(e, s)
  PROVE  AssignInv'
<1>1. PICK labels \in SUBSET Keys : sboms' = [sboms EXCEPT ![s].labels = labels]
  BY DEF SetLabels
<1>2. /\ trans[e].pc = "none" /\ UNCHANGED <<groups, assigned, known, trans>> /\ AssignTypeOK
      /\ \A d \in Editors \ {e} : s \notin trans[d].sboms /\ trans[d].sboms \subseteq SbomIds
  BY DEF SetLabels, AssignInv, Unlocked, AssignTypeOK, Transaction
<1>3. \A t \in SbomIds : sboms'[t] = IF t = s THEN [sboms[t] EXCEPT !.labels = labels] ELSE sboms[t]
  BY <1>1, <1>2 DEF AssignTypeOK
<1>4. \A t \in SbomIds : /\ sboms'[t] \in [revision : Nat \cup {-1}, labels : SUBSET Keys]
                         /\ sboms'[t].revision = sboms[t].revision
  BY <1>2, <1>3 DEF AssignTypeOK
<1>5. AssignTypeOK'
  <2>1. sboms' \in [SbomIds -> [revision : Nat \cup {-1}, labels : SUBSET Keys]]
    BY <1>1, <1>2, <1>4 DEF AssignTypeOK
  <2> QED
    BY <1>2, <2>1 DEF AssignTypeOK, Live
<1>6. \A t \in SbomIds : Move(t)
  BY <1>2, <1>4 DEF Move
<1>7. \A d \in Editors \ {e} : Untouched(d, trans[d])
  BY <1>2, <1>3 DEF Untouched
<1>8. \A g \in GroupIds : GroupMove(g)
  BY <1>2 DEF GroupMove
<1> QED
  BY <1>2, <1>5, <1>6, <1>7, <1>8, WriteStep

LEMMA SelectLabelsInv ==
  ASSUME AssignInv, NEW e \in Editors, NEW s \in SbomIds, SelectLabels(e, s)
  PROVE  AssignInv'
<1>1. PICK remove, add \in AtMostOne(Keys) :
        trans' = [trans EXCEPT ![e] =
          [None EXCEPT !.pc = "label", !.sboms = {s}, !.remove = remove, !.add = add,
                       !.labels = Labelled(sboms[s].labels, remove, add)]]
  BY DEF SelectLabels
<1>2. PICK x : x = [None EXCEPT !.pc = "label", !.sboms = {s}, !.remove = remove, !.add = add,
                                !.labels = Labelled(sboms[s].labels, remove, add)]
  OBVIOUS
<1>3. x = [pc |-> "label", sboms |-> {s}, group |-> {}, remove |-> remove, add |-> add,
           labels |-> Labelled(sboms[s].labels, remove, add), expected |-> NoRevision,
           removed |-> {}]
  BY <1>2 DEF None
<1>4. remove \subseteq Keys /\ add \subseteq Keys /\ sboms[s].labels \subseteq Keys
  BY DEF AtMostOne, AssignInv, AssignTypeOK
<1>5. Labelled(sboms[s].labels, remove, add) \subseteq Keys
  BY <1>4 DEF Labelled
<1>6. x \in Transaction
  BY <1>3, <1>4, <1>5 DEF Transaction, NoRevision
<1>7. TransactionOK(e, x)
  BY <1>3, <1>4 DEF TransactionOK, SelectLabels
<1>8. \A d \in Editors \ {e} : x.sboms \cap trans[d].sboms = {}
  BY <1>3 DEF SelectLabels, Unlocked
<1> QED
  BY <1>1, <1>2, <1>6, <1>7, <1>8, StatementStep DEF SelectLabels

LEMMA UpdateLabelsInv ==
  ASSUME AssignInv, NEW e \in Editors, UpdateLabels(e)
  PROVE  AssignInv'
<1>1. /\ trans[e] \in Transaction /\ TransactionOK(e, trans[e]) /\ AssignTypeOK
      /\ trans' = [trans EXCEPT ![e] = None] /\ UNCHANGED <<groups, assigned, known>>
      /\ Renew(trans[e].sboms, [s \in SbomIds |-> trans[e].labels])
  BY DEF AssignInv, AssignTypeOK, UpdateLabels
<1>2. \A s \in trans[e].sboms : /\ s \in SbomIds /\ sboms[s].revision >= 0
                                /\ [t \in SbomIds |-> trans[e].labels][s] \subseteq Keys
  <2>1. \A s \in trans[e].sboms : s \in SbomIds /\ sboms[s].revision > 0
    BY <1>1 DEF TransactionOK, Rows
  <2>2. \A s \in SbomIds : sboms[s].revision \in Nat \cup {-1}
    BY <1>1 DEF AssignTypeOK
  <2> QED
    BY <1>1, <2>1, <2>2 DEF Transaction
<1>3. /\ sboms' \in [SbomIds -> [revision : Nat \cup {-1}, labels : SUBSET Keys]]
      /\ \A s \in SbomIds \ trans[e].sboms : sboms'[s] = sboms[s]
      /\ \A s \in SbomIds \cap trans[e].sboms : Move(s)
  BY <1>1, <1>2, RenewRows
<1>4. AssignTypeOK'
  BY <1>1, <1>3, NoneOK DEF AssignTypeOK, Live
<1>5. \A s \in SbomIds : Move(s)
  BY <1>1, <1>3 DEF Move
<1>6. ASSUME NEW d \in Editors \ {e} PROVE Untouched(d, trans[d])
  <2>1. trans[d].sboms \cap trans[e].sboms = {} /\ trans[d].sboms \subseteq SbomIds
    BY DEF AssignInv, Exclusive, AssignTypeOK, Transaction
  <2> QED
    BY <1>1, <1>3, <2>1 DEF Untouched
<1>7. \A g \in GroupIds : GroupMove(g)
  BY <1>1 DEF GroupMove
<1> QED
  BY <1>1, <1>4, <1>5, <1>6, <1>7, WriteStep

LEMMA AssignNextInv == AssignInv /\ [AssignNext]_assignVars => AssignInv'
<1> SUFFICES ASSUME AssignInv, [AssignNext]_assignVars PROVE AssignInv'
  OBVIOUS
<1>1. CASE UNCHANGED assignVars
  <2>1. AssignTypeOK'
    BY <1>1 DEF assignVars, AssignInv, AssignTypeOK, Live
  <2>2. Exclusive' /\ \A e \in Editors : TransactionOK(e, trans[e])'
    BY <1>1 DEF assignVars, AssignInv, Exclusive, TransactionOK, Rows
  <2>3. \A e \in Readers : KnowledgeOK(known[e])'
    BY <1>1 DEF assignVars, AssignInv, KnowledgeOK, Rows, Seen
  <2> QED
    BY <2>1, <2>2, <2>3 DEF AssignInv
<1>2. ASSUME NEW g \in GroupIds, CreateGroup(g) PROVE AssignInv'
  BY <1>2, CreateGroupInv
<1>3. ASSUME NEW e \in Editors,
             \/ UpdateAssignments(e) \/ BulkUpdateAssignments(e) \/ PatchAssignments(e)
             \/ Remove(e) \/ Insert(e) \/ Rollback(e) \/ Cascade(e) \/ UpdateLabels(e)
      PROVE  AssignInv'
  BY <1>3, AssignUpdateInv, RemoveInv, InsertInv, RollbackInv, CascadeInv, UpdateLabelsInv
<1>4. ASSUME NEW e \in Editors, NEW g \in GroupIds, DeleteGroup(e, g) PROVE AssignInv'
  BY <1>4, DeleteGroupInv
<1>5. ASSUME NEW e \in Editors, NEW s \in SbomIds,
             Upload(e, s) \/ DeleteSbom(e, s) \/ SetLabels(e, s) \/ SelectLabels(e, s)
      PROVE  AssignInv'
  BY <1>5, UploadInv, DeleteSbomInv, SetLabelsInv, SelectLabelsInv
<1>6. ASSUME NEW e \in Readers, ReadGroups(e) \/ \E s \in SbomIds : ReadRevision(e, s)
      PROVE  AssignInv'
  BY <1>6, ReadGroupsInv, ReadRevisionInv
<1> QED
  BY <1>1, <1>2, <1>3, <1>4, <1>5, <1>6 DEF AssignNext

THEOREM AssignInvariance == AssignSpec => []AssignInv
BY AssignInitInv, AssignNextInv, PTL DEF AssignSpec

-----------------------------------------------------------------------------
LEMMA InsertWhole ==
  ASSUME AssignInv, NEW e \in Editors, Insert(e)
  PROVE  LET old == {pair \in assigned : pair[1] \in trans[e].sboms /\ pair[2] \notin trans[e].remove}
             new == trans[e].sboms \X trans[e].add
         IN  {pair \in assigned' : pair[1] \in trans[e].sboms} = old \cup Present(new)
<1> DEFINE S == trans[e].sboms
           removed == trans[e].removed
           remove == trans[e].remove
           new == S \X trans[e].add
           there == assigned \ removed
<1>1. /\ assigned' = there \cup (new \ there)
      /\ \A pair \in new \ there : groups[pair[2]] = "row"
      /\ trans[e].pc = "insert"
  BY DEF Insert, Referable
<1>2. /\ \A pair \in assigned : pair[1] \in S => (pair \in removed <=> pair[2] \in remove)
      /\ removed \subseteq S \X GroupIds
  BY <1>1 DEF AssignInv, TransactionOK
<1>3. \A pair \in assigned : groups[pair[2]] = "row"
  BY DEF AssignInv, AssignTypeOK, Live
<1>4. \A pair \in new : pair[1] \in S
  OBVIOUS
<1> HIDE DEF S, removed, remove, new
<1>5. {pair \in assigned' : pair[1] \in S}
        = {pair \in assigned : pair[1] \in S /\ pair[2] \notin remove}
            \cup {pair \in new : groups[pair[2]] = "row"}
  BY <1>1, <1>2, <1>3, <1>4
<1> QED
  BY <1>5 DEF S, remove, new, Present

LEMMA LabelsWhole ==
  ASSUME AssignInv, NEW e \in Editors, UpdateLabels(e), NEW s \in trans[e].sboms
  PROVE  sboms'[s].labels = Labelled(sboms[s].labels, trans[e].remove, trans[e].add)
<1>1. /\ trans[e].labels = Labelled(sboms[s].labels, trans[e].remove, trans[e].add)
      /\ s \in SbomIds
  BY DEF AssignInv, TransactionOK, UpdateLabels, Rows
<1> QED
  BY <1>1 DEF UpdateLabels, Renew

\* service.rs:644 and 723, label.rs:31: a request has its whole effect on what is there when
\* it commits, and no other, for any number of clients whose requests overlap.
THEOREM RequestsHaveWholeEffect == AssignSpec => RequestsWhole
<1>1. AssignInv =>
        [\A e \in Editors :
           /\ Insert(e) =>
                LET old == {pair \in assigned : pair[1] \in trans[e].sboms /\ pair[2] \notin trans[e].remove}
                    new == trans[e].sboms \X trans[e].add
                IN  {pair \in assigned' : pair[1] \in trans[e].sboms} = old \cup Present(new)
           /\ UpdateLabels(e) => \A s \in trans[e].sboms :
                sboms'[s].labels = Labelled(sboms[s].labels, trans[e].remove, trans[e].add)]_assignVars
  BY InsertWhole, LabelsWhole
<1> QED
  BY <1>1, AssignInvariance, PTL DEF RequestsWhole

\* endpoints/mod.rs:281: a PUT with If-Match replaces what the client has seen, for any number
\* of clients, although the client read it in two statements.
THEOREM NoAssignmentLost == AssignSpec => NoLostAssignment
<1> DEFINE Replaces(e) ==
      Insert(e) /\ trans[e].expected # NoRevision =>
        \A s \in trans[e].sboms :
          /\ GroupsOf(s, assigned) \subseteq known[e].groups
          /\ \A g \in known[e].groups : groups[g] = "row" => <<s, g>> \in assigned
<1>1. ASSUME AssignInv, NEW e \in Readers PROVE Replaces(e)
  <2> SUFFICES ASSUME Insert(e), trans[e].expected # NoRevision, NEW s \in trans[e].sboms
               PROVE  /\ GroupsOf(s, assigned) \subseteq known[e].groups
                      /\ \A g \in known[e].groups : groups[g] = "row" => <<s, g>> \in assigned
    OBVIOUS
  <2>1. TransactionOK(e, trans[e]) /\ KnowledgeOK(known[e])
    BY <1>1, ReadersAssumption DEF AssignInv
  <2>2. /\ known[e].pc = "idle" /\ known[e].tag = trans[e].expected /\ s = known[e].sbom
        /\ sboms[s].revision = trans[e].expected
    BY <2>1 DEF TransactionOK
  <2>3. Seen(known[e])
    BY <2>1, <2>2 DEF KnowledgeOK
  <2> QED
    BY <2>2, <2>3 DEF Seen
<1>2. AssignInv => [\A e \in Readers : Replaces(e)]_assignVars
  BY <1>1
<1> QED
  BY <1>2, AssignInvariance, PTL DEF NoLostAssignment
================================================================================
