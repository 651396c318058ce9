--------------------------- MODULE UserPreferences ---------------------------
(***************************************************************************)
(* One preference of one user, who has it open in several tabs.  A set is  *)
(* one statement, an UPDATE when it names a revision and an upsert when it *)
(* does not; a delete that finds no row needs a second one to tell whether *)
(* the row was gone or changed.                                            *)
(***************************************************************************)
EXTENDS Integers

CONSTANTS
  Tabs,
  Values,          \* the JSON
  MaxSets,         \* bound: the number of revisions that are ever given out
  NoPreference

ASSUME NoPreferenceAssumption == NoPreference \notin [revision : Nat, value : Values]

VARIABLES
  preference,      \* the row
  sets,            \* how many revisions were given out (Uuid::new_v4)
  tabs             \* each tab: what it knows of the row, and its request

preferenceVars == <<preference, sets, tabs>>

AnyMatch == 0      \* IfMatch::Any

PreferenceInit ==
  /\ preference = NoPreference
  /\ sets = 0
  /\ tabs = [t \in Tabs |-> [pc |-> "idle", tag |-> AnyMatch, seen |-> NoPreference,
                             ifMatch |-> AnyMatch, answer |-> "none"]]

\* The filter on the revision
MatchesTag(tag) == preference # NoPreference /\ preference.revision = tag

\* A request names the revision of the tab's last GET or none.
Headers(t) == {AnyMatch, tabs[t].tag}

Store(value) ==
  /\ sets < MaxSets
  /\ sets' = sets + 1
  /\ preference' = [revision |-> sets + 1, value |-> value]

Answer(t, ifMatch, answer) ==
  tabs' = [tabs EXCEPT ![t].pc = "idle", ![t].ifMatch = ifMatch, ![t].answer = answer]

GetPreference(t) ==
  /\ tabs[t].pc = "idle"
  /\ preference # NoPreference
  /\ tabs' = [tabs EXCEPT ![t].tag = preference.revision, ![t].seen = preference.value, ![t].answer = "none"]
  /\ UNCHANGED <<preference, sets>>

\* Mutant of SetPreference: an upsert, whatever the request names
UpsertPreference(t, value) ==
  /\ tabs[t].pc = "idle"
  /\ \E tag \in Headers(t) :
       /\ Store(value)
       /\ tabs' = [tabs EXCEPT ![t].tag = sets + 1, ![t].seen = value,
                               ![t].ifMatch = tag, ![t].answer = "ok"]

\* The answer to a set carries its revision, so that the tab may go on from there.
SetPreference(t, value) ==
  /\ tabs[t].pc = "idle"
  /\ \E tag \in Headers(t) :
       IF tag = AnyMatch \/ MatchesTag(tag)
       THEN /\ Store(value)
            /\ tabs' = [tabs EXCEPT ![t].tag = sets + 1, ![t].seen = value,
                                    ![t].ifMatch = tag, ![t].answer = "ok"]
       ELSE /\ Answer(t, tag, "collision")
            /\ UNCHANGED <<preference, sets>>

DeletePreference(t) ==
  /\ tabs[t].pc = "idle"
  /\ \E tag \in Headers(t) :
       IF tag = AnyMatch \/ MatchesTag(tag)
       THEN /\ preference' = NoPreference
            /\ Answer(t, tag, "ok")
       ELSE /\ preference' = preference
            /\ tabs' = [tabs EXCEPT ![t].pc = "count", ![t].ifMatch = tag, ![t].answer = "none"]
  /\ UNCHANGED sets

\* The second statement of delete: was the row not there, or was it modified?
CountPreference(t) ==
  /\ tabs[t].pc = "count"
  /\ Answer(t, tabs[t].ifMatch, IF preference = NoPreference THEN "ok" ELSE "collision")
  /\ UNCHANGED <<preference, sets>>

PreferenceNext ==
  \E t \in Tabs :
    \/ GetPreference(t) \/ DeletePreference(t) \/ CountPreference(t)
    \/ \E value \in Values : SetPreference(t, value)

PreferenceSpec == PreferenceInit /\ [][PreferenceNext]_preferenceVars

-----------------------------------------------------------------------------
\* endpoints.rs:67 and 111: a set or delete with If-Match replaces what the tab has seen, not
\* what another tab has stored since, also when the row went and came back meanwhile; and it
\* is answered 412 only if the row that it named is not there any more.
NoLostPreference ==
  [][\A t \in Tabs : tabs'[t].ifMatch # AnyMatch =>
       /\ tabs'[t].answer = "ok" /\ tabs[t] # tabs'[t] /\ preference' # preference =>
            /\ preference # NoPreference
            /\ preference.revision = tabs'[t].ifMatch
            /\ preference.value = tabs[t].seen
       /\ tabs'[t].answer = "collision" /\ preference' # NoPreference =>
            preference'.revision # tabs'[t].ifMatch]_preferenceVars
================================================================================
