----------------------------- MODULE MCRevisions -----------------------------
(* The rows that requests change by named revisions, each by itself: the      *)
(* configuration of an importer, the groups and labels of SBOMs, and a        *)
(* preference of a user.                                                      *)
EXTENDS ImporterRevisions, Assignments, UserPreferences, FiniteSets, TLC

allVars == <<vars, assignVars, preferenceVars>>

\* Bound: one SBOM and two groups, or two SBOMs and one group.
Few ==
  LET alive == {s \in SbomIds : sboms[s] = Unborn}
      free == {g \in GroupIds : groups[g] = "unused"}
  IN  {Cardinality(alive), Cardinality(free)} = {1, 2}

\* Bound: labels only where there is one SBOM and no group.
LabelsApart ==
  \A s \in SbomIds : sboms[s].labels # {} =>
    /\ \A t \in SbomIds \ {s} : sboms[t] = Dropped
    /\ \A g \in GroupIds : groups[g] # "row"

NoSboms == AssignInit /\ sboms = [s \in SbomIds |-> Dropped] /\ groups = [g \in GroupIds |-> "deleted"]

MCInit == Init /\ PreferenceInit /\ (NoSboms \/ (AssignInit /\ Few))

\* One of the three moves.
MCNext ==
  \/ Next /\ NoSboms /\ PreferenceInit /\ UNCHANGED <<assignVars, preferenceVars>>
  \/ PreferenceNext /\ Init /\ NoSboms /\ UNCHANGED <<vars, assignVars>>
  \/ AssignNext /\ ~NoSboms /\ LabelsApart' /\ Init /\ PreferenceInit /\ UNCHANGED <<vars, preferenceVars>>

MCSpec == MCInit /\ [][MCNext]_allVars

Symmetry == Permutations(GroupIds) \cup Permutations(Keys) \cup Permutations(Values)
================================================================================
