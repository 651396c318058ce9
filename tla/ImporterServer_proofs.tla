------------------------- MODULE ImporterServer_proofs -------------------------
(***************************************************************************)
(* What the loop and the Hearts of the importer server keep true, for any  *)
(* number of importers, replicas and Hearts.                               *)
(*                                                                         *)
(* A replica never has more Hearts than Server.concurrency, whatever       *)
(* fails.  As long as pumps keep their pace, one Heart at most has the row *)
(* of an importer and keeps it, and the row shows its import as Running    *)
(* unless somebody who did not know the heartbeat finished the run: for    *)
(* any number of replicas, with loops however slow, while importers are    *)
(* deleted and created, replicas crash and statements fail.                *)
(***************************************************************************)
EXTENDS ImporterServer, Functions, FiniteSetTheorems, TLAPS

LEMMA ImageFinite ==
  ASSUME NEW S, IsFiniteSet(S), NEW f
  PROVE  /\ IsFiniteSet({f[x] : x \in S})
         /\ Cardinality({f[x] : x \in S}) <= Cardinality(S)
<1> DEFINE g == [x \in S |-> f[x]]
           T == {f[x] : x \in S}
<1>1. g \in Surjection(S, T)
  BY DEF Surjection
<1> QED
  BY <1>1, FS_Surjection

\* A set that is no larger than another one can be mapped into it one to one.
LEMMA InjectionExists ==
  ASSUME NEW S, NEW T, IsFiniteSet(S), IsFiniteSet(T), Cardinality(S) <= Cardinality(T)
  PROVE  \E f \in [S -> T] : \A i, j \in S : f[i] = f[j] => i = j
<1>1. /\ Cardinality(S) \in Nat /\ ExistsBijection(1..Cardinality(S), S)
      /\ Cardinality(T) \in Nat /\ ExistsBijection(1..Cardinality(T), T)
  BY FS_CardinalityType
<1>2. PICK a \in Bijection(1..Cardinality(S), S) : TRUE
  BY <1>1 DEF ExistsBijection
<1>3. PICK b \in Bijection(1..Cardinality(T), T) : TRUE
  BY <1>1 DEF ExistsBijection
<1> DEFINE n(i) == CHOOSE k \in 1..Cardinality(S) : a[k] = i
           f == [i \in S |-> b[n(i)]]
<1>4. \A i \in S : n(i) \in 1..Cardinality(S) /\ a[n(i)] = i
  BY <1>2 DEF Bijection, Surjection
<1>5. \A i \in S : n(i) \in 1..Cardinality(T)
  BY <1>1, <1>4
<1>6. \A k, l \in 1..Cardinality(T) : b[k] = b[l] => k = l
  BY <1>3 DEF Bijection, Injection, IsInjective
<1>7. \A k \in 1..Cardinality(T) : b[k] \in T
  BY <1>3 DEF Bijection, Injection
<1> HIDE DEF n
<1>8. f \in [S -> T]
  BY <1>5, <1>7
<1>9. \A i, j \in S : f[i] = f[j] => i = j
  BY <1>4, <1>5, <1>6
<1> QED
  BY <1>8, <1>9

-----------------------------------------------------------------------------
(* Types. *)

\* TypeOK without the history
ColumnsOK ==
  /\ rows \in [Importers -> Row \cup {NoRow}]
  /\ alive \in [Importers -> SUBSET Beats]
  /\ servers \in [Replicas -> Server]
  /\ runs \in [Runs -> Run]
  /\ crashes \in Nat

\* A slot that is not in use is Off, and an import runs only under a pump that has
\* acquired.
RunShape(r) ==
  /\ runs[r].pump = "off" => runs[r] = Off
  /\ runs[r].pump # "off" => Target(r) \in Importers
  /\ runs[r].pump # "hold" => runs[r].work = "none"
  /\ runs[r].work = "running" => runs[r].start \in Nat

\* Outside of an iteration a loop has no list; it reaps what is listed.
LoopShape(s) ==
  /\ servers[s].pc # "loop" =>
       servers[s].toReap = {} /\ \A i \in Importers : servers[s].list[i] = NoRow
  /\ \A i \in servers[s].toReap : servers[s].list[i] # NoRow

Base ==
  /\ ColumnsOK
  /\ \A r \in Runs : RunShape(r)
  /\ \A s \in Replicas : LoopShape(s)

LEMMA RunsFinite == IsFiniteSet(Runs)
BY ServerAssumption, FS_Product DEF Runs

LEMMA HostIsReplica == \A r \in Runs : Host(r) \in Replicas
BY DEF Runs, Host

\* The times that are known are finitely many, so that they can be numbered.
LEMMA StampsFinite ==
  ASSUME ColumnsOK
  PROVE  IsFiniteSet(Stamps) /\ Stamps \subseteq Nat
<1> DEFINE J == {j \in Importers : Exists(j)}
           L == ListedRows
           a == [i \in J |-> rows[i].last_run]
           b == [i \in J |-> rows[i].last_change]
           c == [r \in Runs |-> runs[r].start]
           d == [p \in L |-> servers[p[1]].list[p[2]].last_run]
           e == [p \in L |-> servers[p[1]].list[p[2]].last_change]
<1>1. IsFiniteSet(J) /\ IsFiniteSet(L)
  <2>1. IsFiniteSet(Replicas \X Importers)
    BY ServerAssumption, FS_Product
  <2> QED
    BY <2>1, ServerAssumption, FS_Subset DEF ListedRows
<1>2. /\ IsFiniteSet({a[i] : i \in J}) /\ IsFiniteSet({b[i] : i \in J})
      /\ IsFiniteSet({c[r] : r \in Runs})
      /\ IsFiniteSet({d[p] : p \in L}) /\ IsFiniteSet({e[p] : p \in L})
  BY <1>1, RunsFinite, ImageFinite
<1> DEFINE All == (({a[i] : i \in J} \cup {b[i] : i \in J}) \cup {c[r] : r \in Runs})
                    \cup ({d[p] : p \in L} \cup {e[p] : p \in L})
<1>3. IsFiniteSet(All)
  <2> HIDE DEF a, b, c, d, e, J, L
  <2>1. /\ IsFiniteSet({a[i] : i \in J} \cup {b[i] : i \in J})
        /\ IsFiniteSet({d[p] : p \in L} \cup {e[p] : p \in L})
    BY <1>2, FS_Union
  <2>2. IsFiniteSet(({a[i] : i \in J} \cup {b[i] : i \in J}) \cup {c[r] : r \in Runs})
    BY <1>2, <2>1, FS_Union
  <2> QED
    BY <2>1, <2>2, FS_Union
<1>4. Stamps = All \ {Never}
  BY DEF Stamps
<1>5. All \subseteq Nat \cup {Never}
  <2>1. \A i \in J : a[i] \in Nat \cup {Never} /\ b[i] \in Nat \cup {Never}
    BY DEF ColumnsOK, Row, Exists
  <2>2. \A r \in Runs : c[r] \in Nat \cup {Never}
    BY DEF ColumnsOK, Run
  <2>3. \A p \in L : d[p] \in Nat \cup {Never} /\ e[p] \in Nat \cup {Never}
    <3>1. \A p \in L : servers[p[1]].list[p[2]] \in Row
      BY DEF ColumnsOK, Server, ListedRows
    <3> QED
      BY <3>1 DEF Row
  <2> QED
    BY <2>1, <2>2, <2>3
<1> HIDE DEF All
<1>6. IsFiniteSet(All \ {Never})
  BY <1>3, FS_Difference
<1> QED
  BY <1>4, <1>5, <1>6

LEMMA RenumberTypes ==
  ASSUME ColumnsOK
  PROVE  /\ Renumber(Never) = Never
         /\ \A t \in Nat : Renumber(t) \in Nat
<1>1. IsFiniteSet(Stamps)
  BY StampsFinite
<1>2. Renumber(Never) = Never
  BY DEF Renumber
<1>3. ASSUME NEW t \in Nat PROVE Renumber(t) \in Nat
  <2>1. {u \in Stamps : u < t} \in SUBSET Stamps
    OBVIOUS
  <2>2. Cardinality({u \in Stamps : u < t}) \in Nat
    BY <1>1, <2>1, FS_Subset, FS_CardinalityType
  <2> QED
    BY <2>2, ServerAssumption DEF Renumber
<1> QED
  BY <1>2, <1>3

LEMMA RenumberRowFields ==
  ASSUME ColumnsOK, NEW x \in Row
  PROVE  /\ RenumberRow(x) \in Row
         /\ RenumberRow(x).heartbeat = x.heartbeat
         /\ RenumberRow(x).state = x.state
<1>1. x # NoRow
  BY ServerAssumption
<1>2. x.last_run \in Nat \cup {Never} /\ x.last_change \in Nat \cup {Never}
  BY DEF Row
<1>3. /\ Renumber(x.last_run) \in Nat \cup {Never}
      /\ Renumber(x.last_change) \in Nat \cup {Never}
  BY <1>2, RenumberTypes
<1> QED
  BY <1>1, <1>3 DEF RenumberRow, Row

LEMMA OffFields ==
  /\ Off \in Run
  /\ Off.pump = "off" /\ Off.work = "none" /\ Off.start = Never /\ ~Off.cancelled
BY DEF Off, Run

LEMMA BaseInit == Init => Base
<1> SUFFICES ASSUME Init PROVE Base
  OBVIOUS
<1>1. NewRow \in Row /\ Off \in Run /\ Stopped("idle") \in Server
  BY DEF NewRow, Row, Off, Run, Stopped, Server
<1>2. ColumnsOK
  BY <1>1 DEF Init, ColumnsOK
<1>3. \A r \in Runs : runs[r] = Off
  BY DEF Init
<1>4. \A s \in Replicas : servers[s] = Stopped("idle")
  BY DEF Init
<1>5. \A r \in Runs : RunShape(r)
  BY <1>3, OffFields DEF RunShape
<1>6. \A s \in Replicas : LoopShape(s)
  BY <1>4 DEF LoopShape, Stopped
<1> QED
  BY <1>2, <1>5, <1>6 DEF Base

\* The parts of a step that several actions share.
LEMMA StoppedBase ==
  ASSUME Base, NEW s \in Replicas, NEW pc \in {"idle", "exited", "down"},
         servers' = [servers EXCEPT ![s] = Stopped(pc)]
  PROVE  servers' \in [Replicas -> Server] /\ (\A t \in Replicas : LoopShape(t))'
<1>1. Stopped(pc) \in Server
  BY DEF Stopped, Server
<1>2. \A t \in Replicas : servers'[t] = IF t = s THEN Stopped(pc) ELSE servers[t]
  BY DEF Base, ColumnsOK
<1> QED
  BY <1>1, <1>2 DEF Base, ColumnsOK, LoopShape, Stopped

LEMMA EndLoopBase ==
  ASSUME Base, NEW s \in Replicas, NEW pc \in {"idle", "exited", "down"}, EndLoop(s, pc)
  PROVE  /\ alive' \in [Importers -> SUBSET Beats]
         /\ servers' \in [Replicas -> Server]
         /\ (\A t \in Replicas : LoopShape(t))'
<1>1. alive' \in [Importers -> SUBSET Beats]
  BY DEF EndLoop, Base, ColumnsOK
<1> QED
  BY <1>1, StoppedBase DEF EndLoop

LEMMA StopServerBase ==
  ASSUME Base, NEW s \in Replicas, NEW pc \in {"idle", "exited", "down"}, StopServer(s, pc),
         rows' = rows, crashes' \in Nat
  PROVE  Base'
<1>1. /\ alive' \in [Importers -> SUBSET Beats]
      /\ servers' \in [Replicas -> Server]
      /\ (\A t \in Replicas : LoopShape(t))'
  BY EndLoopBase DEF StopServer
<1>2. Off \in Run
  BY DEF Off, Run
<1>3. \A r \in Runs : runs'[r] = IF Host(r) = s THEN Off ELSE runs[r]
  BY DEF StopServer
<1>4. runs' \in [Runs -> Run]
  BY <1>2 DEF StopServer, Base, ColumnsOK
<1>5. ASSUME NEW r \in Runs PROVE RunShape(r)'
  <2>1. CASE Host(r) = s
    BY <1>3, <2>1, OffFields DEF RunShape, Off
  <2>2. CASE Host(r) # s
    BY <1>3, <2>2 DEF Base, RunShape, Target, Off
  <2> QED
    BY <2>1, <2>2
<1> QED
  BY <1>1, <1>4, <1>5 DEF Base, ColumnsOK

\* A step that only changes the row of one importer.
LEMMA RowBase ==
  ASSUME Base, NEW i \in Importers, NEW x \in Row \cup {NoRow}, rows' = [rows EXCEPT ![i] = x],
         alive' \in [Importers -> SUBSET Beats], UNCHANGED <<servers, runs, crashes>>
  PROVE  Base'
<1>1. rows' \in [Importers -> Row \cup {NoRow}]
  BY DEF Base, ColumnsOK
<1> QED
  BY <1>1 DEF Base, ColumnsOK, RunShape, LoopShape, Target

\* A step that only changes one Heart, with the table.
LEMMA RunBase ==
  ASSUME Base, NEW r \in Runs, NEW q \in Run, runs' = [runs EXCEPT ![r] = q],
         q.pump = "off" => q = Off,
         q.pump # "off" => q.target \in Importers,
         q.pump # "hold" => q.work = "none",
         q.work = "running" => q.start \in Nat,
         rows' \in [Importers -> Row \cup {NoRow}],
         alive' \in [Importers -> SUBSET Beats], UNCHANGED <<servers, crashes>>
  PROVE  Base'
<1>1. \A p \in Runs : runs'[p] = IF p = r THEN q ELSE runs[p]
  BY DEF Base, ColumnsOK
<1>2. runs' \in [Runs -> Run]
  BY DEF Base, ColumnsOK
<1>3. (\A p \in Runs : RunShape(p))'
  BY <1>1 DEF Base, RunShape, Target
<1> QED
  BY <1>2, <1>3 DEF Base, ColumnsOK, LoopShape

LEMMA WriteBeatTypes ==
  ASSUME Base, NEW i \in Importers, NEW b \in Beats, Exists(i), WriteBeat(i, b)
  PROVE  /\ rows' \in [Importers -> Row \cup {NoRow}]
         /\ alive' \in [Importers -> SUBSET Beats]
<1>1. rows[i] \in Row
  BY DEF Exists, Base, ColumnsOK
<1>2. [rows[i] EXCEPT !.heartbeat = b] \in Row
  BY <1>1 DEF Row
<1> QED
  BY <1>2 DEF WriteBeat, Base, ColumnsOK

LEMMA FailedBeatTypes ==
  ASSUME Base, NEW r \in Runs, Target(r) \in Importers, FailedBeat(r)
  PROVE  /\ rows' \in [Importers -> Row \cup {NoRow}]
         /\ alive' \in [Importers -> SUBSET Beats]
<1>1. CASE UNCHANGED <<rows, alive>>
  BY <1>1 DEF Base, ColumnsOK
<1>2. ASSUME NEW b \in Beats, Matches(r), WriteBeat(Target(r), b)
      PROVE  /\ rows' \in [Importers -> Row \cup {NoRow}]
             /\ alive' \in [Importers -> SUBSET Beats]
  BY <1>2, WriteBeatTypes DEF Matches
<1>3. FreshBeats(Target(r)) \subseteq Beats
  BY DEF FreshBeats
<1> QED
  BY <1>1, <1>2, <1>3 DEF FailedBeat

LEMMA RunFields ==
  ASSUME ColumnsOK, NEW r \in Runs
  PROVE  /\ runs[r].pump \in {"off", "acquire", "hold"}
         /\ runs[r].target \in Importers \cup {Nobody}
         /\ runs[r].known \in Beats \cup {NoBeat}
         /\ runs[r].work \in {"none", "ready", "running", "done"}
         /\ runs[r].start \in Nat \cup {Never}
         /\ runs[r].cancelled \in BOOLEAN
         /\ runs[r] \in Run
BY DEF ColumnsOK, Run

LEMMA BaseClients ==
  ASSUME Base, NEW i \in Importers, Create(i) \/ Delete(i) \/ ForceRun(i) \/ SetEnabled(i)
  PROVE  Base'
<1>1. CASE Create(i)
  <2>1. NewRow \in Row
    BY DEF NewRow, Row
  <2> QED
    BY <1>1, <2>1, RowBase DEF Create, Base, ColumnsOK
<1>2. CASE Delete(i)
  <2>1. alive' \in [Importers -> SUBSET Beats]
    BY <1>2 DEF Delete, Base, ColumnsOK
  <2> QED
    BY <1>2, <2>1, RowBase DEF Delete
<1>3. CASE ForceRun(i)
  <2>1. Reset(rows[i]) \in Row
    BY <1>3 DEF ForceRun, Exists, Base, ColumnsOK, Reset, Row
  <2> QED
    BY <1>3, <2>1, RowBase DEF ForceRun, Base, ColumnsOK
<1>4. CASE SetEnabled(i)
  <2>1. [rows[i] EXCEPT !.disabled = ~@] \in Row
    BY <1>4 DEF SetEnabled, Exists, Base, ColumnsOK, Row
  <2> QED
    BY <1>4, <2>1, RowBase DEF SetEnabled, Base, ColumnsOK
<1> QED
  BY <1>1, <1>2, <1>3, <1>4

LEMMA LiveOnFinite ==
  \A s \in Replicas : /\ IsFiniteSet(LiveOn(s)) /\ Cardinality(LiveOn(s)) \in Nat
                      /\ IsFiniteSet(FreeSlots(s))
<1> TAKE s \in Replicas
<1>1. LiveOn(s) \in SUBSET Runs /\ FreeSlots(s) \in SUBSET Runs
  BY DEF LiveOn, FreeSlots
<1> QED
  BY <1>1, RunsFinite, FS_Subset, FS_CardinalityType

\* What Spawn adds: a Heart for each importer of S, in a slot of its own.
LEMMA SpawnEffect ==
  ASSUME ColumnsOK, NEW s \in Replicas, Spawn(s)
  PROVE  \E S \in SUBSET Importers : \E slot \in [S -> FreeSlots(s)] :
           /\ Taken(s, S)
           /\ \A i, j \in S : slot[i] = slot[j] => i = j
           /\ \A i \in S : runs'[slot[i]] = Started(s, i)
           /\ \A r \in Runs : (\A i \in S : slot[i] # r) => runs'[r] = runs[r]
<1>1. PICK S \in SUBSET Importers :
        /\ Taken(s, S)
        /\ Cardinality(S) <= Cardinality(FreeSlots(s))
        /\ LET slot == CHOOSE f \in [S -> FreeSlots(s)] : \A i, j \in S : f[i] = f[j] => i = j
           IN  runs' = [r \in Runs |->
                 IF \E i \in S : slot[i] = r
                   THEN Started(s, CHOOSE i \in S : slot[i] = r)
                   ELSE runs[r]]
  BY DEF Spawn
<1> DEFINE slot == CHOOSE f \in [S -> FreeSlots(s)] : \A i, j \in S : f[i] = f[j] => i = j
<1>2. IsFiniteSet(S) /\ IsFiniteSet(FreeSlots(s))
  BY ServerAssumption, FS_Subset, LiveOnFinite
<1>3. \E f \in [S -> FreeSlots(s)] : \A i, j \in S : f[i] = f[j] => i = j
  BY <1>1, <1>2, InjectionExists
<1>4. slot \in [S -> FreeSlots(s)] /\ \A i, j \in S : slot[i] = slot[j] => i = j
  BY <1>3
<1>5. \A r \in Runs : runs'[r] = IF \E i \in S : slot[i] = r
                                  THEN Started(s, CHOOSE i \in S : slot[i] = r)
                                  ELSE runs[r]
  BY <1>1
<1> HIDE DEF slot
<1>6. \A i \in S : slot[i] \in Runs
  BY <1>4 DEF FreeSlots
<1>7. \A i \in S : (CHOOSE j \in S : slot[j] = slot[i]) = i
  BY <1>4
<1>8. \A i \in S : runs'[slot[i]] = Started(s, i)
  BY <1>5, <1>6, <1>7
<1>9. \A r \in Runs : (\A i \in S : slot[i] # r) => runs'[r] = runs[r]
  BY <1>5
<1> USE <1>4
<1> WITNESS S \in SUBSET Importers
<1> WITNESS slot \in [S -> FreeSlots(s)]
<1> QED
  BY <1>1, <1>4, <1>8, <1>9

LEMMA ListedRow ==
  ASSUME Base, NEW s \in Replicas, NEW i \in servers[s].toReap
  PROVE  /\ i \in Importers
         /\ servers[s].list[i] \in Row
         /\ servers[s].pc = "loop"
<1>1. servers[s] \in Server
  BY DEF Base, ColumnsOK
<1>2. i \in Importers /\ servers[s].list[i] \in Row
  BY <1>1 DEF Server, Base, LoopShape
<1>3. servers[s].pc = "loop"
  BY DEF Base, LoopShape
<1> QED
  BY <1>2, <1>3

LEMMA UpdateAbortedRow ==
  ASSUME Base, NEW i \in Importers, Exists(i), NEW x \in Row, UpdateAborted(i, x)
  PROVE  /\ rows' \in [Importers -> Row \cup {NoRow}]
         /\ rows'[i] \in Row
         /\ \A j \in Importers : j # i => rows'[j] = rows[j]
         /\ rows'[i].heartbeat = rows[i].heartbeat
         /\ rows'[i].state = "Waiting"
         /\ rows'[i].last_run = IF x.last_run = Never THEN x.last_change ELSE x.last_run
<1>1. rows[i] \in Row
  BY DEF Exists, Base, ColumnsOK
<1> DEFINE y == IF x.last_run = Never THEN UpdateFinish(rows[i], x.last_change, FALSE)
                ELSE UpdateFinish(rows[i], x.last_run, x.due)
<1>2. /\ y \in Row /\ y.heartbeat = rows[i].heartbeat /\ y.state = "Waiting"
      /\ y.last_run = IF x.last_run = Never THEN x.last_change ELSE x.last_run
  BY <1>1 DEF UpdateFinish, Row
<1>3. rows' = [rows EXCEPT ![i] = y]
  BY DEF UpdateAborted
<1> HIDE DEF y
<1> QED
  BY <1>2, <1>3 DEF Base, ColumnsOK

LEMMA ReapedBase ==
  ASSUME Base, NEW s \in Replicas, NEW i, Reaped(s, i),
         rows' \in [Importers -> Row \cup {NoRow}], UNCHANGED <<alive, runs, crashes>>
  PROVE  Base'
<1>1. servers[s] \in Server
  BY DEF Base, ColumnsOK
<1>2. [servers[s] EXCEPT !.toReap = @ \ {i}] \in Server
  BY <1>1 DEF Server
<1>3. servers' \in [Replicas -> Server]
  BY <1>2 DEF Reaped, Base, ColumnsOK
<1>4. ASSUME NEW t \in Replicas PROVE LoopShape(t)'
  <2>1. CASE t = s
    <3>1. /\ servers'[s].pc = servers[s].pc /\ servers'[s].list = servers[s].list
          /\ servers'[s].toReap = servers[s].toReap \ {i}
      BY <1>1 DEF Reaped, Base, ColumnsOK, Server
    <3>2. /\ servers[s].pc # "loop" =>
               servers[s].toReap = {} /\ \A j \in Importers : servers[s].list[j] = NoRow
          /\ \A j \in servers[s].toReap : servers[s].list[j] # NoRow
      BY DEF Base, LoopShape
    <3> HIDE DEF Base
    <3> QED
      BY <3>1, <3>2, <2>1 DEF LoopShape
  <2>2. CASE t # s
    BY <2>2 DEF Reaped, Base, ColumnsOK, LoopShape
  <2> QED
    BY <2>1, <2>2
<1> QED
  BY <1>3, <1>4 DEF Base, ColumnsOK, RunShape, Target

LEMMA BaseLoop ==
  ASSUME Base, NEW s \in Replicas, Loop(s) \/ ListError(s) \/ Crash(s) \/ Restart(s)
  PROVE  Base'
<1>1. CASE List(s)
  <2> DEFINE R == {i \in Importers : Exists(i) /\ rows[i].state = "Running"}
             v == [ pc |-> "loop",
         list |-> rows,
         toReap |-> R,
         count |-> Cardinality(LiveOn(s)) ]
  <2>1. v \in Server
    BY LiveOnFinite DEF Base, ColumnsOK, Server
  <2>2. \A t \in Replicas : servers'[t] = IF t = s THEN v ELSE servers[t]
    BY <1>1 DEF List, Base, ColumnsOK
  <2>3. servers' \in [Replicas -> Server]
    BY <1>1, <2>1 DEF List, Base, ColumnsOK
  <2>4. (\A t \in Replicas : LoopShape(t))'
    <3>1. ASSUME NEW t \in Replicas PROVE LoopShape(t)'
      <4>1. CASE t = s
        <5> \A i \in R : Exists(i)
          OBVIOUS
        <5> HIDE DEF R
        <5>1. /\ servers'[s].pc = "loop" /\ servers'[s].list = rows
              /\ servers'[s].toReap = R
          BY <2>2
        <5> QED
          BY <5>1, <4>1 DEF LoopShape, Exists
      <4>2. CASE t # s
        BY <2>2, <4>2 DEF LoopShape, Base
      <4> QED
        BY <4>1, <4>2
    <3> QED
      BY <3>1
  <2> QED
    BY <1>1, <2>3, <2>4 DEF List, Base, ColumnsOK, RunShape, Target
<1>2. ASSUME NEW i \in Importers, ReapSkip(s, i) PROVE Base'
  BY <1>2, ReapedBase DEF ReapSkip, Base, ColumnsOK
<1>3. ASSUME NEW i \in Importers, Reap(s, i) PROVE Base'
  <2>1. servers[s].list[i] \in Row
    BY <1>3, ListedRow DEF Reap
  <2>2. rows' \in [Importers -> Row \cup {NoRow}]
    BY <1>3, <2>1, UpdateAbortedRow DEF Reap
  <2> QED
    BY <1>3, <2>2, ReapedBase DEF Reap
<1>4. CASE (\E i \in Importers : ReapError(s, i)) \/ ListError(s)
  BY <1>4, StopServerBase DEF ReapError, ListError, Base, ColumnsOK
<1>5. CASE Spawn(s)
  <2>1. EndLoop(s, "idle") /\ UNCHANGED <<rows, crashes>>
    BY <1>5 DEF Spawn
  <2>2. /\ alive' \in [Importers -> SUBSET Beats]
        /\ servers' \in [Replicas -> Server]
        /\ (\A t \in Replicas : LoopShape(t))'
    BY <2>1, EndLoopBase
  <2>3. ColumnsOK
    BY DEF Base
  <2>4. PICK S \in SUBSET Importers : \E slot \in [S -> FreeSlots(s)] :
           /\ Taken(s, S)
           /\ \A i, j \in S : slot[i] = slot[j] => i = j
           /\ \A i \in S : runs'[slot[i]] = Started(s, i)
           /\ \A r \in Runs : (\A i \in S : slot[i] # r) => runs'[r] = runs[r]
    BY <1>5, <2>3, SpawnEffect
  <2>5. PICK slot \in [S -> FreeSlots(s)] :
           /\ \A i \in S : runs'[slot[i]] = Started(s, i)
           /\ \A r \in Runs : (\A i \in S : slot[i] # r) => runs'[r] = runs[r]
    BY <2>4
  <2>6. \A i \in S : servers[s].list[i] \in Row
    BY <2>4 DEF Taken, Eligible, Base, ColumnsOK, Server
  <2>7. \A i \in S : /\ Started(s, i) \in Run
                     /\ Started(s, i).pump = "acquire" /\ Started(s, i).target = i
                     /\ Started(s, i).work = "none"
    BY <2>6 DEF Started, Off, Run, Row
  <2>8. \A r \in Runs : runs'[r] = runs[r] \/ \E i \in S : runs'[r] = Started(s, i)
    BY <2>5
  <2>9. \E f : runs' = [r \in Runs |-> f[r]]
    BY <1>5, Zenon DEF Spawn
  <2>10. runs' \in [Runs -> Run]
    BY <2>7, <2>8, <2>9 DEF Base, ColumnsOK
  <2>11. (\A r \in Runs : RunShape(r))'
    BY <2>7, <2>8 DEF Base, RunShape, Target
  <2> QED
    BY <2>1, <2>2, <2>10, <2>11 DEF Base, ColumnsOK
<1>6. CASE Crash(s)
  BY <1>6, StopServerBase DEF Crash, Base, ColumnsOK
<1>7. CASE Restart(s)
  BY <1>7, StoppedBase DEF Restart, Base, ColumnsOK, RunShape, Target
<1> QED
  BY <1>1, <1>2, <1>3, <1>4, <1>5, <1>6, <1>7 DEF Loop

LEMMA FreshBeat ==
  ASSUME Base, NEW i, FreshBeats(i) # {}
  PROVE  LET b == CHOOSE b \in FreshBeats(i) : TRUE
         IN  /\ b \in Beats
             /\ \A r \in Runs : Target(r) = i => runs[r].known # b
             /\ b \notin Listed(i, Replicas) \cup Stored(i)
<1>1. (CHOOSE b \in FreshBeats(i) : TRUE) \in FreshBeats(i)
  OBVIOUS
<1> QED
  BY <1>1 DEF FreshBeats

LEMMA BasePump ==
  ASSUME Base, NEW r \in Runs, Pump(r)
  PROVE  Base'
<1> DEFINE b == CHOOSE b \in FreshBeats(Target(r)) : TRUE
<1>0. runs[r] \in Run /\ ColumnsOK
  BY DEF Base, ColumnsOK
<1>1. runs[r].pump # "off" => Target(r) \in Importers
  BY DEF Base, RunShape
<1>2. CASE Acquire(r)
  <2>1. b \in Beats
    BY <1>2, FreshBeat DEF Acquire
  <2>2. WriteBeat(Target(r), b) /\ Matches(r)
    BY <1>2 DEF Acquire
  <2>3. runs' = [runs EXCEPT ![r] =
                   [runs[r] EXCEPT !.pump = "hold", !.known = b, !.work = "ready"]]
    BY <1>2, <1>0 DEF Acquire, ColumnsOK
  <2>4. runs[r].pump = "acquire" /\ UNCHANGED <<servers, crashes>>
    BY <1>2 DEF Acquire
  <2> HIDE DEF b
  <2>5. /\ rows' \in [Importers -> Row \cup {NoRow}]
        /\ alive' \in [Importers -> SUBSET Beats]
    BY <2>1, <2>2, <2>4, <1>1, WriteBeatTypes DEF Matches
  <2> DEFINE q == [runs[r] EXCEPT !.pump = "hold", !.known = b, !.work = "ready"]
  <2>6. q \in Run /\ q.pump = "hold" /\ q.work = "ready" /\ q.target = runs[r].target
    BY <1>0, <2>1 DEF Run
  <2>7. q.target \in Importers
    BY <1>1, <2>4, <2>6 DEF Target
  <2> HIDE DEF q
  <2> QED
    BY <2>3, <2>4, <2>5, <2>6, <2>7, RunBase DEF q
<1>3. CASE AcquireFail(r)
  <2>1. /\ rows' \in [Importers -> Row \cup {NoRow}]
        /\ alive' \in [Importers -> SUBSET Beats]
    BY <1>3, <1>1, FailedBeatTypes DEF AcquireFail
  <2> QED
    BY <1>3, <2>1, OffFields, RunBase DEF AcquireFail
<1>4. CASE BeatOk(r)
  <2>1. b \in Beats
    BY <1>4, FreshBeat DEF BeatOk
  <2> DEFINE q == IF runs[r].work = "done" THEN Off ELSE [runs[r] EXCEPT !.known = b]
  <2>2. /\ WriteBeat(Target(r), b) /\ Matches(r) /\ runs' = [runs EXCEPT ![r] = q]
        /\ runs[r].pump = "hold" /\ UNCHANGED <<servers, crashes>>
    BY <1>4 DEF BeatOk
  <2>3. q \in Run
    BY <1>0, <2>1, OffFields DEF Run
  <2>4. \/ q = Off
        \/ q.pump = "hold" /\ q.target = runs[r].target /\ q.work = runs[r].work
             /\ q.start = runs[r].start
    BY <1>0, <2>2 DEF Run
  <2> HIDE DEF b, q
  <2>5. /\ rows' \in [Importers -> Row \cup {NoRow}]
        /\ alive' \in [Importers -> SUBSET Beats]
    BY <2>1, <2>2, <1>1, WriteBeatTypes DEF Matches
  <2> QED
    BY <2>2, <2>3, <2>4, <2>5, <1>1, OffFields, RunBase DEF Target, Base, RunShape
<1>5. CASE BeatFail(r)
  <2>1. /\ rows' \in [Importers -> Row \cup {NoRow}]
        /\ alive' \in [Importers -> SUBSET Beats]
    BY <1>5, <1>1, FailedBeatTypes DEF BeatFail
  <2> DEFINE q == IF runs[r].work = "done" THEN Off ELSE [runs[r] EXCEPT !.cancelled = TRUE]
  <2>2. /\ runs' = [runs EXCEPT ![r] = q]
        /\ runs[r].pump = "hold" /\ UNCHANGED <<servers, crashes>>
    BY <1>5 DEF BeatFail
  <2>3. q \in Run
    BY <1>0, OffFields DEF Run
  <2>4. \/ q = Off
        \/ q.pump = "hold" /\ q.target = runs[r].target /\ q.work = runs[r].work
             /\ q.start = runs[r].start
    BY <1>0, <2>2 DEF Run
  <2> HIDE DEF q
  <2> QED
    BY <2>1, <2>2, <2>3, <2>4, <1>1, OffFields, RunBase DEF Target, Base, RunShape
<1> QED
  BY <1>2, <1>3, <1>4, <1>5 DEF Pump

\* What WorkStart does to the table, the lists and the Hearts.
LEMMA WorkStartEffect ==
  ASSUME Base, NEW r \in Runs, WorkStart(r)
  PROVE  /\ \A i \in Importers :
              i # Target(r) => rows'[i] = RenumberRow(rows[i])
         /\ rows'[Target(r)] = UpdateStart(RenumberRow(rows[Target(r)]), 0)
         /\ \A q \in Runs :
              q # r => runs'[q] = [runs[q] EXCEPT !.start = Renumber(@)]
         /\ runs'[r] = [runs[r] EXCEPT !.work = "running", !.start = 0]
         /\ \A s \in Replicas :
              /\ servers'[s].pc = servers[s].pc
              /\ servers'[s].count = servers[s].count
              /\ servers'[s].toReap = servers[s].toReap
              /\ \A i \in Importers : servers'[s].list[i] = RenumberRow(servers[s].list[i])
         /\ rows' = [i \in Importers |-> rows'[i]]
         /\ runs' = [q \in Runs |-> runs'[q]]
         /\ servers' = [s \in Replicas |-> servers'[s]]
<1>1. runs[r].work = "ready" /\ Target(r) \in Importers
  BY DEF WorkStart, Base, RunShape
<1>2. \A s \in Replicas : servers'[s] =
        [servers[s] EXCEPT !.list = [i \in Importers |-> RenumberRow(servers[s].list[i])]]
  BY DEF WorkStart
<1>3. \A s \in Replicas : servers[s] \in Server
  BY DEF Base, ColumnsOK
<1>4. ASSUME NEW s \in Replicas
      PROVE  /\ servers'[s].pc = servers[s].pc
             /\ servers'[s].count = servers[s].count
             /\ servers'[s].toReap = servers[s].toReap
             /\ \A i \in Importers : servers'[s].list[i] = RenumberRow(servers[s].list[i])
  <2> DEFINE L == [i \in Importers |-> RenumberRow(servers[s].list[i])]
  <2>1. \A i \in Importers : L[i] = RenumberRow(servers[s].list[i])
    OBVIOUS
  <2>2. servers'[s] = [servers[s] EXCEPT !.list = L]
    BY <1>2
  <2> HIDE DEF L
  <2>3. /\ servers'[s].pc = servers[s].pc
        /\ servers'[s].count = servers[s].count
        /\ servers'[s].toReap = servers[s].toReap
        /\ servers'[s].list = L
    BY <2>2, <1>3 DEF Server
  <2> QED
    BY <2>1, <2>3
<1>5. /\ rows' = [i \in Importers |-> rows'[i]]
      /\ runs' = [q \in Runs |-> runs'[q]]
      /\ servers' = [s \in Replicas |-> servers'[s]]
  BY DEF WorkStart
<1> QED
  BY <1>1, <1>4, <1>5 DEF WorkStart

LEMMA BaseWork ==
  ASSUME Base, NEW r \in Runs,
         Begin(r) \/ WorkCheck(r) \/ WorkCheckError(r) \/ WorkFinish(r)
  PROVE  Base'
<1>0. runs[r] \in Run /\ ColumnsOK
  BY DEF Base, ColumnsOK
<1>1. runs[r].work # "none" => runs[r].pump = "hold" /\ Target(r) \in Importers
  BY DEF Base, RunShape
<1>2. CASE WorkStart(r)
  <2>1. Exists(Target(r)) /\ Target(r) \in Importers /\ runs[r].pump = "hold"
        /\ UNCHANGED <<alive, crashes>>
    BY <1>1, <1>2 DEF WorkStart
  <2>2. \A x \in Row \cup {NoRow} : RenumberRow(x) \in Row \cup {NoRow}
                                     /\ (x # NoRow <=> RenumberRow(x) # NoRow)
    BY <1>0, RenumberRowFields, ServerAssumption DEF RenumberRow
  <2>3. rows[Target(r)] \in Row
    BY <2>1 DEF Exists, Base, ColumnsOK
  <2>4. UpdateStart(RenumberRow(rows[Target(r)]), 0) \in Row
    BY <1>0, <2>3, RenumberRowFields, RenumberTypes DEF UpdateStart, Row
  <2>5. rows' \in [Importers -> Row \cup {NoRow}]
    <3>1. ASSUME NEW i \in Importers PROVE rows'[i] \in Row \cup {NoRow}
      <4>1. rows[i] \in Row \cup {NoRow}
        BY DEF Base, ColumnsOK
      <4>2. RenumberRow(rows[i]) \in Row \cup {NoRow}
        BY <4>1, <2>2
      <4> QED
        BY <1>2, <2>4, <4>2, WorkStartEffect
    <3>2. rows' = [i \in Importers |-> rows'[i]]
      BY <1>2, WorkStartEffect
    <3> QED
      BY <3>1, <3>2
  <2>6. \A q \in Runs : /\ runs'[q] \in Run
                        /\ runs'[q].pump = runs[q].pump /\ runs'[q].target = runs[q].target
                        /\ runs'[q].work = IF q = r THEN "running" ELSE runs[q].work
                        /\ runs'[q].start = IF q = r THEN 0
                                                     ELSE Renumber(runs[q].start)
    <3>2. ASSUME NEW q \in Runs, q # r
          PROVE  /\ runs'[q] \in Run
                 /\ runs'[q].pump = runs[q].pump /\ runs'[q].target = runs[q].target
                 /\ runs'[q].work = runs[q].work
                 /\ runs'[q].start = Renumber(runs[q].start)
      <4>1. runs[q] \in Run /\ Renumber(runs[q].start) \in Nat \cup {Never}
        BY <1>0, RenumberTypes DEF ColumnsOK, Run
      <4>2. runs'[q] = [runs[q] EXCEPT !.start = Renumber(runs[q].start)]
        BY <3>2, <1>2, WorkStartEffect
      <4> QED
        BY <4>1, <4>2 DEF Run
    <3>3. /\ runs'[r] \in Run
          /\ runs'[r].pump = runs[r].pump /\ runs'[r].target = runs[r].target
          /\ runs'[r].work = "running" /\ runs'[r].start = 0
      <4>1. runs'[r] = [runs[r] EXCEPT !.work = "running", !.start = 0]
        BY <1>2, WorkStartEffect
      <4>2. ASSUME NEW z \in Nat
            PROVE  LET q == [runs[r] EXCEPT !.work = "running", !.start = z]
                   IN  /\ q \in Run /\ q.pump = runs[r].pump /\ q.target = runs[r].target
                       /\ q.work = "running" /\ q.start = z
        BY <1>0 DEF Run
      <4> DEFINE q(z) == [runs[r] EXCEPT !.work = "running", !.start = z]
                 Good(y, z) == /\ y \in Run
                               /\ y.pump = runs[r].pump /\ y.target = runs[r].target
                               /\ y.work = "running" /\ y.start = z
      <4>3. \A z \in Nat : Good(q(z), z)
        BY <4>2
      <4>4. runs'[r] = q(0) /\ 0 \in Nat
        BY <4>1
      <4> HIDE DEF q
      <4>5. Good(q(0), 0)
        BY <4>3, <4>4
      <4> HIDE DEF Good
      <4>6. Good(runs'[r], 0)
        BY <4>4, <4>5
      <4> QED
        BY <4>6 DEF Good
    <3> QED
      BY <3>2, <3>3
  <2>7. runs' \in [Runs -> Run]
    <3>1. runs' = [q \in Runs |-> runs'[q]]
      BY <1>2, WorkStartEffect
    <3> QED
      BY <2>6, <3>1
  <2>8. ASSUME NEW q \in Runs PROVE RunShape(q)'
    <3>1. CASE q = r
      BY <3>1, <2>1, <2>6, <1>0, RenumberTypes DEF RunShape, Target
    <3>2. CASE q # r /\ runs[q] # Off
      BY <3>2, <2>6, <1>0, RenumberTypes DEF Base, RunShape, Target
    <3>3. CASE q # r /\ runs[q] = Off
      <4>1. runs'[q] = [Off EXCEPT !.start = Renumber(Never)]
        BY <3>3, <1>2, WorkStartEffect, OffFields
      <4>2. runs'[q] = Off
        BY <4>1, <1>0, RenumberTypes DEF Off
      <4> QED
        BY <4>2, OffFields DEF RunShape
    <3> QED
      BY <3>1, <3>2, <3>3
  <2>9. servers' \in [Replicas -> Server]
    <3>1. ASSUME NEW s \in Replicas PROVE servers'[s] \in Server
      <4> DEFINE L == [i \in Importers |-> RenumberRow(servers[s].list[i])]
      <4>1. servers[s] \in Server
        BY DEF Base, ColumnsOK
      <4>2. L \in [Importers -> Row \cup {NoRow}]
        BY <4>1, <2>2 DEF Server
      <4>3. servers'[s] = [servers[s] EXCEPT !.list = L]
        BY <1>2 DEF WorkStart
      <4> HIDE DEF L
      <4> QED
        BY <4>1, <4>2, <4>3 DEF Server
    <3>2. servers' = [s \in Replicas |-> servers'[s]]
      BY <1>2, WorkStartEffect
    <3> QED
      BY <3>1, <3>2
  <2>10. ASSUME NEW s \in Replicas PROVE LoopShape(s)'
    <3>1. servers[s] \in Server
      BY DEF Base, ColumnsOK
    <3>2. ASSUME NEW i \in Importers
          PROVE  servers[s].list[i] # NoRow <=> servers'[s].list[i] # NoRow
      <4>1. servers[s].list[i] \in Row \cup {NoRow}
        BY <3>1 DEF Server
      <4>2. servers'[s].list[i] = RenumberRow(servers[s].list[i])
        BY <1>2, WorkStartEffect
      <4> QED
        BY <4>1, <4>2, <2>2
    <3> QED
      BY <3>1, <3>2, <1>2, WorkStartEffect DEF Base, LoopShape, Server
  <2> QED
    BY <2>1, <2>5, <2>7, <2>8, <2>9, <2>10 DEF Base, ColumnsOK
<1>3. CASE WorkStartError(r)
  <2> DEFINE q == [runs[r] EXCEPT !.work = "done"]
  <2>1. q \in Run /\ q.pump = "hold" /\ q.work = "done" /\ q.target \in Importers
    BY <1>0, <1>1, <1>3 DEF WorkStartError, Run, Target
  <2> QED
    BY <1>3, <2>1, RunBase DEF WorkStartError, Base, ColumnsOK
<1>4. CASE WorkCheck(r) \/ WorkCheckError(r)
  <2> DEFINE q == [runs[r] EXCEPT !.cancelled = TRUE]
  <2>1. /\ runs[r].work = "running" /\ runs' = [runs EXCEPT ![r] = q]
        /\ UNCHANGED <<rows, alive, servers, crashes>>
    BY <1>4 DEF WorkCheck, WorkCheckError
  <2>2. /\ q \in Run /\ q.pump = "hold" /\ q.work = "running" /\ q.target \in Importers
        /\ q.start = runs[r].start
    BY <1>0, <1>1, <2>1 DEF Run, Target
  <2> QED
    BY <2>1, <2>2, RunBase DEF Base, ColumnsOK, RunShape
<1>5. CASE WorkFinish(r)
  <2> DEFINE q == [runs[r] EXCEPT !.work = "done", !.start = Never]
  <2>1. q \in Run /\ q.pump = "hold" /\ q.work = "done" /\ q.target \in Importers
    BY <1>0, <1>1, <1>5 DEF WorkFinish, Run, Target
  <2>2. runs' = [runs EXCEPT ![r] = q] /\ UNCHANGED <<alive, servers, crashes>>
    BY <1>5, <1>0 DEF WorkFinish, ColumnsOK
  <2>3. rows' \in [Importers -> Row \cup {NoRow}]
    <3>1. CASE rows' = rows
      BY <3>1 DEF Base, ColumnsOK
    <3>2. CASE /\ Exists(Target(r))
               /\ rows' = [rows EXCEPT ![Target(r)] = UpdateFinish(@, runs[r].start, FALSE)]
      <4>1. rows[Target(r)] \in Row
        BY <3>2, <1>1, <1>5 DEF Exists, Base, ColumnsOK, WorkFinish
      <4>2. UpdateFinish(rows[Target(r)], runs[r].start, FALSE) \in Row
        BY <4>1, <1>0 DEF UpdateFinish, Row, Run
      <4> QED
        BY <3>2, <4>2 DEF Base, ColumnsOK
    <3> QED
      BY <1>5, <3>1, <3>2 DEF WorkFinish
  <2> QED
    BY <2>1, <2>2, <2>3, RunBase DEF Base, ColumnsOK
<1> QED
  BY <1>2, <1>3, <1>4, <1>5 DEF Begin

\* BecomeDue changes nothing but due, in the row and in the lists.
LEMMA BecomeDueEffect ==
  ASSUME Base, NEW i \in Importers, BecomeDue(i)
  PROVE  /\ rows' = [rows EXCEPT ![i] = [rows[i] EXCEPT !.due = TRUE]]
         /\ rows[i] \in Row
         /\ UNCHANGED <<alive, runs, crashes>>
         /\ servers' \in [Replicas -> Server]
         /\ \A s \in Replicas :
              /\ servers'[s].pc = servers[s].pc
              /\ servers'[s].count = servers[s].count
              /\ servers'[s].toReap = servers[s].toReap
              /\ \A j \in Importers :
                   \/ servers'[s].list[j] = servers[s].list[j]
                   \/ servers[s].list[j] \in Row
                        /\ servers'[s].list[j] = [servers[s].list[j] EXCEPT !.due = TRUE]
<1>1. rows[i] \in Row
  BY DEF BecomeDue, Exists, Base, ColumnsOK
<1>2. rows' = [rows EXCEPT ![i] = [rows[i] EXCEPT !.due = TRUE]]
  BY <1>1 DEF BecomeDue, Base, ColumnsOK
<1>3. \A s \in Replicas : servers'[s] =
        IF servers[s].list[i] # NoRow /\ SortedBefore(servers[s].list[i], rows[i])
          THEN [servers[s] EXCEPT !.list[i].due = TRUE]
          ELSE servers[s]
  BY DEF BecomeDue
<1>4. ASSUME NEW s \in Replicas
      PROVE  /\ servers'[s] \in Server
             /\ servers'[s].pc = servers[s].pc
             /\ servers'[s].count = servers[s].count
             /\ servers'[s].toReap = servers[s].toReap
             /\ \A j \in Importers :
                  \/ servers'[s].list[j] = servers[s].list[j]
                  \/ servers[s].list[j] \in Row
                       /\ servers'[s].list[j] = [servers[s].list[j] EXCEPT !.due = TRUE]
  <2>1. servers[s] \in Server
    BY DEF Base, ColumnsOK
  <2>2. CASE servers'[s] = servers[s]
    BY <2>1, <2>2
  <2>3. CASE /\ servers[s].list[i] # NoRow
             /\ servers'[s] = [servers[s] EXCEPT !.list[i].due = TRUE]
    <3> DEFINE x == servers[s].list[i]
               y == [x EXCEPT !.due = TRUE]
               L == [servers[s].list EXCEPT ![i] = y]
    <3>1. x \in Row
      BY <2>1, <2>3 DEF Server
    <3>2. y \in Row
      BY <3>1 DEF Row
    <3>3. servers'[s] = [servers[s] EXCEPT !.list = L]
      BY <2>1, <2>3 DEF Server
    <3>4. L \in [Importers -> Row \cup {NoRow}]
      BY <2>1, <3>2 DEF Server
    <3>5. \A j \in Importers : L[j] = IF j = i THEN y ELSE servers[s].list[j]
      BY <2>1 DEF Server
    <3> HIDE DEF L
    <3>6. /\ servers'[s] \in Server
          /\ servers'[s].pc = servers[s].pc
          /\ servers'[s].count = servers[s].count
          /\ servers'[s].toReap = servers[s].toReap
          /\ servers'[s].list = L
      BY <2>1, <3>3, <3>4 DEF Server
    <3> QED
      BY <3>1, <3>5, <3>6
  <2> QED
    BY <1>3, <2>2, <2>3
<1>5. servers' \in [Replicas -> Server]
  BY <1>4 DEF BecomeDue
<1> QED
  BY <1>1, <1>2, <1>4, <1>5 DEF BecomeDue

LEMMA BaseTime ==
  ASSUME Base, NEW i \in Importers, BecomeDue(i) \/ \E b \in Beats : Expire(i, b)
  PROVE  Base'
<1>1. ASSUME NEW b \in Beats, Expire(i, b) PROVE Base'
  BY <1>1 DEF Expire, Base, ColumnsOK, RunShape, LoopShape, Target
<1>2. CASE BecomeDue(i)
  <2>1. rows' \in [Importers -> Row \cup {NoRow}]
    <3>1. rows' = [rows EXCEPT ![i] = [rows[i] EXCEPT !.due = TRUE]] /\ rows[i] \in Row
      BY <1>2, BecomeDueEffect
    <3>2. [rows[i] EXCEPT !.due = TRUE] \in Row
      BY <3>1 DEF Row
    <3> QED
      BY <3>1, <3>2 DEF Base, ColumnsOK
  <2>2. ASSUME NEW s \in Replicas PROVE LoopShape(s)'
    <3>1. \A j \in Importers : servers'[s].list[j] = NoRow <=> servers[s].list[j] = NoRow
      <4> TAKE j \in Importers
      <4>1. ASSUME NEW x \in Row
            PROVE  x # NoRow /\ [x EXCEPT !.due = TRUE] # NoRow
        <5>1. [x EXCEPT !.due = TRUE] \in Row
          BY DEF Row
        <5> QED
          BY <5>1, ServerAssumption
      <4>2. \/ servers'[s].list[j] = servers[s].list[j]
            \/ servers[s].list[j] \in Row
                 /\ servers'[s].list[j] = [servers[s].list[j] EXCEPT !.due = TRUE]
        BY <1>2, BecomeDueEffect
      <4> QED
        BY <4>1, <4>2
    <3>2. servers[s] \in Server
      BY DEF Base, ColumnsOK
    <3>3. /\ servers'[s].pc = servers[s].pc
          /\ servers'[s].toReap = servers[s].toReap
      BY <1>2, BecomeDueEffect
    <3> QED
      BY <3>1, <3>2, <3>3 DEF Base, LoopShape, Server
  <2> QED
    BY <2>1, <2>2, <1>2, BecomeDueEffect DEF Base, ColumnsOK, RunShape, Target
<1> QED
  BY <1>1, <1>2

LEMMA BaseNext == Base /\ [Next]_vars => Base'
<1> SUFFICES ASSUME Base, [Next]_vars PROVE Base'
  OBVIOUS
<1>1. CASE ClientNext
  BY <1>1, BaseClients DEF ClientNext
<1>2. ASSUME NEW s \in Replicas, Loop(s) \/ ListError(s) \/ Crash(s) \/ Restart(s) PROVE Base'
  BY <1>2, BaseLoop
<1>3. ASSUME NEW r \in Runs, Pump(r) PROVE Base'
  BY <1>3, BasePump
<1>4. ASSUME NEW r \in Runs, Begin(r) \/ WorkCheck(r) \/ WorkCheckError(r) \/ WorkFinish(r)
      PROVE  Base'
  BY <1>4, BaseWork
<1>5. ASSUME NEW i \in Importers, BecomeDue(i) \/ \E b \in Beats : Expire(i, b) PROVE Base'
  BY <1>5, BaseTime
<1>6. CASE UNCHANGED vars
  BY <1>6 DEF vars, Base, ColumnsOK, RunShape, LoopShape, Target
<1> QED
  BY <1>1, <1>2, <1>3, <1>4, <1>5, <1>6 DEF Next

THEOREM BaseInvariance == Spec => []Base
BY BaseInit, BaseNext, PTL DEF Spec

LEMMA StrayedNext ==
  ASSUME Base, strayed \subseteq Importers, [Next]_vars
  PROVE  strayed' \subseteq Importers
<1>1. ASSUME NEW i \in Importers, NEW b, FinishedKnowing(i, b) PROVE strayed' \subseteq Importers
  BY <1>1 DEF FinishedKnowing
<1>2. ASSUME NEW r \in Runs, WorkFinish(r) PROVE strayed' \subseteq Importers
  <2>1. Target(r) \in Importers
    BY <1>2 DEF WorkFinish, Base, RunShape
  <2> QED
    BY <1>1, <1>2, <2>1 DEF WorkFinish
<1>3. ASSUME NEW s \in Replicas, Loop(s) \/ ListError(s) \/ Crash(s) \/ Restart(s)
      PROVE  strayed' \subseteq Importers
  BY <1>1, <1>3 DEF Loop, List, ReapSkip, Reap, ReapError, Spawn, ListError, Crash, Restart
<1>4. ASSUME NEW r \in Runs, Pump(r) \/ Begin(r) \/ WorkCheck(r) \/ WorkCheckError(r)
      PROVE  strayed' \subseteq Importers
  BY <1>4 DEF Pump, Acquire, AcquireFail, BeatOk, BeatFail, Begin, WorkStart, WorkStartError,
              WorkCheck, WorkCheckError
<1>5. CASE ClientNext
  BY <1>5 DEF ClientNext, Create, Delete, ForceRun, SetEnabled
<1>6. ASSUME NEW i \in Importers, BecomeDue(i) \/ \E b \in Beats : Expire(i, b)
      PROVE  strayed' \subseteq Importers
  BY <1>6 DEF BecomeDue, Expire
<1>7. CASE UNCHANGED vars
  BY <1>7 DEF vars
<1> QED
  BY <1>2, <1>3, <1>4, <1>5, <1>6, <1>7 DEF Next

\* The table, the lists and the Hearts always have the values the code can store in
\* them; the times stay natural numbers, although they are numbered again.
THEOREM TypeCorrect == Spec => []TypeOK
<1>1. Init => Base /\ strayed \subseteq Importers
  BY BaseInit DEF Init
<1>2. Base /\ strayed \subseteq Importers /\ [Next]_vars => (Base /\ strayed \subseteq Importers)'
  BY BaseNext, StrayedNext
<1>3. Base /\ strayed \subseteq Importers => TypeOK
  BY DEF Base, ColumnsOK, TypeOK
<1> QED
  BY <1>1, <1>2, <1>3, PTL DEF Spec

-----------------------------------------------------------------------------
(* The number of Hearts. *)

\* While a loop works on its list the Hearts of its replica are at most as many as it
\* counted: meanwhile they only end.
Counted(s) ==
  /\ Cardinality(LiveOn(s)) <= Concurrency
  /\ servers[s].count <= Concurrency
  /\ servers[s].pc = "loop" => Cardinality(LiveOn(s)) <= servers[s].count

\* What the steps of a Heart, of its pump or of its import, leave alone.
LEMMA HeartStep ==
  ASSUME Base, NEW r \in Runs,
         Pump(r) \/ Begin(r) \/ WorkCheck(r) \/ WorkCheckError(r) \/ WorkFinish(r)
  PROVE  /\ \A q \in Runs : q # r =>
              /\ runs'[q].pump = runs[q].pump /\ runs'[q].target = runs[q].target
              /\ runs'[q].known = runs[q].known /\ runs'[q].work = runs[q].work
              /\ runs'[q].cancelled = runs[q].cancelled
         /\ runs[r].pump # "off"
         /\ runs'[r].pump # "off" => runs'[r].target = runs[r].target
         /\ \A s \in Replicas : /\ servers'[s].pc = servers[s].pc
                                /\ servers'[s].count = servers[s].count
                                /\ servers'[s].toReap = servers[s].toReap
         /\ crashes' = crashes
<1>0. runs \in [Runs -> Run] /\ runs[r] \in Run
  BY DEF Base, ColumnsOK
<1>1. runs[r].work # "none" => runs[r].pump = "hold"
  BY DEF Base, RunShape
<1> DEFINE b == CHOOSE b \in FreshBeats(Target(r)) : TRUE
           Others == \A q \in Runs : q # r => runs'[q] = runs[q]
           Result == runs'[r].pump # "off" => runs'[r].target = runs[r].target
<1>2. ASSUME Pump(r)
      PROVE  Others /\ Result /\ runs[r].pump # "off" /\ UNCHANGED <<servers, crashes>>
  <2> HIDE DEF b
  <2>1. CASE Acquire(r)
    <3>1. /\ runs[r].pump = "acquire" /\ UNCHANGED <<servers, crashes>>
          /\ runs' = [runs EXCEPT ![r].pump = "hold", ![r].known = b, ![r].work = "ready"]
      BY <2>1 DEF Acquire, b
    <3> QED
      BY <3>1, <1>0 DEF Run
  <2>2. CASE AcquireFail(r)
    BY <2>2, <1>0, OffFields DEF AcquireFail
  <2>3. CASE BeatOk(r)
    <3>1. /\ runs[r].pump = "hold" /\ UNCHANGED <<servers, crashes>>
          /\ runs' = [runs EXCEPT ![r] =
                        IF @.work = "done" THEN Off ELSE [@ EXCEPT !.known = b]]
      BY <2>3 DEF BeatOk, b
    <3> QED
      BY <3>1, <1>0, OffFields DEF Run
  <2>4. CASE BeatFail(r)
    BY <2>4, <1>0, OffFields DEF BeatFail, Run
  <2> QED
    BY <1>2, <2>1, <2>2, <2>3, <2>4 DEF Pump
<1>3. ASSUME WorkStartError(r) \/ WorkCheck(r) \/ WorkCheckError(r) \/ WorkFinish(r)
      PROVE  Others /\ Result /\ runs[r].pump # "off" /\ UNCHANGED <<servers, crashes>>
  <2>1. CASE WorkStartError(r)
    BY <2>1, <1>0, <1>1 DEF WorkStartError, Run
  <2>2. CASE WorkCheck(r) \/ WorkCheckError(r)
    <3>1. /\ runs[r].work = "running" /\ UNCHANGED <<servers, crashes>>
          /\ runs' = [runs EXCEPT ![r].cancelled = TRUE]
      BY <2>2 DEF WorkCheck, WorkCheckError
    <3> QED
      BY <3>1, <1>0, <1>1 DEF Run
  <2>3. CASE WorkFinish(r)
    <3>1. /\ runs[r].work = "running" /\ UNCHANGED <<servers, crashes>>
          /\ runs' = [runs EXCEPT ![r].work = "done", ![r].start = Never]
      BY <2>3 DEF WorkFinish
    <3> QED
      BY <3>1, <1>0, <1>1 DEF Run
  <2> QED
    BY <1>3, <2>1, <2>2, <2>3
<1>4. CASE Pump(r) \/ WorkStartError(r) \/ WorkCheck(r) \/ WorkCheckError(r) \/ WorkFinish(r)
  <2>1. Others /\ Result /\ runs[r].pump # "off" /\ UNCHANGED <<servers, crashes>>
    BY <1>2, <1>3, <1>4
  <2> QED
    BY <2>1
<1>5. CASE WorkStart(r)
  <2>1. \A q \in Runs : q # r => runs'[q] = [runs[q] EXCEPT !.start = Renumber(@)]
    BY <1>5, WorkStartEffect
  <2>2. runs'[r] = [runs[r] EXCEPT !.work = "running", !.start = 0]
    BY <1>5, WorkStartEffect
  <2>3. runs[r].pump # "off" /\ crashes' = crashes
    BY <1>1, <1>5 DEF WorkStart
  <2>4. ASSUME NEW q \in Runs, q # r
        PROVE  /\ runs'[q].pump = runs[q].pump /\ runs'[q].target = runs[q].target
               /\ runs'[q].known = runs[q].known /\ runs'[q].work = runs[q].work
               /\ runs'[q].cancelled = runs[q].cancelled
    <3>1. runs[q] \in Run /\ runs'[q] = [runs[q] EXCEPT !.start = Renumber(runs[q].start)]
      BY <1>0, <2>1, <2>4
    <3> QED
      BY <3>1 DEF Run
  <2>5. runs'[r].target = runs[r].target
    BY <1>0, <2>2 DEF Run
  <2> QED
    BY <2>3, <2>4, <2>5, <1>5, WorkStartEffect
<1> QED
  BY <1>4, <1>5 DEF Begin

\* What is counted for s stays bounded when no Heart is added.
LEMMA CountKept ==
  ASSUME Base, NEW s \in Replicas, Counted(s), LiveOn(s)' \subseteq LiveOn(s),
         \/ servers'[s].count = servers[s].count /\ servers'[s].pc = servers[s].pc
         \/ servers'[s].count = 0 /\ servers'[s].pc # "loop"
         \/ servers'[s].count = Cardinality(LiveOn(s))
  PROVE  Counted(s)'
<1>1. Cardinality(LiveOn(s)') <= Cardinality(LiveOn(s)) /\ Cardinality(LiveOn(s)') \in Nat
  BY LiveOnFinite, FS_Subset, FS_CardinalityType
<1>2. /\ Cardinality(LiveOn(s)) \in Nat /\ Cardinality(LiveOn(s)) <= Concurrency
      /\ servers[s].count <= Concurrency
      /\ servers[s].pc = "loop" => Cardinality(LiveOn(s)) <= servers[s].count
      /\ servers[s].count \in Nat /\ Concurrency \in Nat
  BY LiveOnFinite, ServerAssumption DEF Counted, Base, ColumnsOK, Server
<1> DEFINE n == Cardinality(LiveOn(s)')
           m == Cardinality(LiveOn(s))
<1>3. n <= m /\ n \in Nat /\ m \in Nat
  BY <1>1, <1>2
<1> SUFFICES /\ n <= Concurrency
             /\ servers'[s].count <= Concurrency
             /\ servers'[s].pc = "loop" => n <= servers'[s].count
  BY DEF Counted
<1>4. m <= Concurrency /\ (servers[s].pc = "loop" => m <= servers[s].count)
  BY <1>2
<1>5. \/ servers'[s].count = servers[s].count /\ servers'[s].pc = servers[s].pc
      \/ servers'[s].count = 0 /\ servers'[s].pc # "loop"
      \/ servers'[s].count = m
  OBVIOUS
<1> HIDE DEF n, m
<1> QED
  BY <1>2, <1>3, <1>4, <1>5

LEMMA CountedSpawn ==
  ASSUME Base, NEW s \in Replicas, Spawn(s), \A t \in Replicas : Counted(t)
  PROVE  \A t \in Replicas : Counted(t)'
<1>1. PICK S \in SUBSET Importers : \E f \in [S -> FreeSlots(s)] :
           /\ Taken(s, S)
           /\ \A i, j \in S : f[i] = f[j] => i = j
           /\ \A i \in S : runs'[f[i]] = Started(s, i)
           /\ \A r \in Runs : (\A i \in S : f[i] # r) => runs'[r] = runs[r]
  BY SpawnEffect DEF Base
<1>2. PICK slot \in [S -> FreeSlots(s)] :
           /\ Taken(s, S)
           /\ \A r \in Runs : (\A i \in S : slot[i] # r) => runs'[r] = runs[r]
  BY <1>1
<1>3. servers' = [servers EXCEPT ![s] = Stopped("idle")] /\ servers[s].pc = "loop"
  BY DEF Spawn, EndLoop
<1> DEFINE Added == {slot[i] : i \in S}
<1>4. /\ IsFiniteSet(S) /\ Cardinality(S) \in Nat
      /\ IsFiniteSet(Added) /\ Cardinality(Added) <= Cardinality(S) /\ Cardinality(Added) \in Nat
  <2>1. IsFiniteSet(S)
    BY ServerAssumption, FS_Subset
  <2> QED
    BY <2>1, ImageFinite, FS_CardinalityType
<1>5. \A r \in Added : Host(r) = s
  BY DEF FreeSlots
<1>6. \A t \in Replicas : LiveOn(t)' \subseteq LiveOn(t) \cup (IF t = s THEN Added ELSE {})
  BY <1>2, <1>5 DEF LiveOn, Live
<1> HIDE DEF Added
<1>7. Cardinality(S) <= Concurrency - servers[s].count
  BY <1>2, <1>4 DEF Taken
<1>8. Counted(s)'
  <2>1. LiveOn(s)' \in SUBSET (LiveOn(s) \cup Added)
    BY <1>6
  <2>2. IsFiniteSet(LiveOn(s)) /\ Cardinality(LiveOn(s)) \in Nat
    BY LiveOnFinite
  <2>3. /\ IsFiniteSet(LiveOn(s) \cup Added)
        /\ Cardinality(LiveOn(s) \cup Added)
             = Cardinality(LiveOn(s)) + Cardinality(Added) - Cardinality(LiveOn(s) \cap Added)
        /\ Cardinality(LiveOn(s) \cap Added) \in Nat
    BY <1>4, <2>2, FS_Union, FS_Intersection, FS_CardinalityType
  <2>4. /\ Cardinality(LiveOn(s)') \in Nat
        /\ Cardinality(LiveOn(s)') <= Cardinality(LiveOn(s) \cup Added)
    BY <2>1, <2>3, FS_Subset, FS_CardinalityType
  <2>5. /\ Cardinality(LiveOn(s)) <= servers[s].count /\ servers[s].count \in Nat
        /\ Concurrency \in Nat
    BY <1>3, ServerAssumption DEF Counted, Base, ColumnsOK, Server
  <2> DEFINE n == Cardinality(LiveOn(s)')
             m == Cardinality(LiveOn(s))
             k == Cardinality(LiveOn(s) \cup Added)
             d == Cardinality(LiveOn(s) \cap Added)
             a == Cardinality(Added)
  <2>6. /\ n \in Nat /\ m \in Nat /\ d \in Nat /\ a \in Nat
        /\ n <= k /\ k = m + a - d /\ a <= Cardinality(S) /\ m <= servers[s].count
    BY <1>4, <2>2, <2>3, <2>4, <2>5
  <2>7. n <= Concurrency
    <3> HIDE DEF n, m, k, d, a
    <3> QED
      BY <1>4, <1>7, <2>5, <2>6
  <2>8. servers'[s].count = 0 /\ servers'[s].pc = "idle"
    BY <1>3 DEF Stopped, Base, ColumnsOK
  <2> QED
    BY <2>5, <2>7, <2>8 DEF Counted
<1>9. ASSUME NEW t \in Replicas, t # s PROVE Counted(t)'
  <2>1. servers'[t] = servers[t]
    BY <1>3, <1>9 DEF Base, ColumnsOK
  <2>2. LiveOn(t)' \subseteq LiveOn(t)
    BY <1>6, <1>9
  <2> QED
    BY <2>1, <2>2, <1>9, CountKept
<1> QED
  BY <1>8, <1>9

LEMMA CountedNext ==
  ASSUME Base, \A s \in Replicas : Counted(s), [Next]_vars
  PROVE  \A s \in Replicas : Counted(s)'
<1>1. ASSUME UNCHANGED <<servers, runs>>
      PROVE  \A s \in Replicas : Counted(s)'
  BY <1>1 DEF Counted, LiveOn, Live
<1>2. CASE ClientNext
  BY <1>1, <1>2 DEF ClientNext, Create, Delete, ForceRun, SetEnabled
<1>3. ASSUME NEW s \in Replicas, Loop(s) \/ ListError(s) \/ Crash(s) \/ Restart(s)
      PROVE  \A t \in Replicas : Counted(t)'
  <2>0. servers \in [Replicas -> Server]
    BY DEF Base, ColumnsOK
  <2>1. CASE Spawn(s)
    BY <2>1, CountedSpawn
  <2>2. CASE List(s)
    <3>1. /\ servers'[s].count = Cardinality(LiveOn(s))
          /\ \A t \in Replicas : t # s => servers'[t] = servers[t]
          /\ \A t \in Replicas : LiveOn(t)' = LiveOn(t)
      BY <2>0, <2>2 DEF List, LiveOn, Live
    <3> QED
      BY <3>1, CountKept
  <2>3. ASSUME NEW i \in Importers, ReapSkip(s, i) \/ Reap(s, i)
        PROVE  \A t \in Replicas : Counted(t)'
    <3>1. Reaped(s, i) /\ runs' = runs
      BY <2>3 DEF ReapSkip, Reap
    <3>2. \A t \in Replicas : /\ servers'[t].count = servers[t].count
                              /\ servers'[t].pc = servers[t].pc
      BY <2>0, <3>1 DEF Reaped, Server
    <3>3. \A t \in Replicas : LiveOn(t)' = LiveOn(t)
      BY <3>1 DEF LiveOn, Live
    <3> QED
      BY <3>2, <3>3, CountKept
  <2>4. ASSUME NEW pc \in {"idle", "exited", "down"}, StopServer(s, pc)
        PROVE  \A t \in Replicas : Counted(t)'
    <3>1. \A t \in Replicas : IF t = s THEN servers'[t].count = 0 /\ servers'[t].pc = pc
                                       ELSE servers'[t] = servers[t]
      BY <2>0, <2>4 DEF StopServer, EndLoop, Stopped
    <3>2. \A r \in Runs : runs'[r] = runs[r] \/ runs'[r] = Off
      BY <2>4 DEF StopServer
    <3>3. \A t \in Replicas : LiveOn(t)' \subseteq LiveOn(t)
      BY <3>2, OffFields DEF LiveOn, Live
    <3> QED
      BY <3>1, <3>3, CountKept
  <2>5. CASE Restart(s)
    <3>1. \A t \in Replicas : IF t = s THEN servers'[t].count = 0 /\ servers'[t].pc = "idle"
                                       ELSE servers'[t] = servers[t]
      BY <2>0, <2>5 DEF Restart, Stopped
    <3>2. \A t \in Replicas : LiveOn(t)' = LiveOn(t)
      BY <2>5 DEF Restart, LiveOn, Live
    <3> QED
      BY <3>1, <3>2, CountKept
  <2> QED
    BY <1>3, <2>1, <2>2, <2>3, <2>4, <2>5 DEF Loop, ReapError, ListError, Crash
<1>4. ASSUME NEW r \in Runs,
             Pump(r) \/ Begin(r) \/ WorkCheck(r) \/ WorkCheckError(r) \/ WorkFinish(r)
      PROVE  \A t \in Replicas : Counted(t)'
  <2>1. \A q \in Runs : runs'[q].pump # "off" => runs[q].pump # "off"
    BY <1>4, HeartStep
  <2>2. \A t \in Replicas : LiveOn(t)' \subseteq LiveOn(t)
    BY <2>1 DEF LiveOn, Live
  <2>3. \A t \in Replicas : /\ servers'[t].count = servers[t].count
                            /\ servers'[t].pc = servers[t].pc
    BY <1>4, HeartStep
  <2> QED
    BY <2>2, <2>3, CountKept
<1>5. ASSUME NEW i \in Importers, BecomeDue(i) PROVE \A t \in Replicas : Counted(t)'
  <2>1. runs' = runs /\ \A t \in Replicas : /\ servers'[t].count = servers[t].count
                                            /\ servers'[t].pc = servers[t].pc
    BY <1>5, BecomeDueEffect
  <2>2. \A t \in Replicas : LiveOn(t)' = LiveOn(t)
    BY <2>1 DEF LiveOn, Live
  <2> QED
    BY <2>1, <2>2, CountKept
<1>6. ASSUME NEW i \in Importers, NEW b \in Beats, Expire(i, b)
      PROVE  \A t \in Replicas : Counted(t)'
  BY <1>1, <1>6 DEF Expire
<1>7. CASE UNCHANGED vars
  BY <1>1, <1>7 DEF vars
<1> QED
  BY <1>2, <1>3, <1>4, <1>5, <1>6, <1>7 DEF Next

\* No replica ever has more Hearts than Server.concurrency, whatever is created,
\* deleted, reaped, crashes or fails between the count and take(concurrency - count).
THEOREM HeartsBounded == Spec => []ConcurrencyLimit
<1> DEFINE I == Base /\ \A s \in Replicas : Counted(s)
<1>1. Init => I
  <2> SUFFICES ASSUME Init PROVE \A s \in Replicas : Counted(s)
    BY BaseInit
  <2> TAKE s \in Replicas
  <2>1. LiveOn(s) = {}
    BY OffFields DEF Init, LiveOn, Live
  <2>2. servers[s].count = 0 /\ servers[s].pc = "idle"
    BY DEF Init, Stopped
  <2> QED
    BY <2>1, <2>2, FS_EmptySet, ServerAssumption DEF Counted
<1>2. I /\ [Next]_vars => I'
  <2> SUFFICES ASSUME I, [Next]_vars PROVE I'
    OBVIOUS
  <2>1. Base'
    BY BaseNext
  <2>2. \A s \in Replicas : Counted(s)'
    BY CountedNext
  <2> QED
    BY <2>1, <2>2
<1>3. I => ConcurrencyLimit
  BY DEF ConcurrencyLimit, Counted
<1> QED
  <2> HIDE DEF I
  <2> QED
    BY <1>1, <1>2, <1>3, PTL DEF Spec

-----------------------------------------------------------------------------
(* Who has the row of an importer, while pumps keep their pace: whatever loops do with *)
(* old lists, and whatever is deleted, created again, crashes or fails.                *)

\* A Heart starts from a heartbeat that has expired; as long as it has the row and missed
\* no beat, its heartbeat is alive.
KnownBeat(r) ==
  /\ runs[r].pump = "acquire" => runs[r].known \notin alive[Target(r)]
  /\ runs[r].pump = "hold" => runs[r].known \in Beats
  /\ Holds(r) /\ ~runs[r].cancelled => runs[r].known \in alive[Target(r)]

OneHolder ==
  \A r, q \in Runs : Holds(r) /\ Holds(q) /\ Target(r) = Target(q) => r = q

LeaseInv == (\A r \in Runs : KnownBeat(r)) /\ OneHolder

LEMMA LeaseInit == Init => LeaseInv
<1> SUFFICES ASSUME Init PROVE LeaseInv
  OBVIOUS
<1>1. \A r \in Runs : runs[r].pump = "off"
  BY OffFields DEF Init
<1> QED
  BY <1>1 DEF LeaseInv, KnownBeat, OneHolder, Holds

\* What a step that writes no heartbeat does to the rows and to the Hearts
RowKept(i) ==
  \/ rows'[i] = NoRow
  \/ rows[i] = NoRow /\ rows'[i].heartbeat = NoBeat
  \/ rows[i] # NoRow /\ rows'[i].heartbeat = rows[i].heartbeat

SameHeart(r) ==
  /\ runs'[r].pump = runs[r].pump /\ runs'[r].target = runs[r].target
  /\ runs'[r].known = runs[r].known
  /\ runs[r].cancelled => runs'[r].cancelled

NewHeart(r) ==
  /\ runs[r].pump = "off" /\ runs'[r].pump = "acquire" /\ runs'[r].target \in Importers
  /\ runs'[r].known \notin alive[runs'[r].target]

Quiet ==
  /\ \A i \in Importers : RowKept(i) /\ alive'[i] \subseteq alive[i]
  /\ \A r \in Runs :
       /\ runs'[r].pump = "off" \/ SameHeart(r) \/ NewHeart(r)
       /\ Holds(r) /\ ~runs[r].cancelled /\ runs[r].known \in alive[Target(r)]
          => rows'[Target(r)] = NoRow \/ runs[r].known \in alive'[Target(r)]

\* The pump of r writes heartbeat b; the answer may be lost.
Beat(r, b) ==
  /\ Target(r) \in Importers /\ b \in Beats
  /\ runs[r].pump \in {"acquire", "hold"} /\ Matches(r)
  /\ \A q \in Runs : Target(q) = Target(r) => runs[q].known # b
  /\ WriteBeat(Target(r), b)
  /\ \A q \in Runs : q # r => SameHeart(q) /\ runs'[q].cancelled = runs[q].cancelled
  /\ \/ runs'[r].pump = "off"
     \/ /\ runs'[r].pump = "hold" /\ runs'[r].target = runs[r].target /\ runs'[r].known = b
        /\ runs[r].cancelled => runs'[r].cancelled
     \/ runs[r].pump = "hold" /\ SameHeart(r) /\ runs'[r].cancelled

\* Nobody comes to have a row in such a step.
LEMMA QuietHolds ==
  ASSUME Base, LeaseInv, Quiet, NEW r \in Runs, Holds(r)'
  PROVE  SameHeart(r) /\ Holds(r) /\ Target(r) \in Importers /\ Target(r)' = Target(r)
         /\ rows'[Target(r)] # NoRow
<1>1. runs'[r].pump = "hold" /\ Exists(Target(r))' /\ rows'[Target(r)'].heartbeat = runs'[r].known
  BY DEF Holds, Matches
<1>2. SameHeart(r)
  BY <1>1 DEF Quiet, NewHeart
<1>3. Target(r) \in Importers /\ Target(r)' = Target(r) /\ runs[r].pump = "hold"
  BY <1>1, <1>2 DEF Base, RunShape, SameHeart, Target
<1>4. runs[r].known \in Beats /\ runs[r].known # NoBeat
  BY <1>3, ServerAssumption DEF LeaseInv, KnownBeat
<1>5. rows[Target(r)] # NoRow /\ rows'[Target(r)].heartbeat = rows[Target(r)].heartbeat
  BY <1>1, <1>2, <1>3, <1>4 DEF Quiet, RowKept, SameHeart, Exists
<1> QED
  BY <1>1, <1>2, <1>3, <1>5 DEF Holds, Matches, Exists, SameHeart

LEMMA LeaseQuiet ==
  ASSUME Base, LeaseInv, Quiet
  PROVE  LeaseInv'
<1>1. ASSUME NEW r \in Runs PROVE KnownBeat(r)'
  <2>1. runs'[r].pump = "acquire" => runs'[r].known \notin alive'[Target(r)']
    <3>1. CASE SameHeart(r) /\ runs'[r].pump = "acquire"
      <4>1. Target(r) \in Importers /\ Target(r)' = Target(r) /\ runs[r].pump = "acquire"
        BY <3>1 DEF SameHeart, Target, Base, RunShape
      <4> QED
        BY <3>1, <4>1 DEF SameHeart, LeaseInv, KnownBeat, Quiet
    <3>2. CASE NewHeart(r)
      BY <3>2 DEF NewHeart, Quiet, Target
    <3> QED
      BY <3>1, <3>2 DEF Quiet
  <2>2. runs'[r].pump = "hold" => runs'[r].known \in Beats
    BY DEF Quiet, SameHeart, NewHeart, LeaseInv, KnownBeat
  <2>3. ASSUME Holds(r)', ~runs'[r].cancelled PROVE runs'[r].known \in alive'[Target(r)']
    <3>1. SameHeart(r) /\ Holds(r) /\ Target(r)' = Target(r) /\ rows'[Target(r)] # NoRow
      BY <2>3, QuietHolds
    <3>2. ~runs[r].cancelled /\ runs'[r].known = runs[r].known
      BY <3>1, <2>3 DEF SameHeart
    <3> QED
      BY <3>1, <3>2 DEF LeaseInv, KnownBeat, Quiet
  <2> QED
    BY <2>1, <2>2, <2>3 DEF KnownBeat
<1>2. OneHolder'
  BY QuietHolds DEF OneHolder, LeaseInv
<1> QED
  BY <1>1, <1>2 DEF LeaseInv

\* Who writes a heartbeat is the only one who has the row, if anyone has.
LEMMA BeatAlone ==
  ASSUME Base, LeaseInv, NEW r \in Runs, NEW b, Beat(r, b), NEW q \in Runs, q # r,
         Holds(q), Target(q) = Target(r)
  PROVE  runs[r].pump = "acquire" /\ runs[q].cancelled
<1>1. runs[q].known = runs[r].known
  BY DEF Beat, Holds, Matches
<1>2. runs[r].pump # "hold"
  BY DEF Beat, Holds, LeaseInv, OneHolder
<1> QED
  BY <1>1, <1>2 DEF Beat, LeaseInv, KnownBeat

\* What a beat leaves: the row has b, and other rows are as they were.
LEMMA BeatEffect ==
  ASSUME Base, NEW r \in Runs, NEW b, Beat(r, b)
  PROVE  /\ rows'[Target(r)] # NoRow /\ rows'[Target(r)].heartbeat = b
         /\ rows'[Target(r)].state = rows[Target(r)].state
         /\ b \in alive'[Target(r)]
         /\ alive'[Target(r)] \subseteq alive[Target(r)] \cup {b}
         /\ \A i \in Importers :
              i # Target(r) => rows'[i] = rows[i] /\ alive'[i] = alive[i]
<1>1. Target(r) \in Importers /\ b \in Beats /\ WriteBeat(Target(r), b)
  BY DEF Beat
<1>2. rows[Target(r)] \in Row /\ rows \in [Importers -> Row \cup {NoRow}]
      /\ alive \in [Importers -> SUBSET Beats]
  BY <1>1 DEF Beat, Matches, Exists, Base, ColumnsOK
<1> DEFINE y == [rows[Target(r)] EXCEPT !.heartbeat = b]
<1>3. y \in Row /\ y.heartbeat = b /\ y.state = rows[Target(r)].state
  BY <1>1, <1>2 DEF Row
<1>4. rows' = [rows EXCEPT ![Target(r)] = y]
  BY <1>1 DEF WriteBeat
<1>5. alive' = [alive EXCEPT ![Target(r)] = (@ \cap Listed(Target(r), Replicas)) \cup {b}]
  BY <1>1 DEF WriteBeat
<1> HIDE DEF y
<1> QED
  BY <1>1, <1>2, <1>3, <1>4, <1>5, ServerAssumption

\* After a beat of r the others that have a row had it before, and r has it with b.
LEMMA BeatHolds ==
  ASSUME Base, LeaseInv, NEW r \in Runs, NEW b, Beat(r, b), NEW q \in Runs, Holds(q)'
  PROVE  /\ Target(q)' = Target(q) /\ Target(q) \in Importers
         /\ q = r => runs'[r].known = b
         /\ q # r => SameHeart(q) /\ Holds(q) /\ Target(q) # Target(r)
                     /\ runs'[q].cancelled = runs[q].cancelled
<1>1. runs'[q].pump = "hold" /\ Exists(Target(q))' /\ rows'[Target(q)'].heartbeat = runs'[q].known
  BY DEF Holds, Matches
<1>2. CASE q = r
  <2>1. Target(r)' = Target(r) /\ Target(r) \in Importers
    BY <1>1, <1>2 DEF Beat, SameHeart, Target
  <2>2. runs'[r].known = b
    BY <1>1, <1>2, <2>1, BeatEffect
  <2> QED
    BY <1>2, <2>1, <2>2
<1>3. CASE q # r
  <2>1. SameHeart(q) /\ runs'[q].cancelled = runs[q].cancelled
    BY <1>3 DEF Beat
  <2>2. Target(q)' = Target(q) /\ Target(q) \in Importers /\ runs[q].pump = "hold"
    BY <1>1, <2>1 DEF SameHeart, Target, Base, RunShape
  <2>3. Target(q) # Target(r)
    BY <1>1, <2>1, <2>2, BeatEffect DEF Beat, SameHeart
  <2>4. Holds(q)
    BY <1>1, <2>1, <2>2, <2>3, BeatEffect DEF Holds, Matches, Exists, SameHeart
  <2> QED
    BY <1>3, <2>1, <2>2, <2>3, <2>4
<1> QED
  BY <1>2, <1>3

LEMMA LeaseBeat ==
  ASSUME Base, LeaseInv, NEW r \in Runs, NEW b, Beat(r, b)
  PROVE  LeaseInv'
<1>1. ASSUME NEW q \in Runs PROVE KnownBeat(q)'
  <2>1. ASSUME runs'[q].pump = "acquire" PROVE runs'[q].known \notin alive'[Target(q)']
    <3>1. q # r /\ SameHeart(q)
      BY <2>1 DEF Beat, SameHeart
    <3>2. Target(q)' = Target(q) /\ runs[q].pump = "acquire" /\ Target(q) \in Importers
      BY <2>1, <3>1 DEF SameHeart, Target, Base, RunShape
    <3>3. runs[q].known \notin alive[Target(q)]
      BY <3>2 DEF LeaseInv, KnownBeat
    <3>4. Target(q) = Target(r) => runs[q].known # b
      BY DEF Beat
    <3> QED
      BY <3>1, <3>2, <3>3, <3>4, BeatEffect DEF SameHeart
  <2>2. runs'[q].pump = "hold" => runs'[q].known \in Beats
    BY DEF Beat, SameHeart, LeaseInv, KnownBeat
  <2>3. ASSUME Holds(q)', ~runs'[q].cancelled PROVE runs'[q].known \in alive'[Target(q)']
    <3>1. CASE q = r
      BY <2>3, <3>1, BeatHolds, BeatEffect
    <3>2. CASE q # r
      BY <2>3, <3>2, BeatHolds, BeatEffect DEF LeaseInv, KnownBeat, SameHeart
    <3> QED
      BY <3>1, <3>2
  <2> QED
    BY <2>1, <2>2, <2>3 DEF KnownBeat
<1>2. OneHolder'
  <2> SUFFICES ASSUME NEW p \in Runs, NEW q \in Runs, Holds(p)', Holds(q)',
                      Target(p)' = Target(q)'
               PROVE  p = q
    BY DEF OneHolder
  <2> QED
    BY BeatHolds DEF LeaseInv, OneHolder
<1> QED
  BY <1>1, <1>2 DEF LeaseInv

\* Steps that start no import and finish none.
Plain ==
  /\ \A i \in Importers :
       rows[i] # NoRow /\ rows'[i] # NoRow => rows'[i].state = rows[i].state
  /\ strayed' = strayed
  /\ \A r \in Runs : Working(r)' => Working(r)

LEMMA QuietRows ==
  ASSUME \A i \in Importers : RowKept(i), alive' = alive,
         \A r \in Runs : runs'[r].pump = "off" \/ SameHeart(r)
  PROVE  Quiet
BY DEF Quiet

LEMMA QuietClients ==
  ASSUME Base, ClientNext
  PROVE  Quiet /\ Plain
<1>1. rows \in [Importers -> Row \cup {NoRow}]
  BY DEF Base, ColumnsOK
<1>2. PICK i \in Importers : Create(i) \/ Delete(i) \/ ForceRun(i) \/ SetEnabled(i)
  BY DEF ClientNext
<1>3. runs' = runs /\ strayed' = strayed
  BY <1>2 DEF Create, Delete, ForceRun, SetEnabled
<1>4. \A r \in Runs : SameHeart(r) /\ (Working(r)' => Working(r))
  BY <1>3 DEF SameHeart, Working
<1>5. ASSUME NEW y, rows' = [rows EXCEPT ![i] = y], alive' = alive,
             \/ rows[i] = NoRow /\ y.heartbeat = NoBeat
             \/ rows[i] # NoRow /\ y.heartbeat = rows[i].heartbeat /\ y.state = rows[i].state
      PROVE  Quiet /\ Plain
  <2>1. \A j \in Importers : RowKept(j)
    BY <1>1, <1>5 DEF RowKept
  <2> QED
    BY <1>1, <1>3, <1>4, <1>5, <2>1, QuietRows DEF Plain
<1>6. CASE Create(i)
  BY <1>5, <1>6 DEF Create, Exists, NewRow
<1>7. CASE Delete(i)
  <2>1. /\ rows' = [rows EXCEPT ![i] = NoRow]
        /\ alive' = [alive EXCEPT ![i] = @ \cap Listed(i, Replicas)]
    BY <1>7 DEF Delete
  <2>2. \A j \in Importers : RowKept(j)
    BY <1>1, <2>1 DEF RowKept
  <2>3. \A j \in Importers : alive'[j] \subseteq alive[j]
    BY <2>1 DEF Base, ColumnsOK
  <2>4. ASSUME NEW r \in Runs, Holds(r), runs[r].known \in alive[Target(r)]
        PROVE  rows'[Target(r)] = NoRow \/ runs[r].known \in alive'[Target(r)]
    <3>1. Target(r) \in Importers
      BY <2>4 DEF Holds, Base, RunShape
    <3> QED
      BY <1>1, <2>1, <2>4, <3>1 DEF Base, ColumnsOK
  <2> QED
    BY <1>1, <1>3, <1>4, <2>1, <2>2, <2>3, <2>4 DEF Quiet, Plain
<1>8. CASE ForceRun(i) \/ SetEnabled(i)
  <2>1. rows[i] \in Row /\ rows[i] # NoRow
    BY <1>1, <1>8 DEF ForceRun, SetEnabled, Exists
  <2> DEFINE y == Reset(rows[i])
             z == [rows[i] EXCEPT !.disabled = ~@]
  <2>2. /\ y.heartbeat = rows[i].heartbeat /\ y.state = rows[i].state
        /\ z.heartbeat = rows[i].heartbeat /\ z.state = rows[i].state
    BY <2>1 DEF Reset, Row
  <2>3. alive' = alive /\ (rows' = [rows EXCEPT ![i] = y] \/ rows' = [rows EXCEPT ![i] = z])
    BY <1>1, <1>8 DEF ForceRun, SetEnabled
  <2> HIDE DEF y, z
  <2> QED
    BY <1>5, <2>1, <2>2, <2>3
<1> QED
  BY <1>2, <1>6, <1>7, <1>8

\* The list of s is dropped: what a Heart with its row knows is still in the row.
LEMMA QuietEndLoop ==
  ASSUME Base, NEW s \in Replicas, NEW pc, EndLoop(s, pc), rows' = rows, strayed' = strayed,
         \A r \in Runs : /\ runs'[r].pump = "off" \/ SameHeart(r) \/ NewHeart(r)
                         /\ Working(r)' => Working(r)
  PROVE  Quiet /\ Plain
<1>1. \A i \in Importers :
        alive'[i] = alive[i] \cap (Listed(i, Replicas \ {s}) \cup Stored(i))
  BY DEF EndLoop
<1>2. ASSUME NEW r \in Runs, Holds(r), runs[r].known \in alive[Target(r)]
      PROVE  runs[r].known \in alive'[Target(r)]
  <2>1. Target(r) \in Importers
    BY <1>2 DEF Holds, Base, RunShape
  <2>2. runs[r].known \in Stored(Target(r))
    BY <1>2 DEF Holds, Stored, Matches
  <2> QED
    BY <1>1, <1>2, <2>1, <2>2
<1>3. \A i \in Importers : RowKept(i) /\ alive'[i] \subseteq alive[i]
  <2>1. \A i \in Importers : RowKept(i)
    BY DEF RowKept
  <2> QED
    BY <1>1, <2>1
<1> QED
  BY <1>2, <1>3 DEF Quiet, Plain

\* What a reap does to the Hearts: nothing.
LEMMA QuietReap ==
  ASSUME Base, NEW s \in Replicas, NEW i \in Importers, Reap(s, i)
  PROVE  Quiet /\ runs' = runs /\ alive' = alive
<1>1. servers[s].list[i] \in Row /\ runs' = runs /\ alive' = alive /\ Exists(i)
  BY ListedRow DEF Reap
<1>2. /\ rows'[i].heartbeat = rows[i].heartbeat
      /\ \A j \in Importers : j # i => rows'[j] = rows[j]
  BY <1>1, UpdateAbortedRow DEF Reap
<1>3. \A j \in Importers : RowKept(j)
  BY <1>1, <1>2 DEF RowKept, Exists
<1> QED
  BY <1>1, <1>3, QuietRows DEF SameHeart

LEMMA QuietLoop ==
  ASSUME Base, NEW s \in Replicas, Loop(s) \/ ListError(s) \/ Crash(s) \/ Restart(s)
  PROVE  Quiet /\ (Plain \/ \E i \in Importers : Reap(s, i))
<1>1. ASSUME UNCHANGED <<rows, alive, runs, strayed>> PROVE Quiet /\ Plain
  BY <1>1, QuietRows DEF RowKept, SameHeart, Plain, Working
<1>2. CASE List(s) \/ Restart(s) \/ \E i \in Importers : ReapSkip(s, i)
  BY <1>1, <1>2 DEF List, Restart, ReapSkip
<1>3. ASSUME NEW pc, StopServer(s, pc), rows' = rows, strayed' = strayed PROVE Quiet /\ Plain
  <2>1. \A r \in Runs : runs'[r] = Off \/ runs'[r] = runs[r]
    BY <1>3 DEF StopServer
  <2>2. \A r \in Runs : /\ runs'[r].pump = "off" \/ SameHeart(r)
                        /\ Working(r)' => Working(r)
    BY <2>1, OffFields DEF SameHeart, Working
  <2> QED
    BY <1>3, <2>2, QuietEndLoop DEF StopServer
<1>4. CASE (\E i \in Importers : ReapError(s, i)) \/ ListError(s) \/ Crash(s)
  BY <1>3, <1>4 DEF ReapError, ListError, Crash
<1>5. CASE Spawn(s)
  <2>1. EndLoop(s, "idle") /\ rows' = rows /\ strayed' = strayed
    BY <1>5 DEF Spawn
  <2>2. PICK S \in SUBSET Importers : \E f \in [S -> FreeSlots(s)] :
           /\ Taken(s, S)
           /\ \A i, j \in S : f[i] = f[j] => i = j
           /\ \A i \in S : runs'[f[i]] = Started(s, i)
           /\ \A r \in Runs : (\A i \in S : f[i] # r) => runs'[r] = runs[r]
    BY <1>5, SpawnEffect DEF Base
  <2>3. \A r \in Runs : \/ runs'[r] = runs[r]
                        \/ runs[r].pump = "off" /\ \E i \in S : runs'[r] = Started(s, i)
    BY <2>2 DEF FreeSlots, Live
  <2>4. ASSUME NEW i \in S
        PROVE  /\ Started(s, i).pump = "acquire" /\ Started(s, i).target = i
               /\ Started(s, i).work = "none"
               /\ i \in Importers /\ Started(s, i).known \notin alive[i]
    <3>1. i \in Eligible(s)
      BY <2>2 DEF Taken
    <3>2. servers[s].list[i].heartbeat \notin alive[i]
      BY <3>1 DEF Eligible, IsRunning
    <3> QED
      BY <3>2 DEF Started, Off
  <2>5. \A r \in Runs : /\ runs'[r].pump = "off" \/ SameHeart(r) \/ NewHeart(r)
                        /\ Working(r)' => Working(r)
    BY <2>3, <2>4 DEF SameHeart, NewHeart, Working
  <2> QED
    BY <2>1, <2>5, QuietEndLoop
<1>6. ASSUME NEW i \in Importers, Reap(s, i) PROVE Quiet
  BY <1>6, QuietReap
<1> QED
  BY <1>2, <1>4, <1>5, <1>6 DEF Loop

\* A step of a pump is a beat, or changes nobody's row.
LEMMA PumpKinds ==
  ASSUME Base, NEW r \in Runs, Pump(r)
  PROVE  Plain /\ (Quiet \/ \E b \in Beats : Beat(r, b))
<1>1. runs \in [Runs -> Run] /\ runs[r] \in Run /\ rows \in [Importers -> Row \cup {NoRow}]
  BY DEF Base, ColumnsOK
<1>2. \A q \in Runs : q # r => SameHeart(q) /\ runs'[q].cancelled = runs[q].cancelled
                               /\ runs'[q].work = runs[q].work
  BY HeartStep DEF SameHeart
<1>3. /\ runs[r].pump \in {"acquire", "hold"} /\ Target(r) \in Importers
      /\ runs[r].work = "running" => runs[r].pump = "hold"
      /\ strayed' = strayed
  BY DEF Pump, Acquire, AcquireFail, BeatOk, BeatFail, Base, RunShape
<1> DEFINE b == CHOOSE b \in FreshBeats(Target(r)) : TRUE
<1>4. \/ /\ runs[r].pump = "acquire"
         /\ runs' = [runs EXCEPT ![r].pump = "hold", ![r].known = b, ![r].work = "ready"]
      \/ runs' = [runs EXCEPT ![r] = Off]
      \/ runs[r].pump = "hold" /\ runs' = [runs EXCEPT ![r] = [runs[r] EXCEPT !.known = b]]
      \/ runs[r].pump = "hold" /\ runs' = [runs EXCEPT ![r] = [runs[r] EXCEPT !.cancelled = TRUE]]
  BY <1>1 DEF Pump, Acquire, AcquireFail, BeatOk, BeatFail
<1>5. UNCHANGED <<rows, alive>>
      \/ (FreshBeats(Target(r)) # {} /\ Matches(r) /\ WriteBeat(Target(r), b))
  BY DEF Pump, Acquire, AcquireFail, BeatOk, BeatFail, FailedBeat
<1>6. UNCHANGED <<rows, alive>> =>
        \/ runs'[r].pump = "off"
        \/ runs[r].pump = "hold" /\ runs' = [runs EXCEPT ![r] = [runs[r] EXCEPT !.cancelled = TRUE]]
        \/ FreshBeats(Target(r)) # {} /\ Matches(r) /\ WriteBeat(Target(r), b)
  BY <1>1, <1>4, OffFields DEF Pump, Acquire, AcquireFail, BeatOk, BeatFail
<1>7. FreshBeats(Target(r)) # {} =>
        b \in Beats /\ \A q \in Runs : Target(q) = Target(r) => runs[q].known # b
  BY FreshBeat
<1> HIDE DEF b
<1>8. /\ \/ runs'[r].pump = "off"
         \/ /\ runs'[r].pump = "hold" /\ runs'[r].target = runs[r].target /\ runs'[r].known = b
            /\ runs[r].cancelled => runs'[r].cancelled
         \/ runs[r].pump = "hold" /\ SameHeart(r) /\ runs'[r].cancelled
      /\ runs'[r].work = "running" => runs[r].work = "running"
  <2>1. CASE runs' = [runs EXCEPT ![r].pump = "hold", ![r].known = b, ![r].work = "ready"]
    <3>1. /\ runs'[r].pump = "hold" /\ runs'[r].target = runs[r].target /\ runs'[r].known = b
          /\ runs'[r].cancelled = runs[r].cancelled
          /\ runs'[r].work = "ready"
      BY <1>1, <2>1 DEF Run
    <3> QED
      BY <3>1
  <2>2. CASE runs' = [runs EXCEPT ![r] = Off]
    BY <1>1, <2>2, OffFields
  <2>3. CASE runs[r].pump = "hold" /\ runs' = [runs EXCEPT ![r] = [runs[r] EXCEPT !.known = b]]
    <3>1. /\ runs'[r].pump = "hold" /\ runs'[r].target = runs[r].target /\ runs'[r].known = b
          /\ runs'[r].cancelled = runs[r].cancelled
          /\ runs'[r].work = runs[r].work
      BY <1>1, <2>3 DEF Run
    <3> QED
      BY <3>1
  <2>4. CASE runs[r].pump = "hold" /\ runs' = [runs EXCEPT ![r] = [runs[r] EXCEPT !.cancelled = TRUE]]
    <3>1. /\ runs'[r].pump = runs[r].pump /\ runs'[r].target = runs[r].target
          /\ runs'[r].known = runs[r].known /\ runs'[r].cancelled
          /\ runs'[r].work = runs[r].work
      BY <1>1, <2>4 DEF Run
    <3> QED
      BY <2>4, <3>1 DEF SameHeart
  <2> QED
    BY <1>4, <2>1, <2>2, <2>3, <2>4
<1>9. \A q \in Runs : Working(q)' => Working(q)
  BY <1>2, <1>8 DEF Working
<1>10. CASE FreshBeats(Target(r)) # {} /\ Matches(r) /\ WriteBeat(Target(r), b)
  <2>1. b \in Beats /\ Beat(r, b)
    BY <1>2, <1>3, <1>7, <1>8, <1>10 DEF Beat
  <2>2. \A i \in Importers :
          rows[i] # NoRow /\ rows'[i] # NoRow => rows'[i].state = rows[i].state
    BY <2>1, BeatEffect
  <2> QED
    BY <1>3, <1>9, <2>1, <2>2 DEF Plain
<1>11. CASE UNCHANGED <<rows, alive>>
            /\ ~(FreshBeats(Target(r)) # {} /\ Matches(r) /\ WriteBeat(Target(r), b))
  <2>1. runs'[r].pump = "off" \/ SameHeart(r)
    <3>1. CASE runs[r].pump = "hold"
               /\ runs' = [runs EXCEPT ![r] = [runs[r] EXCEPT !.cancelled = TRUE]]
      <4>1. /\ runs'[r].pump = runs[r].pump /\ runs'[r].target = runs[r].target
            /\ runs'[r].known = runs[r].known /\ runs'[r].cancelled
        BY <1>1, <3>1 DEF Run
      <4> QED
        BY <4>1 DEF SameHeart
    <3> QED
      BY <1>6, <1>11, <3>1
  <2>2. \A i \in Importers : RowKept(i)
    BY <1>11 DEF RowKept
  <2> QED
    BY <1>2, <1>3, <1>9, <1>11, <2>1, <2>2, QuietRows DEF Plain
<1> QED
  BY <1>5, <1>10, <1>11

\* An import changes no heartbeat.
LEMMA QuietWork ==
  ASSUME Base, NEW r \in Runs,
         Begin(r) \/ WorkCheck(r) \/ WorkCheckError(r) \/ WorkFinish(r)
  PROVE  /\ Quiet
         /\ Plain \/ WorkStart(r) \/ (WorkFinish(r) /\ Exists(Target(r)))
         /\ \A i \in Importers : rows[i] # NoRow <=> rows'[i] # NoRow
         /\ \A q \in Runs : /\ runs'[q].pump = runs[q].pump
                            /\ runs'[q].target = runs[q].target
                            /\ runs'[q].known = runs[q].known
                            /\ runs[q].cancelled => runs'[q].cancelled
                            /\ q # r => runs'[q].work = runs[q].work
                                        /\ runs'[q].cancelled = runs[q].cancelled
<1>0. runs[r] \in Run /\ runs \in [Runs -> Run] /\ rows \in [Importers -> Row \cup {NoRow}]
  BY DEF Base, ColumnsOK
<1>1. \A q \in Runs : q # r => /\ runs'[q].pump = runs[q].pump
                               /\ runs'[q].target = runs[q].target
                               /\ runs'[q].known = runs[q].known
                               /\ runs'[q].work = runs[q].work
                               /\ runs'[q].cancelled = runs[q].cancelled
  BY HeartStep
<1>2. alive' = alive
  BY DEF Begin, WorkStart, WorkStartError, WorkCheck, WorkCheckError, WorkFinish
<1>3. Target(r) \in Importers
  BY DEF Begin, WorkStart, WorkStartError, WorkCheck, WorkCheckError, WorkFinish, Base, RunShape
<1>4. /\ runs'[r].pump = runs[r].pump /\ runs'[r].target = runs[r].target
      /\ runs'[r].known = runs[r].known
      /\ runs[r].cancelled => runs'[r].cancelled
      /\ ~WorkStart(r) /\ runs'[r].work = "running" => runs[r].work = "running"
  <2>1. CASE WorkStart(r)
    <3>1. runs'[r] = [runs[r] EXCEPT !.work = "running", !.start = 0]
      BY <2>1, WorkStartEffect
    <3> QED
      BY <2>1, <3>1, <1>0 DEF Run
  <2>2. CASE WorkStartError(r)
    BY <2>2, <1>0 DEF WorkStartError, Run
  <2>3. CASE WorkCheck(r) \/ WorkCheckError(r)
    BY <2>3, <1>0 DEF WorkCheck, WorkCheckError, Run
  <2>4. CASE WorkFinish(r)
    <3>1. runs' = [runs EXCEPT ![r].work = "done", ![r].start = Never]
      BY <2>4 DEF WorkFinish
    <3> QED
      BY <3>1, <1>0 DEF Run
  <2> QED
    BY <2>1, <2>2, <2>3, <2>4 DEF Begin
<1>5. ASSUME NEW i \in Importers
      PROVE  /\ rows[i] # NoRow <=> rows'[i] # NoRow
             /\ rows[i] # NoRow => rows'[i].heartbeat = rows[i].heartbeat
  <2>1. CASE WorkStart(r)
    <3>1. /\ i # Target(r) => rows'[i] = RenumberRow(rows[i])
          /\ rows'[Target(r)] = UpdateStart(RenumberRow(rows[Target(r)]), 0)
      BY <2>1, WorkStartEffect
    <3>2. CASE rows[i] = NoRow
      BY <2>1, <3>1, <3>2 DEF RenumberRow, WorkStart, Exists
    <3>3. CASE rows[i] # NoRow
      <4>1. ColumnsOK /\ rows[i] \in Row
        BY <1>0, <3>3 DEF Base
      <4> DEFINE y == RenumberRow(rows[i])
      <4>2. y \in Row /\ y.heartbeat = rows[i].heartbeat
        BY <4>1, RenumberRowFields
      <4>3. rows'[i] = y \/ rows'[i] = UpdateStart(y, 0)
        BY <3>1
      <4> HIDE DEF y
      <4>4. UpdateStart(y, 0) \in Row /\ UpdateStart(y, 0).heartbeat = y.heartbeat
        <5>1. ASSUME NEW z \in Nat
              PROVE  UpdateStart(y, z) \in Row /\ UpdateStart(y, z).heartbeat = y.heartbeat
          BY <4>2 DEF UpdateStart, Row
        <5> QED
          BY <5>1
      <4> QED
        BY <3>3, <4>2, <4>3, <4>4, ServerAssumption
    <3> QED
      BY <3>2, <3>3
  <2>2. CASE rows' = rows
    BY <2>2
  <2>3. CASE Exists(Target(r))
             /\ rows' = [rows EXCEPT ![Target(r)] = UpdateFinish(@, runs[r].start, FALSE)]
    <3> DEFINE y == UpdateFinish(rows[Target(r)], runs[r].start, FALSE)
    <3>1. rows[Target(r)] \in Row
      BY <1>0, <1>3, <2>3 DEF Exists
    <3>2. y \in Row /\ y.heartbeat = rows[Target(r)].heartbeat
      BY <1>0, <3>1 DEF UpdateFinish, Row, Run
    <3>3. rows' = [rows EXCEPT ![Target(r)] = y]
      BY <2>3
    <3> HIDE DEF y
    <3> QED
      BY <1>0, <1>3, <2>3, <3>2, <3>3, ServerAssumption DEF Exists
  <2> QED
    BY <2>1, <2>2, <2>3 DEF Begin, WorkStartError, WorkCheck, WorkCheckError, WorkFinish
<1>6. Quiet
  <2>1. \A i \in Importers : RowKept(i)
    BY <1>5 DEF RowKept
  <2>2. \A q \in Runs : SameHeart(q)
    BY <1>1, <1>4 DEF SameHeart
  <2> QED
    BY <1>2, <2>1, <2>2, QuietRows
<1>7. Plain \/ WorkStart(r) \/ (WorkFinish(r) /\ Exists(Target(r)))
  <2>1. ASSUME ~WorkStart(r) PROVE \A q \in Runs : Working(q)' => Working(q)
    BY <1>1, <1>4, <2>1 DEF Working
  <2>2. WorkStartError(r) \/ WorkCheck(r) \/ WorkCheckError(r)
          \/ (WorkFinish(r) /\ ~Exists(Target(r))) => rows' = rows /\ strayed' = strayed
    BY DEF WorkStartError, WorkCheck, WorkCheckError, WorkFinish
  <2> QED
    BY <2>1, <2>2 DEF Begin, Plain
<1> QED
  BY <1>1, <1>4, <1>5, <1>6, <1>7

\* While pumps keep their pace, the heartbeat of a Heart that has its row and missed no
\* beat does not expire.
LEMMA QuietTime ==
  ASSUME Timely, Base, NEW i \in Importers, BecomeDue(i) \/ \E b \in Beats : Expire(i, b)
  PROVE  Quiet /\ Plain
<1>1. CASE BecomeDue(i)
  <2>1. /\ rows' = [rows EXCEPT ![i] = [rows[i] EXCEPT !.due = TRUE]]
        /\ rows[i] \in Row /\ UNCHANGED <<alive, runs>>
    BY <1>1, BecomeDueEffect
  <2>2. strayed' = strayed
    BY <1>1 DEF BecomeDue
  <2> DEFINE y == [rows[i] EXCEPT !.due = TRUE]
  <2>3. y.heartbeat = rows[i].heartbeat /\ y.state = rows[i].state
    BY <2>1 DEF Row
  <2>4. rows' = [rows EXCEPT ![i] = y] /\ rows[i] # NoRow
    BY <2>1, ServerAssumption
  <2> HIDE DEF y
  <2>5. \A j \in Importers :
          /\ RowKept(j)
          /\ rows[j] # NoRow /\ rows'[j] # NoRow => rows'[j].state = rows[j].state
    BY <2>3, <2>4 DEF RowKept, Base, ColumnsOK
  <2> QED
    BY <2>1, <2>2, <2>5, QuietRows DEF SameHeart, Plain, Working
<1>2. ASSUME NEW b \in Beats, Expire(i, b) PROVE Quiet /\ Plain
  <2>1. /\ alive' = [alive EXCEPT ![i] = @ \ {b}] /\ UNCHANGED <<rows, runs, strayed>>
        /\ ~\E r \in Runs : Target(r) = i /\ runs[r].known = b /\ Holds(r) /\ ~runs[r].cancelled
    BY <1>2 DEF Expire
  <2>2. \A j \in Importers : alive'[j] = IF j = i THEN alive[i] \ {b} ELSE alive[j]
    BY <2>1 DEF Base, ColumnsOK
  <2>3. ASSUME NEW r \in Runs, Holds(r), ~runs[r].cancelled, runs[r].known \in alive[Target(r)]
        PROVE  runs[r].known \in alive'[Target(r)]
    <3>1. Target(r) \in Importers
      BY <2>3 DEF Holds, Base, RunShape
    <3> QED
      BY <2>1, <2>2, <2>3, <3>1
  <2> QED
    BY <2>1, <2>2, <2>3 DEF Quiet, RowKept, SameHeart, Plain, Working
<1> QED
  BY <1>1, <1>2

\* Every step is quiet or a beat; what starts or finishes an import is quiet.
LEMMA StepKinds ==
  ASSUME Timely, Base, [Next]_vars
  PROVE  /\ Quiet \/ \E r \in Runs, b \in Beats : Beat(r, b)
         /\ \/ Plain
            \/ Quiet /\ \E s \in Replicas, i \in Importers : Reap(s, i)
            \/ Quiet /\ \E r \in Runs :
                 WorkStart(r) \/ (WorkFinish(r) /\ Exists(Target(r)))
<1>1. CASE ClientNext
  BY <1>1, QuietClients
<1>2. ASSUME NEW s \in Replicas, Loop(s) \/ ListError(s) \/ Crash(s) \/ Restart(s)
      PROVE  Quiet /\ (Plain \/ \E i \in Importers : Reap(s, i))
  BY <1>2, QuietLoop
<1>3. ASSUME NEW r \in Runs, Pump(r)
      PROVE  Plain /\ (Quiet \/ \E b \in Beats : Beat(r, b))
  BY <1>3, PumpKinds
<1>4. ASSUME NEW r \in Runs, Begin(r) \/ WorkCheck(r) \/ WorkCheckError(r) \/ WorkFinish(r)
      PROVE  /\ Quiet
             /\ Plain \/ WorkStart(r) \/ (WorkFinish(r) /\ Exists(Target(r)))
  BY <1>4, QuietWork
<1>5. ASSUME NEW i \in Importers, BecomeDue(i) \/ \E b \in Beats : Expire(i, b)
      PROVE  Quiet /\ Plain
  BY <1>5, QuietTime
<1>6. CASE UNCHANGED vars
  <2>1. UNCHANGED <<rows, alive, runs, strayed>>
    BY <1>6 DEF vars
  <2> QED
    BY <2>1 DEF Quiet, RowKept, SameHeart, Plain, Working
<1> QED
  BY <1>1, <1>2, <1>3, <1>4, <1>5, <1>6 DEF Next

LEMMA LeaseNext ==
  ASSUME Timely, Base, LeaseInv, [Next]_vars
  PROVE  LeaseInv'
BY StepKinds, LeaseQuiet, LeaseBeat

\* While pumps keep their pace two Hearts never have the row of one importer, however
\* many replicas compete for it, however old the lists of their loops are, and whatever is
\* deleted, created again, crashes or fails.
THEOREM OneHeartHolds == Timely => (Spec => []OneHolder)
<1> SUFFICES ASSUME Timely PROVE Spec => []OneHolder
  OBVIOUS
<1>1. Init => Base /\ LeaseInv
  BY BaseInit, LeaseInit
<1>2. Base /\ LeaseInv /\ [Next]_vars => (Base /\ LeaseInv)'
  BY BaseNext, LeaseNext
<1>3. Base /\ LeaseInv => OneHolder
  BY DEF LeaseInv
<1> QED
  BY <1>1, <1>2, <1>3, PTL DEF Spec

\* A Heart that misses no beat keeps its row until it ends or the importer is deleted:
\* neither a loop with an old list, which may finish its run and make it due again, nor a
\* forced run lets another Heart take it over.
THEOREM HeartsKeepRows == Timely => (Spec => HeartKeepsRow)
<1> SUFFICES ASSUME Timely PROVE Spec => HeartKeepsRow
  OBVIOUS
<1> DEFINE A == \A r \in Runs :
       Holds(r) /\ ~runs[r].cancelled
       => \/ Holds(r)'
          \/ runs'[r].pump = "off"
          \/ runs'[r].cancelled
          \/ ~Exists(Target(r))'
<1>1. Init => Base /\ LeaseInv
  BY BaseInit, LeaseInit
<1>2. Base /\ LeaseInv /\ [Next]_vars => (Base /\ LeaseInv)'
  BY BaseNext, LeaseNext
<1>3. Base /\ LeaseInv /\ [Next]_vars => A
  <2> SUFFICES ASSUME Base, LeaseInv, [Next]_vars, NEW r \in Runs, Holds(r), ~runs[r].cancelled,
                      runs'[r].pump # "off", ~runs'[r].cancelled, Exists(Target(r))'
               PROVE  Holds(r)'
    OBVIOUS
  <2>1. Target(r) \in Importers /\ runs[r].pump = "hold" /\ rows[Target(r)] # NoRow
        /\ rows[Target(r)].heartbeat = runs[r].known
    BY DEF Holds, Matches, Exists, Base, RunShape
  <2>2. CASE Quiet
    <3>1. SameHeart(r)
      BY <2>1, <2>2 DEF Quiet, NewHeart
    <3>2. Target(r)' = Target(r)
      BY <3>1 DEF SameHeart, Target
    <3>3. rows'[Target(r)].heartbeat = rows[Target(r)].heartbeat
      BY <2>1, <2>2, <3>2 DEF Quiet, RowKept, Exists
    <3> QED
      BY <2>1, <3>1, <3>2, <3>3 DEF Holds, Matches, SameHeart
  <2>3. ASSUME NEW q \in Runs, NEW b \in Beats, Beat(q, b) PROVE Holds(r)'
    <3>1. CASE q = r
      <4>1. runs'[r].pump = "hold" /\ runs'[r].target = runs[r].target /\ runs'[r].known = b
        BY <2>3, <3>1 DEF Beat
      <4>2. Target(r)' = Target(r) /\ rows'[Target(r)].heartbeat = b
        BY <2>3, <3>1, <4>1, BeatEffect DEF Target
      <4> QED
        BY <4>1, <4>2 DEF Holds, Matches
    <3>2. CASE q # r
      <4>1. SameHeart(r)
        BY <2>3, <3>2 DEF Beat
      <4>2. Target(r)' = Target(r) /\ Target(r) # Target(q)
        BY <2>3, <3>2, <4>1, BeatAlone DEF SameHeart, Target
      <4>3. rows'[Target(r)] = rows[Target(r)]
        BY <2>1, <2>3, <4>2, BeatEffect
      <4> QED
        BY <2>1, <4>1, <4>2, <4>3 DEF Holds, Matches, SameHeart
    <3> QED
      BY <3>1, <3>2
  <2> QED
    BY <2>2, <2>3, StepKinds
<1>4. Base /\ LeaseInv /\ [Next]_vars => [A]_vars
  BY <1>3
<1>5. HeartKeepsRow <=> [][A]_vars
  BY DEF HeartKeepsRow
<1> QED
  <2> HIDE DEF A
  <2> QED
    BY <1>1, <1>2, <1>4, <1>5, PTL DEF Spec

-----------------------------------------------------------------------------
(* What the row says of an import. *)

LEMMA TruthPlain ==
  ASSUME Base, LeaseInv, StateTruth, Plain, Quiet \/ \E r \in Runs, b \in Beats : Beat(r, b)
  PROVE  StateTruth'
<1> SUFFICES ASSUME NEW r \in Runs, Active(r)', Holds(r)', Target(r)' \notin strayed'
             PROVE  rows'[Target(r)'].state = "Running"
  BY DEF StateTruth
<1>1. Working(r) /\ runs[r].pump = "hold" /\ Exists(Target(r))' /\ ~runs'[r].cancelled
  BY DEF Active, Plain, Base, RunShape, Working, Holds, Matches
<1>2. Holds(r) /\ ~runs[r].cancelled /\ Target(r)' = Target(r) /\ Target(r) \in Importers
  <2>1. CASE Quiet
    <3>1. SameHeart(r) /\ Holds(r) /\ Target(r) \in Importers /\ Target(r)' = Target(r)
      BY <2>1, QuietHolds
    <3> QED
      BY <1>1, <3>1 DEF SameHeart
  <2>2. ASSUME NEW q \in Runs, NEW b \in Beats, Beat(q, b)
        PROVE  Holds(r) /\ ~runs[r].cancelled /\ Target(r)' = Target(r) /\ Target(r) \in Importers
    <3>1. Target(r)' = Target(r) /\ Target(r) \in Importers
      BY <2>2, BeatHolds
    <3>2. CASE q = r
      BY <1>1, <2>2, <3>1, <3>2 DEF Beat, Holds, SameHeart
    <3>3. CASE q # r
      BY <1>1, <2>2, <3>1, <3>3, BeatHolds
    <3> QED
      BY <3>1, <3>2, <3>3
  <2> QED
    BY <2>1, <2>2
<1>3. Exists(Target(r)) /\ Target(r) \notin strayed
  BY <1>2 DEF Holds, Matches, Plain
<1>4. rows[Target(r)].state = "Running"
  BY <1>1, <1>2, <1>3 DEF StateTruth, Active
<1> QED
  BY <1>1, <1>2, <1>3, <1>4 DEF Plain, Exists

\* A loop whose list has the heartbeat of the row does not take an import for dead that
\* goes on.
LEMMA TruthReap ==
  ASSUME Base, LeaseInv, StateTruth, NEW s \in Replicas, NEW i \in Importers, Reap(s, i)
  PROVE  StateTruth'
<1> SUFFICES ASSUME NEW r \in Runs, Active(r)', Holds(r)', Target(r)' \notin strayed'
             PROVE  rows'[Target(r)'].state = "Running"
  BY DEF StateTruth
<1>1. Quiet /\ runs' = runs /\ alive' = alive
  BY QuietReap
<1>2. Holds(r) /\ Target(r)' = Target(r) /\ Target(r) \in Importers
  BY <1>1, QuietHolds
<1>3. Active(r)
  BY <1>1 DEF Active, Working
<1>4. ~IsRunning(i, servers[s].list[i]) /\ servers[s].list[i] \in Row
      /\ FinishedKnowing(i, servers[s].list[i].heartbeat) /\ Exists(i)
  BY ListedRow DEF Reap
<1>5. Target(r) # i
  <2> SUFFICES ASSUME Target(r) = i PROVE FALSE
    OBVIOUS
  <2>1. rows[i].heartbeat = servers[s].list[i].heartbeat
    BY <1>2, <1>4 DEF FinishedKnowing
  <2>2. rows[i].heartbeat = runs[r].known /\ runs[r].known \in alive[i]
    BY <1>2, <1>3 DEF Holds, Matches, Active, LeaseInv, KnownBeat
  <2> QED
    BY <1>4, <2>1, <2>2 DEF IsRunning
<1>6. Target(r) \notin strayed
  BY <1>2, <1>4, <1>5 DEF FinishedKnowing
<1>7. rows'[Target(r)] = rows[Target(r)]
  BY <1>2, <1>4, <1>5, UpdateAbortedRow DEF Reap
<1> QED
  BY <1>2, <1>3, <1>6, <1>7 DEF StateTruth

\* An import that knows the heartbeat of the row is the one that has the row.
LEMMA TruthWork ==
  ASSUME Base, LeaseInv, StateTruth, NEW q \in Runs,
         WorkStart(q) \/ (WorkFinish(q) /\ Exists(Target(q)))
  PROVE  StateTruth'
<1> SUFFICES ASSUME NEW r \in Runs, Active(r)', Holds(r)', Target(r)' \notin strayed'
             PROVE  rows'[Target(r)'].state = "Running"
  BY DEF StateTruth
<1>0. runs \in [Runs -> Run] /\ rows \in [Importers -> Row \cup {NoRow}] /\ ColumnsOK
  BY DEF Base, ColumnsOK
<1>1. /\ Quiet
      /\ \A p \in Runs : p # q => /\ runs'[p].work = runs[p].work
                                  /\ runs'[p].cancelled = runs[p].cancelled
  BY QuietWork DEF Begin
<1>2. Holds(r) /\ Target(r)' = Target(r) /\ Target(r) \in Importers
  BY <1>1, QuietHolds
<1>3. r # q => Active(r)
  BY <1>1 DEF Active, Working
<1>4. Exists(Target(r))
  BY <1>2 DEF Holds, Matches
<1>5. CASE WorkStart(q)
  <2>1. /\ \A i \in Importers : i # Target(q) => rows'[i] = RenumberRow(rows[i])
        /\ rows'[Target(q)] = UpdateStart(RenumberRow(rows[Target(q)]), 0)
        /\ strayed' = strayed \ {Target(q)}
    BY <1>5, WorkStartEffect DEF WorkStart
  <2>2. rows[Target(r)] \in Row
    BY <1>0, <1>2, <1>4 DEF Exists
  <2> DEFINE y == RenumberRow(rows[Target(r)])
  <2>3. y \in Row /\ y.state = rows[Target(r)].state
    BY <1>0, <2>2, RenumberRowFields
  <2>4. CASE Target(r) = Target(q)
    <3>1. rows'[Target(r)] = UpdateStart(y, 0)
      BY <2>1, <2>4
    <3> HIDE DEF y
    <3>2. ASSUME NEW z PROVE UpdateStart(y, z).state = "Running"
      BY <2>3 DEF UpdateStart, Row
    <3> QED
      BY <1>2, <3>1, <3>2
  <2>5. CASE Target(r) # Target(q)
    <3>1. rows[Target(r)].state = "Running"
      BY <1>2, <1>3, <2>1, <2>5 DEF StateTruth
    <3> QED
      BY <1>2, <2>1, <2>3, <2>5, <3>1
  <2> QED
    BY <2>4, <2>5
<1>6. CASE WorkFinish(q) /\ Exists(Target(q))
  <2>1. r # q
    BY <1>0, <1>6 DEF WorkFinish, Active, Working, Run
  <2>2. CASE UNCHANGED <<rows, strayed>>
    BY <1>2, <1>3, <2>1, <2>2 DEF StateTruth
  <2>3. CASE /\ rows' = [rows EXCEPT ![Target(q)] = UpdateFinish(@, runs[q].start, FALSE)]
             /\ FinishedKnowing(Target(q), runs[q].known)
    <3>1. Target(r) # Target(q)
      <4> SUFFICES ASSUME Target(r) = Target(q) PROVE FALSE
        OBVIOUS
      <4>1. rows[Target(q)].heartbeat = runs[q].known
        BY <1>2, <2>3 DEF FinishedKnowing
      <4>2. runs[q].pump = "hold"
        BY <1>6 DEF WorkFinish, Base, RunShape
      <4>3. Holds(q)
        BY <1>6, <4>1, <4>2 DEF Holds, Matches
      <4> QED
        BY <1>2, <2>1, <4>3 DEF LeaseInv, OneHolder
    <3>2. rows'[Target(r)] = rows[Target(r)] /\ Target(r) \notin strayed
      BY <1>0, <1>2, <2>3, <3>1 DEF FinishedKnowing
    <3> QED
      BY <1>2, <1>3, <2>1, <3>2 DEF StateTruth
  <2> QED
    BY <1>6, <2>2, <2>3 DEF WorkFinish
<1> QED
  BY <1>5, <1>6

\* While pumps keep their pace, an import that is under way and has its row is shown as
\* Running, unless the latest start of a run was followed by an update_finish whose writer
\* did not know the heartbeat of the row; this is for any number of replicas, and
\* for lists of any age.
THEOREM RunningIsShown == Timely => (Spec => []StateTruth)
<1> SUFFICES ASSUME Timely PROVE Spec => []StateTruth
  OBVIOUS
<1>1. Init => Base /\ LeaseInv /\ StateTruth
  <2>1. Init => StateTruth
    BY OffFields DEF Init, StateTruth, Active, Working
  <2> QED
    BY <2>1, BaseInit, LeaseInit
<1>2. Base /\ LeaseInv /\ StateTruth /\ [Next]_vars => (Base /\ LeaseInv /\ StateTruth)'
  BY BaseNext, LeaseNext, StepKinds, TruthPlain, TruthReap, TruthWork
<1> QED
  BY <1>1, <1>2, PTL DEF Spec

================================================================================
