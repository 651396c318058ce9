----------------------------- MODULE Clock_proofs -----------------------------
(***************************************************************************)
(* Proofs about the two modules that keep a clock.                         *)
(*                                                                         *)
(* Heartbeat, for any number of Hearts, incarnations, ticks and failing    *)
(* statements: Inv holds however late the writes are and gives OneHolder   *)
(* and the refinement of HeartbeatLease.  OneActiveRun needs more: an      *)
(* import that has not been asked to stop holds a lease that is not        *)
(* expired, and that is so only if writes are less than Rate late          *)
(* (TimelyInv).                                                            *)
(*                                                                         *)
(* FailureRate, for every period, threshold and number of periods: the     *)
(* bucket drains slower than one threshold per period, because a check     *)
(* that comes k periods and a fraction after the previous one drains k     *)
(* thresholds and forgets the fraction; as k >= 1, it forgets at most half *)
(* of the time.  Drained states that debt.                                 *)
(***************************************************************************)
EXTENDS Heartbeat, FailureRate, TLAPS

-----------------------------------------------------------------------------
(* The bucket. *)

\* Since the latest failure the bucket lost at least half a threshold for every
\* period between that failure and the last check that drained it.
Drained ==
  last_check >= lastFailure /\ counter > 0 =>
    2 * (Period * counter) <= 2 * (Period * Max) - Threshold * (last_check - lastFailure)

RateInv ==
  /\ RateTypeOK
  /\ last_check <= instant
  /\ lastFailure <= instant
  /\ counter <= Max
  /\ recent <= counter
  /\ recent <= Threshold
  /\ Drained
  /\ RecoversWithinTwice

-----------------------------------------------------------------------------
\* The maximum is a natural number not below the threshold.
LEMMA MaxProperties == Max \in Nat /\ Threshold <= Max
  BY ConstantsAssumption DEF Max

\* Rounding down to whole periods loses less than one period.
LEMMA WholePeriods ==
  ASSUME NEW d \in Nat
  PROVE  /\ d \div Period \in Nat
         /\ d < Period * (d \div Period) + Period
         /\ d \div Period = 0 <=> d < Period
  <1> DEFINE k == d \div Period
             r == d % Period
  <1>1. d = Period * k + r /\ r \in 0 .. (Period - 1) /\ k \in Int
    BY ConstantsAssumption, SMTT(30)
  <1>2. k >= 0
    BY <1>1, ConstantsAssumption, SMTT(30)
  <1> QED
    BY <1>1, <1>2, ConstantsAssumption, SMTT(30)

\* A multiplication by a natural number keeps the order.
LEMMA Monotone ==
  ASSUME NEW a \in Int, NEW b \in Int, NEW c \in Nat, a <= b
  PROVE  c * a <= c * b
  BY SMTT(30)

\* A multiplication by a positive number reflects the order.
LEMMA Cancel ==
  ASSUME NEW a \in Int, NEW b \in Int, NEW c \in Nat \ {0}, c * a <= c * b
  PROVE  a <= b
  BY SMTT(30)

\* A check that fails less than a period after a drain is within the bound.
LEMMA RecoveryBound ==
  ASSUME NEW c \in Nat, NEW l \in Nat, NEW f \in Nat, NEW n \in Nat,
         n - l < Period, c >= Threshold,
         l >= f => 2 * (Period * c) <= 2 * (Period * Max) - Threshold * (l - f)
  PROVE  n - f < (2 * NumberOfPeriods - 1) * Period
<1> USE ConstantsAssumption
<1> DEFINE span == 2 * (NumberOfPeriods - 1) * Period
<1>1. span \in Nat /\ (2 * NumberOfPeriods - 1) * Period = span + Period
  BY SMTT(30)
<1>2. CASE l < f
  BY <1>1, <1>2
<1>3. CASE l >= f
  <2>1. Period * Threshold <= Period * c
    BY Monotone
  <2>2. 2 * (Period * Max) - 2 * (Period * Threshold) = Threshold * span
    BY SMTT(30) DEF Max
  <2>3. Period * c \in Int /\ Period * Threshold \in Int /\ Period * Max \in Int
        /\ Threshold * (l - f) \in Int /\ Threshold * span \in Int
    BY MaxProperties, <1>1, SMTT(30)
  <2>4. Threshold * (l - f) <= Threshold * span
    <3> HIDE DEF span
    <3> QED BY <1>3, <2>1, <2>2, <2>3
  <2>5. l - f <= span
    BY <2>4, <1>1, Cancel
  <2> QED
    BY <2>5, <1>1
<1> QED
  BY <1>2, <1>3

\* Draining for k whole periods out of d ticks keeps the debt.
LEMMA DrainKeepsDebt ==
  ASSUME NEW c \in Nat, NEW l \in Nat, NEW f \in Nat, NEW n \in Nat, NEW k \in Nat \ {0},
         l <= n, f <= n, c <= Max, n - l < Period * k + Period,
         l >= f /\ c > 0 =>
           2 * (Period * c) <= 2 * (Period * Max) - Threshold * (l - f),
         c - k * Threshold > 0
  PROVE  2 * (Period * (c - k * Threshold)) <= 2 * (Period * Max) - Threshold * (n - f)
<1> USE ConstantsAssumption, MaxProperties
<1>1. c > 0
  <2>1. k * Threshold >= 0
    BY SMTT(30)
  <2> QED BY <2>1
<1>2. Period * k >= Period
  BY Monotone, 1 <= k, Period * 1 = Period
<1>3. n - l <= 2 * (Period * k)
  BY <1>2
<1>4. Threshold * (n - l) <= Threshold * (2 * (Period * k))
  BY <1>3, Monotone, n - l \in Int, 2 * (Period * k) \in Int
<1>5. 2 * (Period * (c - k * Threshold)) = 2 * (Period * c) - Threshold * (2 * (Period * k))
  BY SMTT(30)
<1>6. CASE l >= f
  <2>1. Threshold * (n - f) = Threshold * (l - f) + Threshold * (n - l)
    BY SMTT(30)
  <2> QED
    BY <1>1, <1>4, <1>5, <1>6, <2>1
<1>7. CASE l < f
  <2>1. Threshold * (n - f) <= Threshold * (n - l)
    BY <1>7, Monotone, n - f \in Int, n - l \in Int, n - f <= n - l
  <2>2. Period * c <= Period * Max
    BY Monotone
  <2> QED
    BY <1>4, <1>5, <2>1, <2>2
<1> QED
  BY <1>6, <1>7

-----------------------------------------------------------------------------
LEMMA InitRateInv == RateInit => RateInv
  <1> SUFFICES ASSUME RateInit PROVE RateInv
    OBVIOUS
  <1>1. 2 * (Period * Max) >= 0 /\ Threshold * (0 - 0) = 0
    BY ConstantsAssumption, MaxProperties, SMTT(30)
  <1> QED
    BY <1>1, MaxProperties, ConstantsAssumption
    DEF RateInit, RateInv, RateTypeOK, Drained, RecoversWithinTwice

LEMMA IncrementKeepsRateInv == RateInv /\ Increment => RateInv'
  <1> SUFFICES ASSUME RateInv, Increment PROVE RateInv'
    OBVIOUS
  <1> USE ConstantsAssumption, MaxProperties
  <1>1. RateTypeOK' /\ last_check' <= instant' /\ lastFailure' <= instant' /\ counter' <= Max
        /\ recent' <= counter' /\ recent' <= Threshold
    BY DEF RateInv, RateTypeOK, Increment
  <1>2. Drained'
    <2>1. SUFFICES ASSUME last_check >= instant
                   PROVE  2 * (Period * counter') <= 2 * (Period * Max) - Threshold * (last_check - instant)
      BY DEF Drained, Increment
    <2>2. last_check - instant = 0
      BY <2>1 DEF RateInv, RateTypeOK
    <2>3. Period * counter' <= Period * Max
      <3>1. counter' \in Int /\ Max \in Int /\ Period \in Nat /\ counter' <= Max
        BY <1>1 DEF RateTypeOK
      <3> QED
        BY <3>1, Monotone
    <2>4. Period * counter' \in Int /\ Period * Max \in Int /\ Threshold * 0 = 0
      BY <1>1, SMTT(30) DEF RateTypeOK
    <2> QED
      BY <2>2, <2>3, <2>4
  <1>3. RecoversWithinTwice'
    BY DEF RateInv, RateTypeOK, Increment, RecoversWithinTwice
  <1> QED
    BY <1>1, <1>2, <1>3 DEF RateInv

LEMMA RunAtKeepsRateInv == RateInv /\ RunAt => RateInv'
<1> SUFFICES ASSUME RateInv, RunAt PROVE RateInv'
  OBVIOUS
<1> USE ConstantsAssumption, MaxProperties
<1> DEFINE k == Elapsed
<1>1. k \in Nat /\ instant - last_check < Period * k + Period
      /\ (k = 0 <=> instant - last_check < Period)
  <2>1. instant - last_check \in Nat
    BY DEF RateInv, RateTypeOK
  <2> QED
    BY <2>1, WholePeriods DEF Elapsed
<1>2. k * Threshold \in Nat /\ (k > 0 => k * Threshold >= 0)
  BY <1>1, SMTT(30)
<1>3. RateTypeOK' /\ last_check' <= instant' /\ lastFailure' <= instant' /\ counter' <= Max
      /\ recent' <= counter' /\ recent' <= Threshold
  <2> HIDE DEF k
  <2>1. CASE k = 0
    BY <2>1 DEF RateInv, RateTypeOK, RunAt, k
  <2>2. CASE k > 0
    BY <1>1, <1>2, <2>2 DEF RateInv, RateTypeOK, RunAt, Leaked, k
  <2> QED
    BY <1>1, <2>1, <2>2
<1>4. Drained'
  <2>1. CASE k = 0
    BY <2>1 DEF RateInv, RateTypeOK, RunAt, Drained
  <2>2. CASE k > 0
    <3>1. SUFFICES ASSUME counter - k * Threshold > 0, counter' = counter - k * Threshold
                   PROVE  2 * (Period * counter') <= 2 * (Period * Max) - Threshold * (instant - lastFailure)
      BY <1>1, <1>2, <2>2 DEF Drained, RunAt, Leaked, RateInv, RateTypeOK
    <3>2. /\ counter \in Nat /\ last_check \in Nat /\ lastFailure \in Nat /\ instant \in Nat
          /\ last_check <= instant /\ lastFailure <= instant /\ counter <= Max
          /\ (last_check >= lastFailure /\ counter > 0 =>
                2 * (Period * counter) <= 2 * (Period * Max) - Threshold * (last_check - lastFailure))
      BY DEF RateInv, RateTypeOK, Drained
    <3> QED
      BY <1>1, <2>2, <3>1, <3>2, DrainKeepsDebt
  <2> QED
    BY <1>1, <2>1, <2>2
<1>5. RecoversWithinTwice'
  <2>1. SUFFICES ASSUME counter' >= Threshold
                 PROVE  instant - lastFailure < (2 * NumberOfPeriods - 1) * Period
    <3>1. verdict' = [at |-> instant, ok |-> counter' < Threshold] /\ lastFailure' = lastFailure
      BY DEF RunAt
    <3>2. ~verdict'.ok => counter' >= Threshold
      <4>1. verdict'.ok = (counter' < Threshold)
        BY <3>1
      <4>2. ~(counter' < Threshold) => counter' >= Threshold
        BY <1>3 DEF RateTypeOK
      <4> QED
        BY <4>1, <4>2
    <3>3. verdict'.at = instant
      BY <3>1
    <3> QED
      BY <2>1, <3>1, <3>2, <3>3 DEF RecoversWithinTwice
  <2>2. instant - last_check' < Period
    BY <1>1 DEF RunAt, RateInv, RateTypeOK
  <2>3. /\ counter' \in Nat /\ last_check' \in Nat /\ lastFailure \in Nat /\ instant \in Nat
        /\ lastFailure' = lastFailure
    BY <1>3 DEF RateTypeOK, RunAt, RateInv
  <2>4. last_check' >= lastFailure =>
          2 * (Period * counter') <= 2 * (Period * Max) - Threshold * (last_check' - lastFailure)
    <3>1. counter' > 0
      BY <2>1, <2>3
    <3> QED
      BY ONLY <1>4, <2>3, <3>1 DEF Drained
  <2> QED
    BY <2>1, <2>2, <2>3, <2>4, RecoveryBound
<1> QED
  BY <1>3, <1>4, <1>5 DEF RateInv

LEMMA NextKeepsRateInv == RateInv /\ [RateNext]_rateVars => RateInv'
<1> SUFFICES ASSUME RateInv, [RateNext]_rateVars PROVE RateInv'
  OBVIOUS
<1>1. CASE Increment
  BY <1>1, IncrementKeepsRateInv
<1>2. CASE RunAt
  BY <1>2, RunAtKeepsRateInv
<1>3. CASE Pass
  BY <1>3 DEF RateInv, RateTypeOK, Pass, Drained, RecoversWithinTwice
<1>4. CASE UNCHANGED rateVars
  BY <1>4 DEF rateVars, RateInv, RateTypeOK, Drained, RecoversWithinTwice
<1> QED
  BY <1>1, <1>2, <1>3, <1>4 DEF RateNext

-----------------------------------------------------------------------------
\* The counter, the clock and the verdict keep their types; the saturating
\* subtraction of run_at keeps the counter a natural number.
THEOREM RateTypeCorrect == RateSpec => []RateTypeOK
<1>1. RateInv => RateTypeOK
  BY DEF RateInv
<1> QED
  BY InitRateInv, NextKeepsRateInv, <1>1, PTL DEF RateSpec

\* Whatever the schedule of the checks, a check fails for less than
\* 2 * NumberOfPeriods - 1 periods after the latest failure (run_at).
THEOREM Recovery == RateSpec => []RecoversWithinTwice
<1>1. RateInv => RecoversWithinTwice
  BY DEF RateInv
<1> QED
  BY InitRateInv, NextKeepsRateInv, <1>1, PTL DEF RateSpec

\* No check overlooks Threshold failures recorded since the latest drain.
THEOREM Bursts == RateSpec => BurstReported
<1>1. RateInv /\ [RateNext]_rateVars => [RunAt /\ verdict'.ok => recent' < Threshold]_rateVars
  <2>1. ASSUME RateInv, RunAt, verdict'.ok PROVE recent' < Threshold
    <3>1. counter' < Threshold
      BY <2>1 DEF RunAt
    <3>2. RateInv'
      BY <2>1, RunAtKeepsRateInv
    <3> QED
      BY <3>1, <3>2, ConstantsAssumption DEF RateInv, RateTypeOK
  <2> QED
    BY <2>1
<1> QED
  BY InitRateInv, NextKeepsRateInv, <1>1, PTL DEF RateSpec, BurstReported

-----------------------------------------------------------------------------
(* The lease. *)

\* Heartbeats are times that have passed.
Past(h) == h # NoBeat => h.at <= now

StampsPassed ==
  /\ \A r \in Runs : Past(runs[r].known) /\ Past(runs[r].flight)
  /\ Exists => Past(row.heartbeat)

\* What a pump is about to write is known to nobody else.
FlightsUnique ==
  \A q, r \in Runs :
    runs[r].flight # NoBeat =>
      /\ runs[r].flight # runs[q].known
      /\ runs[r].flight = runs[q].flight => q = r
      /\ Exists => runs[r].flight # row.heartbeat

\* A pump starts from a heartbeat that was stale when its Heart was spawned.
StartsExpired ==
  \A r \in Runs : runs[r].pump = "acquire" => ~IsRunning(runs[r].known)

\* The pump that knows the heartbeat of the row wrote it.
HolderWrote ==
  /\ \A r \in Runs : runs[r].pump = "hold" => runs[r].known # NoBeat
  /\ \A r \in Runs : Holds(r) => row.writer = r

\* Successive writes of a pump carry later times.
FlightsLater ==
  \A r \in Runs : runs[r].pump = "hold" /\ runs[r].flight # NoBeat =>
    runs[r].known.at <= runs[r].flight.at

Inv ==
  /\ TypeOK
  /\ StampsPassed
  /\ FlightsUnique
  /\ StartsExpired
  /\ HolderWrote
  /\ FlightsLater

-----------------------------------------------------------------------------
\* A heartbeat is never mistaken for NULL and has a time.
LEMMA BeatFacts ==
  ASSUME NEW h \in Beat
  PROVE  h # NoBeat /\ h.at \in Nat
  BY HeartbeatAssumption DEF Beat

\* The stamp of a write is new.
LEMMA FreshBeatFacts ==
  ASSUME TypeOK, FreshIds # {}
  PROVE  /\ FreshBeat \in Beat
         /\ FreshBeat.at = now
         /\ FreshBeat \notin BeatsInUse
<1>1. (CHOOSE n \in FreshIds : TRUE) \in FreshIds
  OBVIOUS
<1> QED
  BY <1>1 DEF FreshBeat, FreshIds, Beat, TypeOK

LEMMA InitInv == Init => Inv
  BY HeartbeatAssumption
  DEF Init, Inv, TypeOK, StampsPassed, FlightsUnique, StartsExpired, HolderWrote,
      FlightsLater, Run, Off, Exists, Past, Holds, Matches

-----------------------------------------------------------------------------
\* One step per action and, under it, one per conjunct of Inv.

LEMMA RowKeepsInv == Inv /\ (Create \/ Delete) => Inv'
<1> SUFFICES ASSUME Inv, Create \/ Delete PROVE Inv'
  OBVIOUS
<1> USE HeartbeatAssumption
<1>1. CASE Create
  BY <1>1 DEF Create, Inv, TypeOK, Row, StampsPassed, FlightsUnique, StartsExpired,
     HolderWrote, FlightsLater, Exists, Past, Holds, Matches, IsRunning
<1>2. CASE Delete
  BY <1>2 DEF Delete, Inv, TypeOK, Row, StampsPassed, FlightsUnique, StartsExpired,
     HolderWrote, FlightsLater, Exists, Past, Holds, Matches, IsRunning
<1> QED
  BY <1>1, <1>2

LEMMA TickKeepsInv == Inv /\ Tick => Inv'
<1> SUFFICES ASSUME Inv, Tick PROVE Inv'
  OBVIOUS
<1>1. now' = now + 1 /\ now \in Nat /\ UNCHANGED <<row, created, runs>>
  BY DEF Tick, Inv, TypeOK
<1>2. ASSUME NEW h \in Beat \cup {NoBeat}
      PROVE  /\ Past(h) => Past(h)'
             /\ ~IsRunning(h) => ~IsRunning(h)'
  BY <1>1, BeatFacts, HeartbeatAssumption DEF Past, IsRunning
<1>3. \A r \in Runs : runs[r].known \in Beat \cup {NoBeat} /\ runs[r].flight \in Beat \cup {NoBeat}
  BY DEF Inv, TypeOK, Run
<1>4. Exists => row.heartbeat \in Beat \cup {NoBeat}
  BY DEF Inv, TypeOK, Row, Exists
<1>5. TypeOK'
  BY <1>1 DEF Inv, TypeOK
<1>6. StampsPassed'
  BY <1>1, <1>2, <1>3, <1>4 DEF Inv, StampsPassed, Exists, Past
<1>7. StartsExpired'
  BY <1>1, <1>2, <1>3 DEF Inv, StartsExpired, IsRunning
<1>8. FlightsUnique' /\ HolderWrote' /\ FlightsLater'
  BY <1>1 DEF Inv, FlightsUnique, HolderWrote, FlightsLater, Holds, Matches, Exists
<1> QED
  BY <1>5, <1>6, <1>7, <1>8 DEF Inv

\* A run that leaves the pump alone, or ends it, or lists the row.
LEMMA LoopKeepsInv ==
  ASSUME NEW r \in Runs, Inv, List(r) \/ Spawn(r) \/ Stop(r) \/ WorkDone(r) \/ WorkCancelled(r)
  PROVE  Inv'
<1> USE HeartbeatAssumption
<1> USE DEF Inv, Exists
<1>1. CASE List(r)
  <2>1. row \in Row
    BY <1>1 DEF List, TypeOK
  <2>2. TypeOK'
    <3>1. runs[r] \in Run /\ row.heartbeat \in Beat \cup {NoBeat}
      BY <2>1 DEF TypeOK, Row
    <3>2. [runs[r] EXCEPT !.pump = "listed", !.known = row.heartbeat] \in Run
      BY <3>1 DEF Run
    <3> QED
      BY <1>1, <3>2 DEF List, TypeOK
  <2>3. StampsPassed' /\ FlightsUnique'
    BY <1>1, <2>1 DEF List, TypeOK, Row, Run, StampsPassed, FlightsUnique, Past
  <2>4. StartsExpired' /\ HolderWrote' /\ FlightsLater'
    BY <1>1 DEF List, TypeOK, Run, StartsExpired, IsRunning, HolderWrote, Holds, Matches, FlightsLater
  <2> QED
    BY <2>2, <2>3, <2>4
<1>2. CASE Spawn(r)
  BY <1>2 DEF Spawn, TypeOK, Run, StampsPassed, FlightsUnique, StartsExpired, IsRunning,
     HolderWrote, FlightsLater, Past, Holds, Matches
<1>3. CASE Stop(r)
  BY <1>3 DEF Stop, Off, TypeOK, Run, StampsPassed, FlightsUnique, StartsExpired, IsRunning,
     HolderWrote, FlightsLater, Past, Holds, Matches
<1>4. CASE WorkDone(r) \/ WorkCancelled(r)
  <2>1. runs[r] \in Run
    BY DEF TypeOK
  <2>2. [runs[r] EXCEPT !.working = FALSE] \in Run /\ [runs[r] EXCEPT !.cancelled = TRUE] \in Run
    BY <2>1 DEF Run
  <2>3. TypeOK'
    BY <1>4, <2>2 DEF WorkDone, WorkCancelled, TypeOK
  <2>4. \A q \in Runs : /\ runs'[q].pump = runs[q].pump
                        /\ runs'[q].known = runs[q].known
                        /\ runs'[q].flight = runs[q].flight
    BY <1>4, <2>1 DEF WorkDone, WorkCancelled, TypeOK, Run
  <2>5. UNCHANGED <<now, row, created>>
    BY <1>4 DEF WorkDone, WorkCancelled
  <2> QED
    BY <2>3, <2>4, <2>5 DEF StampsPassed, FlightsUnique, StartsExpired, IsRunning,
       HolderWrote, FlightsLater, Past, Holds, Matches
<1> QED
  BY <1>1, <1>2, <1>3, <1>4

LEMMA BeatBeginKeepsInv ==
  ASSUME NEW r \in Runs, Inv, BeatBegin(r)
  PROVE  Inv'
<1> DEFINE f == FreshBeat
<1>1. f \in Beat /\ f # NoBeat /\ f.at = now /\ f \notin BeatsInUse
  BY FreshBeatFacts, BeatFacts DEF BeatBegin, Inv
<1>2. runs' = [runs EXCEPT ![r].flight = f] /\ UNCHANGED <<now, row, created>>
      /\ runs[r].pump \in {"acquire", "hold"}
  BY DEF BeatBegin
<1>3. \A q \in Runs : f # runs[q].known /\ f # runs[q].flight
  BY <1>1 DEF BeatsInUse
<1>4. Exists => f # row.heartbeat
  BY <1>1 DEF BeatsInUse
<1> HIDE DEF f
<1> USE DEF Inv, TypeOK
<1>5. \A q \in Runs : runs'[q].flight = (IF q = r THEN f ELSE runs[q].flight)
      /\ runs'[q].known = runs[q].known /\ runs'[q].pump = runs[q].pump
  BY <1>2 DEF Run
<1>6. TypeOK'
  BY <1>1, <1>2 DEF Run
<1>7. StampsPassed'
  BY <1>1, <1>2, <1>5 DEF StampsPassed, Past, Exists
<1>8. FlightsUnique'
  BY <1>1, <1>2, <1>3, <1>4, <1>5 DEF FlightsUnique, Exists
<1>9. StartsExpired' /\ HolderWrote'
  BY <1>2, <1>5 DEF StartsExpired, IsRunning, HolderWrote, Holds, Matches, Exists
<1>10. FlightsLater'
  BY <1>1, <1>2, <1>5 DEF FlightsLater, StampsPassed, HolderWrote, Past
<1> QED
  BY <1>6, <1>7, <1>8, <1>9, <1>10

\* The effect of a write on what the pumps know: the flight of r replaces the
\* heartbeat of the row, and only r may go on from it.
LEMMA WriteFacts ==
  ASSUME NEW r \in Runs, Inv, Matches(r), runs[r].flight # NoBeat, WriteBeat(r)
  PROVE  /\ row \in Row /\ row' \in Row
         /\ row'.heartbeat = runs[r].flight
         /\ row'.writer = r
         /\ row'.incarnation = row.incarnation
         /\ runs[r].flight \in Beat
         /\ \A q \in Runs : runs[q].known # row'.heartbeat
  BY DEF Inv, TypeOK, Row, Run, Matches, Exists, WriteBeat, FlightsUnique

\* A step of r that completes a write, successfully or not.
LEMMA CompletionKeepsInv ==
  ASSUME NEW r \in Runs, NEW x \in Run, Inv,
         runs[r].flight # NoBeat,
         runs' = [runs EXCEPT ![r] = x],
         UNCHANGED <<now, created>>,
         UNCHANGED row \/ (Matches(r) /\ WriteBeat(r)),
         x.flight = NoBeat,
         \/ x = Off
         \/ x.pump = "hold" /\ x.known = runs[r].flight /\ Matches(r) /\ WriteBeat(r)
         \/ x.pump = "hold" /\ x.known = runs[r].known /\ runs[r].pump = "hold"
  PROVE  Inv'
<1> USE HeartbeatAssumption
<1>1. Off.pump = "off" /\ Off.known = NoBeat /\ Off.flight = NoBeat
  BY DEF Off
<1>2. \A q \in Runs : runs'[q] = IF q = r THEN x ELSE runs[q]
  BY DEF Inv, TypeOK
<1>3. Matches(r) /\ WriteBeat(r) =>
        /\ row \in Row /\ row' \in Row /\ row # NoRow /\ row' # NoRow
        /\ row'.heartbeat = runs[r].flight /\ row'.writer = r
        /\ \A q \in Runs : runs[q].known # row'.heartbeat
  BY WriteFacts DEF Matches, Exists
<1>4. TypeOK'
  BY <1>3 DEF Inv, TypeOK
<1>5. StampsPassed'
  BY <1>1, <1>2, <1>3 DEF Inv, StampsPassed, Past, Exists
<1>6. FlightsUnique'
  BY <1>1, <1>2, <1>3 DEF Inv, FlightsUnique, Exists
<1>7. StartsExpired'
  BY <1>1, <1>2 DEF Inv, StartsExpired, IsRunning
<1>8. HolderWrote'
  BY <1>1, <1>2, <1>3 DEF Inv, HolderWrote, Holds, Matches, Exists
<1>9. FlightsLater'
  BY <1>1, <1>2 DEF Inv, FlightsLater
<1> QED
  BY <1>4, <1>5, <1>6, <1>7, <1>8, <1>9 DEF Inv

LEMMA WritesKeepInv ==
  ASSUME NEW r \in Runs, Inv, Acquire(r) \/ AcquireFail(r) \/ BeatOk(r) \/ BeatFail(r)
  PROVE  Inv'
<1> USE HeartbeatAssumption
<1>1. Off \in Run /\ Off.flight = NoBeat
  BY DEF Off, Run
<1>2. runs[r] \in Run
  BY DEF Inv, TypeOK
<1>3. CASE Acquire(r)
  <2> DEFINE x == [Off EXCEPT !.pump = "hold", !.known = runs[r].flight, !.working = TRUE,
                              !.incarnation = row.incarnation]
  <2>1. x \in Run /\ x.flight = NoBeat /\ x.pump = "hold" /\ x.known = runs[r].flight
    BY <1>2, <1>3 DEF Off, Run, Acquire, Matches, Exists, Inv, TypeOK, Row
  <2> QED
    BY <1>3, <2>1, CompletionKeepsInv DEF Acquire
<1>4. CASE AcquireFail(r)
  BY <1>1, <1>4, CompletionKeepsInv DEF AcquireFail, FailedBeat
<1>5. CASE BeatOk(r)
  <2> DEFINE x == IF runs[r].working
                    THEN [runs[r] EXCEPT !.known = runs[r].flight, !.flight = NoBeat]
                    ELSE Off
  <2>1. x \in Run /\ x.flight = NoBeat
        /\ (x = Off \/ (x.pump = "hold" /\ x.known = runs[r].flight))
    BY <1>1, <1>2, <1>5 DEF Run, BeatOk
  <2> QED
    BY <1>5, <2>1, CompletionKeepsInv DEF BeatOk
<1>6. CASE BeatFail(r)
  <2> DEFINE x == IF runs[r].working
                    THEN [runs[r] EXCEPT !.flight = NoBeat, !.cancelled = TRUE, !.missed = TRUE]
                    ELSE Off
  <2>1. x \in Run /\ x.flight = NoBeat
        /\ (x = Off \/ (x.pump = "hold" /\ x.known = runs[r].known))
    BY <1>1, <1>2, <1>6 DEF Run, BeatFail
  <2> QED
    BY <1>6, <2>1, CompletionKeepsInv DEF BeatFail, FailedBeat
<1> QED
  BY <1>3, <1>4, <1>5, <1>6

LEMMA NextKeepsInv == Inv /\ [Next]_vars => Inv'
<1> SUFFICES ASSUME Inv, [Next]_vars PROVE Inv'
  OBVIOUS
<1>1. CASE Create \/ Delete
  BY <1>1, RowKeepsInv
<1>2. CASE Tick
  BY <1>2, TickKeepsInv
<1>3. ASSUME NEW r \in Runs, List(r) \/ Spawn(r) \/ Stop(r) \/ WorkDone(r) \/ WorkCancelled(r)
      PROVE  Inv'
  BY <1>3, LoopKeepsInv
<1>4. ASSUME NEW r \in Runs, BeatBegin(r)
      PROVE  Inv'
  BY <1>4, BeatBeginKeepsInv
<1>5. ASSUME NEW r \in Runs, Acquire(r) \/ AcquireFail(r) \/ BeatOk(r) \/ BeatFail(r)
      PROVE  Inv'
  BY <1>5, WritesKeepInv
<1>6. CASE UNCHANGED vars
  BY <1>6 DEF vars, Inv, TypeOK, StampsPassed, FlightsUnique, StartsExpired, HolderWrote,
     FlightsLater, Exists, Past, IsRunning, Holds, Matches
<1> QED
  BY <1>1, <1>2, <1>3, <1>4, <1>5, <1>6 DEF Next

THEOREM Invariance == Spec => []Inv
  BY InitInv, NextKeepsInv, PTL DEF Spec

\* The variables keep their types.
THEOREM TypeCorrect == Spec => []TypeOK
<1>1. Inv => TypeOK
  BY DEF Inv
<1> QED
  BY Invariance, <1>1, PTL

\* The compare-and-swap of Heart::beat lets at most one pump go on, whatever is
\* late and whatever fails.
THEOREM OneHolderAlways == Spec => []OneHolder
<1>1. Inv => OneHolder
  BY DEF Inv, HolderWrote, OneHolder
<1> QED
  BY Invariance, <1>1, PTL

-----------------------------------------------------------------------------
(* Mutual exclusion, when writes are less than Rate late. *)

\* What the clock waits for.
WritesOnTime ==
  \A r \in Runs :
    /\ runs[r].pump = "acquire" /\ runs[r].flight # NoBeat => now <= runs[r].flight.at + MaxDelay
    /\ runs[r].pump = "hold" /\ ~runs[r].missed => now <= runs[r].known.at + Rate + MaxDelay

\* A failed beat cancels the token.
MissedCancelled == \A r \in Runs : runs[r].pump = "hold" /\ runs[r].missed => runs[r].cancelled

WorkHasPump == \A r \in Runs : runs[r].working => runs[r].pump = "hold"

IdleWritesNothing ==
  \A r \in Runs : runs[r].pump \in {"off", "listed"} => runs[r].flight = NoBeat

IncarnationsPassed ==
  /\ Exists => row.incarnation <= created
  /\ \A r \in Runs : runs[r].pump = "hold" => runs[r].incarnation <= created

\* An import that was not asked to stop still holds the lease on its row.
ActiveHolds ==
  \A r \in Runs :
    Active(r) /\ Exists /\ runs[r].incarnation = row.incarnation => Holds(r)

TimelyInv ==
  /\ WritesOnTime
  /\ MissedCancelled
  /\ WorkHasPump
  /\ IdleWritesNothing
  /\ IncarnationsPassed
  /\ ActiveHolds
  /\ OneActiveRun

LEMMA InitTimelyInv == Init => TimelyInv
  BY DEF Init, TimelyInv, WritesOnTime, MissedCancelled, WorkHasPump, IdleWritesNothing, IncarnationsPassed, ActiveHolds,
     OneActiveRun, Active, Off, Exists

\* A write for a Heart that is about to acquire the row finds no active import:
\* the lease of that import would not have expired.
LEMMA NoActiveRunAtAcquisition ==
  ASSUME MaxDelay < Rate, Inv, TimelyInv, NEW r \in Runs,
         runs[r].pump = "acquire", Matches(r),
         NEW q \in Runs, Active(q), runs[q].incarnation = row.incarnation
  PROVE  FALSE
<1> USE HeartbeatAssumption
<1>1. Holds(q) /\ runs[q].pump = "hold" /\ ~runs[q].cancelled
  BY DEF TimelyInv, ActiveHolds, Active, WorkHasPump, Matches
<1>2. runs[q].known = runs[r].known /\ runs[q].known # NoBeat
  BY <1>1 DEF Holds, Matches, Inv, HolderWrote
<1>3. runs[q].known.at \in Nat /\ now \in Nat
  BY <1>2, BeatFacts DEF Inv, TypeOK, Run
<1>4. now - runs[q].known.at >= 2 * Rate
  BY <1>2, <1>3 DEF Inv, StartsExpired, IsRunning
<1>5. now <= runs[q].known.at + Rate + MaxDelay
  BY <1>1 DEF TimelyInv, WritesOnTime, MissedCancelled
<1> QED
  BY <1>3, <1>4, <1>5

\* The completion of a write by r, with x the new state of r.
LEMMA CompletionKeepsTimelyInv ==
  ASSUME MaxDelay < Rate, Inv, TimelyInv,
         NEW r \in Runs, NEW x \in Run,
         runs[r].pump \in {"acquire", "hold"},
         runs[r].flight # NoBeat,
         runs' = [runs EXCEPT ![r] = x],
         UNCHANGED <<now, created>>,
         UNCHANGED row \/ (Matches(r) /\ WriteBeat(r)),
         x.flight = NoBeat,
         \* the pump ended, or goes on without having written, or has the lease
         \/ x = Off
         \/ x.pump = "hold" /\ x.cancelled /\ x.missed /\ runs[r].pump = "hold"
              /\ x.incarnation = runs[r].incarnation
         \/ /\ x.pump = "hold" /\ x.known = runs[r].flight /\ Matches(r) /\ WriteBeat(r)
            /\ runs[r].pump = "hold" =>
                 x.missed = runs[r].missed /\ (~x.cancelled => ~runs[r].cancelled)
            /\ runs[r].pump = "acquire" => ~x.missed
            /\ \/ runs[r].pump = "acquire" /\ x.incarnation = row.incarnation
               \/ runs[r].pump = "hold" /\ x.incarnation = runs[r].incarnation
                    /\ (x.working => runs[r].working)
  PROVE  TimelyInv'
<1> USE HeartbeatAssumption
<1>1. Off.pump = "off" /\ Off.flight = NoBeat /\ ~Off.working
  BY DEF Off
<1>2. \A q \in Runs : runs'[q] = IF q = r THEN x ELSE runs[q]
  BY DEF Inv, TypeOK
<1>3. Matches(r) /\ WriteBeat(r) =>
        /\ row \in Row /\ row' \in Row /\ row # NoRow /\ row' # NoRow
        /\ row'.heartbeat = runs[r].flight /\ row'.incarnation = row.incarnation
        /\ runs[r].flight \in Beat
  BY WriteFacts DEF Matches, Exists
\* Nobody else is active for the row that r writes.
<1>4. ASSUME Matches(r), NEW q \in Runs, q # r, Active(q), runs[q].incarnation = row.incarnation
      PROVE  FALSE
  <2>1. CASE runs[r].pump = "acquire"
    BY <1>4, <2>1, NoActiveRunAtAcquisition
  <2>2. CASE runs[r].pump = "hold"
    BY <1>4, <2>2 DEF TimelyInv, ActiveHolds, Matches, Holds, Inv, HolderWrote
  <2> QED
    BY <2>1, <2>2
<1>5. WritesOnTime'
  <2>1. ASSUME x.pump = "hold", ~x.missed
        PROVE  now <= x.known.at + Rate + MaxDelay
    <3>1. x.known = runs[r].flight /\ runs[r].flight \in Beat
      BY <1>1, <1>3, <2>1
    <3>2. runs[r].flight.at \in Nat /\ now \in Nat
      BY <3>1, BeatFacts DEF Inv, TypeOK
    <3>3. CASE runs[r].pump = "acquire"
      BY <3>1, <3>2, <3>3 DEF TimelyInv, WritesOnTime
    <3>4. CASE runs[r].pump = "hold" /\ ~runs[r].missed
      <4>1. runs[r].known # NoBeat /\ runs[r].known.at <= runs[r].flight.at
        BY <3>4 DEF Inv, HolderWrote, FlightsLater
      <4>2. runs[r].known.at \in Nat
        BY <4>1, BeatFacts DEF Inv, TypeOK, Run
      <4>3. now <= runs[r].known.at + Rate + MaxDelay
        BY <3>4 DEF TimelyInv, WritesOnTime
      <4> QED
        BY <3>1, <3>2, <4>1, <4>2, <4>3
    <3> QED
      BY <1>1, <2>1, <3>3, <3>4
  <2> QED
    BY <1>1, <1>2, <2>1 DEF TimelyInv, WritesOnTime
<1>6. MissedCancelled' /\ WorkHasPump' /\ IdleWritesNothing'
  BY <1>1, <1>2 DEF TimelyInv, MissedCancelled, WorkHasPump, IdleWritesNothing
<1>7. IncarnationsPassed'
  BY <1>1, <1>2, <1>3 DEF TimelyInv, IncarnationsPassed, Exists
<1>8. ActiveHolds'
  <2>1. SUFFICES ASSUME NEW q \in Runs, Active(q)', Exists', runs'[q].incarnation = row'.incarnation
                 PROVE  Holds(q)'
    BY DEF ActiveHolds
  <2>2. CASE q = r
    BY <1>1, <1>2, <1>3, <2>1, <2>2 DEF Active, Holds, Matches, Exists
  <2>3. CASE q # r
    <3>1. Active(q)
      BY <1>2, <2>1, <2>3 DEF Active
    <3>2. UNCHANGED row
      BY <1>2, <1>3, <1>4, <2>1, <2>3, <3>1
    <3> QED
      BY <1>2, <2>1, <2>3, <3>1, <3>2 DEF TimelyInv, ActiveHolds, Holds, Matches, Exists
  <2> QED
    BY <2>2, <2>3
<1>9. OneActiveRun'
  <2>1. SUFFICES ASSUME NEW q \in Runs, q # r, Active(q), Active(r)',
                        runs[q].incarnation = x.incarnation
                 PROVE  FALSE
    BY <1>2 DEF OneActiveRun, TimelyInv, Active
  <2>2. x.pump = "hold" /\ x.known = runs[r].flight /\ Matches(r) /\ x.working /\ ~x.cancelled
    BY <1>1, <1>2, <2>1 DEF Active
  <2>3. CASE runs[r].pump = "acquire"
    <3>1. x.incarnation = row.incarnation
      BY <1>1, <2>2, <2>3
    <3> QED
      BY <1>4, <2>1, <2>2, <3>1
  <2>4. CASE runs[r].pump = "hold"
    <3>1. /\ x.incarnation = runs[r].incarnation
          /\ runs[r].working
          /\ ~runs[r].cancelled
      BY <1>1, <2>2, <2>4
    <3>2. Active(r)
      BY <3>1 DEF Active
    <3> QED
      BY <2>1, <3>1, <3>2 DEF TimelyInv, OneActiveRun
  <2> QED
    BY <2>3, <2>4
<1> QED
  BY <1>5, <1>6, <1>7, <1>8, <1>9 DEF TimelyInv

\* A new row is a new incarnation: nobody runs it.
LEMMA RowKeepsTimelyInv == Inv /\ TimelyInv /\ (Create \/ Delete) => TimelyInv'
<1> SUFFICES ASSUME Inv, TimelyInv, Create \/ Delete PROVE TimelyInv'
  OBVIOUS
<1> USE HeartbeatAssumption DEF TimelyInv
<1>1. UNCHANGED <<now, runs>> /\ created \in Nat
  BY DEF Create, Delete, Inv, TypeOK
<1>2. \A q \in Runs : runs[q].incarnation \in Nat
  BY DEF Inv, TypeOK, Run
<1>3. WritesOnTime' /\ MissedCancelled' /\ WorkHasPump' /\ IdleWritesNothing' /\ OneActiveRun'
  BY <1>1 DEF WritesOnTime, MissedCancelled, WorkHasPump, IdleWritesNothing, OneActiveRun, Active
<1>4. CASE Create
  <2>1. created' = created + 1 /\ row'.incarnation = created + 1 /\ Exists'
    BY <1>1, <1>4 DEF Create, Exists, Row
  <2>2. IncarnationsPassed'
    BY <1>1, <1>2, <2>1 DEF IncarnationsPassed
  <2>3. ActiveHolds'
    BY <1>1, <1>2, <2>1 DEF ActiveHolds, Active, WorkHasPump, IncarnationsPassed
  <2> QED
    BY <1>3, <2>2, <2>3
<1>5. CASE Delete
  BY <1>1, <1>3, <1>5 DEF Delete, IncarnationsPassed, ActiveHolds, Exists
<1> QED
  BY <1>4, <1>5

\* The clock waits for the writes.
LEMMA TickKeepsTimelyInv == Inv /\ TimelyInv /\ Tick => TimelyInv'
<1> SUFFICES ASSUME Inv, TimelyInv, Tick PROVE TimelyInv'
  OBVIOUS
<1> USE HeartbeatAssumption DEF TimelyInv
<1>1. now' = now + 1 /\ now \in Nat /\ UNCHANGED <<row, created, runs>>
  BY DEF Tick, Inv, TypeOK
<1>2. \A r \in Runs :
        /\ runs[r].flight # NoBeat => runs[r].flight.at \in Nat
        /\ runs[r].pump = "hold" => runs[r].known.at \in Nat
  BY BeatFacts DEF Inv, TypeOK, Run, HolderWrote
<1>3. \A r \in Runs : OnTime(r)
  BY DEF Tick
<1>4. WritesOnTime'
  BY <1>1, <1>2, <1>3 DEF WritesOnTime, OnTime
<1>5. MissedCancelled' /\ WorkHasPump' /\ IdleWritesNothing' /\ IncarnationsPassed' /\ ActiveHolds' /\ OneActiveRun'
  BY <1>1 DEF MissedCancelled, WorkHasPump, IdleWritesNothing, IncarnationsPassed, ActiveHolds, OneActiveRun, Active, Holds,
     Matches, Exists
<1> QED
  BY <1>4, <1>5

\* The loop starts and stops pumps that have no work afterwards.
LEMMA LoopKeepsTimelyInv ==
  ASSUME NEW r \in Runs, Inv, TimelyInv, List(r) \/ Spawn(r) \/ Stop(r)
  PROVE  TimelyInv'
<1>1. UNCHANGED <<now, row, created>>
  BY DEF List, Spawn, Stop
<1>2. runs \in [Runs -> Run]
  BY DEF Inv, TypeOK
<1>3. /\ runs'[r].pump \in {"off", "listed", "acquire"}
      /\ runs'[r].flight = NoBeat
      /\ ~runs'[r].working
  BY <1>2 DEF List, Spawn, Stop, Off, Run, TimelyInv, MissedCancelled, WorkHasPump, IdleWritesNothing
<1>4. \A q \in Runs : q # r => runs'[q] = runs[q]
  BY <1>2 DEF List, Spawn, Stop
<1>5. WritesOnTime' /\ MissedCancelled' /\ WorkHasPump' /\ IdleWritesNothing' /\ IncarnationsPassed'
  BY <1>1, <1>3, <1>4 DEF TimelyInv, WritesOnTime, MissedCancelled, WorkHasPump, IdleWritesNothing,
     IncarnationsPassed, Exists
<1>6. ActiveHolds' /\ OneActiveRun'
  BY <1>1, <1>3, <1>4 DEF TimelyInv, ActiveHolds, OneActiveRun, Active, Holds, Matches, Exists
<1> QED
  BY <1>5, <1>6 DEF TimelyInv

\* A write starts now, and work may end or be cancelled at any time.
LEMMA RunKeepsTimelyInv ==
  ASSUME NEW r \in Runs, Inv, TimelyInv, BeatBegin(r) \/ WorkDone(r) \/ WorkCancelled(r)
  PROVE  TimelyInv'
<1> USE HeartbeatAssumption
<1>1. UNCHANGED <<now, row, created>> /\ now \in Nat
  BY DEF BeatBegin, WorkDone, WorkCancelled, Inv, TypeOK
<1>2. runs \in [Runs -> Run]
  BY DEF Inv, TypeOK
<1>3. \A q \in Runs :
        /\ runs'[q].pump = runs[q].pump
        /\ runs'[q].known = runs[q].known
        /\ runs'[q].incarnation = runs[q].incarnation
        /\ runs'[q].working => runs[q].working
        /\ ~runs'[q].cancelled => ~runs[q].cancelled
        /\ runs'[q].missed = runs[q].missed
  BY <1>2 DEF BeatBegin, WorkDone, WorkCancelled, Run
<1>4. \A q \in Runs :
        \/ runs'[q].flight = runs[q].flight
        \/ runs[q].pump \in {"acquire", "hold"} /\ runs'[q].flight.at = now
  BY <1>2, FreshBeatFacts DEF BeatBegin, WorkDone, WorkCancelled, Run, Inv
<1>5. WritesOnTime'
  BY <1>1, <1>3, <1>4 DEF TimelyInv, WritesOnTime
<1>6. MissedCancelled' /\ WorkHasPump' /\ IdleWritesNothing' /\ IncarnationsPassed'
  BY <1>1, <1>3, <1>4 DEF TimelyInv, MissedCancelled, WorkHasPump, IdleWritesNothing, IncarnationsPassed, Exists
<1>7. ActiveHolds' /\ OneActiveRun'
  BY <1>1, <1>3 DEF TimelyInv, ActiveHolds, OneActiveRun, Active, Holds, Matches, Exists
<1> QED
  BY <1>5, <1>6, <1>7 DEF TimelyInv

LEMMA WritesKeepTimelyInv ==
  ASSUME MaxDelay < Rate, NEW r \in Runs, Inv, TimelyInv,
         Acquire(r) \/ AcquireFail(r) \/ BeatOk(r) \/ BeatFail(r)
  PROVE  TimelyInv'
<1>1. Off \in Run /\ Off.flight = NoBeat
  BY DEF Off, Run
<1>2. runs[r] \in Run
  BY DEF Inv, TypeOK
<1>3. CASE Acquire(r)
  <2> DEFINE x == [Off EXCEPT !.pump = "hold", !.known = runs[r].flight, !.working = TRUE,
                              !.incarnation = row.incarnation]
  <2>1. x \in Run /\ x.flight = NoBeat /\ x.pump = "hold" /\ x.known = runs[r].flight
        /\ x.incarnation = row.incarnation /\ ~x.missed
    BY <1>2, <1>3 DEF Off, Run, Acquire, Matches, Exists, Inv, TypeOK, Row
  <2> HIDE DEF x
  <2>2. runs' = [runs EXCEPT ![r] = x] /\ runs[r].pump = "acquire" /\ runs[r].flight # NoBeat
        /\ Matches(r) /\ WriteBeat(r) /\ UNCHANGED <<now, created>>
    BY <1>3 DEF Acquire, x
  <2> QED
    BY <2>1, <2>2, CompletionKeepsTimelyInv
<1>4. CASE AcquireFail(r)
  BY <1>1, <1>4, CompletionKeepsTimelyInv DEF AcquireFail, FailedBeat
<1>5. CASE BeatOk(r)
  <2> DEFINE x == IF runs[r].working
                    THEN [runs[r] EXCEPT !.known = runs[r].flight, !.flight = NoBeat]
                    ELSE Off
  <2>1. /\ x \in Run /\ x.flight = NoBeat
        /\ \/ x = Off
           \/ /\ x.pump = "hold" /\ x.known = runs[r].flight
              /\ x.cancelled = runs[r].cancelled /\ x.missed = runs[r].missed
              /\ x.incarnation = runs[r].incarnation
              /\ runs[r].working
    BY <1>1, <1>2, <1>5 DEF Run, BeatOk
  <2> HIDE DEF x
  <2>2. runs' = [runs EXCEPT ![r] = x] /\ runs[r].pump = "hold" /\ runs[r].flight # NoBeat
        /\ Matches(r) /\ WriteBeat(r) /\ UNCHANGED <<now, created>>
    BY <1>5 DEF BeatOk, x
  <2> QED
    BY <2>1, <2>2, CompletionKeepsTimelyInv
<1>6. CASE BeatFail(r)
  <2> DEFINE x == IF runs[r].working
                    THEN [runs[r] EXCEPT !.flight = NoBeat, !.cancelled = TRUE, !.missed = TRUE]
                    ELSE Off
  <2>1. x \in Run /\ x.flight = NoBeat
        /\ \/ x = Off
           \/ x.pump = "hold" /\ x.cancelled /\ x.missed /\ x.incarnation = runs[r].incarnation
    BY <1>1, <1>2, <1>6 DEF Run, BeatFail
  <2> HIDE DEF x
  <2>2. runs' = [runs EXCEPT ![r] = x] /\ runs[r].pump = "hold" /\ runs[r].flight # NoBeat
        /\ (UNCHANGED row \/ (Matches(r) /\ WriteBeat(r))) /\ UNCHANGED <<now, created>>
    BY <1>6 DEF BeatFail, FailedBeat, x
  <2> QED
    BY <2>1, <2>2, CompletionKeepsTimelyInv
<1> QED
  BY <1>3, <1>4, <1>5, <1>6

LEMMA NextKeepsTimelyInv ==
  ASSUME MaxDelay < Rate, Inv, TimelyInv, [Next]_vars
  PROVE  TimelyInv'
<1>1. CASE Create \/ Delete
  BY <1>1, RowKeepsTimelyInv
<1>2. CASE Tick
  BY <1>2, TickKeepsTimelyInv
<1>3. ASSUME NEW r \in Runs, List(r) \/ Spawn(r) \/ Stop(r)
      PROVE  TimelyInv'
  BY <1>3, LoopKeepsTimelyInv
<1>4. ASSUME NEW r \in Runs, BeatBegin(r) \/ WorkDone(r) \/ WorkCancelled(r)
      PROVE  TimelyInv'
  BY <1>4, RunKeepsTimelyInv
<1>5. ASSUME NEW r \in Runs, Acquire(r) \/ AcquireFail(r) \/ BeatOk(r) \/ BeatFail(r)
      PROVE  TimelyInv'
  BY <1>5, WritesKeepTimelyInv
<1>6. CASE UNCHANGED vars
  BY <1>6 DEF vars, TimelyInv, WritesOnTime, MissedCancelled, WorkHasPump, IdleWritesNothing,
     IncarnationsPassed, ActiveHolds, OneActiveRun, Exists, Active, Holds, Matches
<1> QED
  BY <1>1, <1>2, <1>3, <1>4, <1>5, <1>6 DEF Next

\* As long as no write is Rate late, an importer is never imported twice at the
\* same time, but for an import that has been asked to stop.
THEOREM Exclusion ==
  ASSUME MaxDelay < Rate
  PROVE  Spec => []OneActiveRun
<1>1. Init => TimelyInv
  BY InitTimelyInv
<1>2. Inv /\ TimelyInv /\ [Next]_vars => TimelyInv'
  BY NextKeepsTimelyInv
<1>3. TimelyInv => OneActiveRun
  BY DEF TimelyInv
<1> QED
  BY <1>1, <1>2, <1>3, Invariance, PTL DEF Spec

-----------------------------------------------------------------------------
(* The refinement of HeartbeatLease. *)

USE DEF Lease!vars, Lease!Init, Lease!Next, Lease!Grant, Lease!Renew, Lease!End, Lease!Tick,
        Leased

LEMMA InitLease == Init => Lease!Init
  BY DEF Init, Exists

\* A pump that is starting writes into a row that had expired.
LEMMA GrantsLease ==
  ASSUME Inv, NEW r \in Runs, runs[r].pump = "acquire", runs[r].flight # NoBeat,
         Matches(r), WriteBeat(r), UNCHANGED now
  PROVE  Lease!Grant(r)
<1> USE HeartbeatAssumption
<1>1. row \in Row /\ row' \in Row /\ row # NoRow /\ row' # NoRow
      /\ row'.heartbeat = runs[r].flight /\ row'.writer = r
      /\ runs[r].flight \in Beat
  BY WriteFacts DEF Matches, Exists
<1>2. row'.heartbeat # NoBeat /\ row'.heartbeat.at \in 0 .. now
  BY <1>1, BeatFacts DEF Inv, TypeOK, StampsPassed, Past
<1>3. row.heartbeat = runs[r].known /\ ~IsRunning(row.heartbeat)
  BY DEF Matches, Inv, StartsExpired
<1>4. row.heartbeat # NoBeat => now - row.heartbeat.at >= 2 * Rate
  <2>1. row.heartbeat # NoBeat => row.heartbeat.at \in Nat /\ now \in Nat
    BY <1>1, BeatFacts DEF Row, Inv, TypeOK
  <2> QED
    BY <1>3, <2>1 DEF IsRunning
<1> QED
  BY <1>1, <1>2, <1>4 DEF Exists

\* A pump that has the row renews its own lease.
LEMMA RenewsLease ==
  ASSUME Inv, NEW r \in Runs, runs[r].pump = "hold", runs[r].flight # NoBeat,
         Matches(r), WriteBeat(r), UNCHANGED now
  PROVE  Lease!Renew(r)
<1> USE HeartbeatAssumption
<1>1. row \in Row /\ row' \in Row /\ row # NoRow /\ row' # NoRow
      /\ row'.heartbeat = runs[r].flight /\ row'.writer = r
      /\ runs[r].flight \in Beat
  BY WriteFacts DEF Matches, Exists
<1>2. row.heartbeat = runs[r].known /\ row.heartbeat # NoBeat /\ row.writer = r
  BY DEF Matches, Inv, HolderWrote, Holds
<1>3. row.heartbeat.at <= row'.heartbeat.at /\ row'.heartbeat.at <= now
  BY <1>1, <1>2, BeatFacts DEF Inv, FlightsLater, StampsPassed, Past
<1>4. row.heartbeat.at \in Nat /\ row'.heartbeat.at \in Nat /\ now \in Nat
  BY <1>1, <1>2, BeatFacts DEF Row, Inv, TypeOK
<1>5. row'.heartbeat.at \in row.heartbeat.at .. now
  BY <1>3, <1>4
<1>6. Exists /\ Exists' /\ row'.heartbeat # NoBeat
  BY <1>1, BeatFacts DEF Exists
<1> QED
  BY <1>1, <1>2, <1>5, <1>6

LEMMA NextLease == Inv /\ [Next]_vars => [Lease!Next]_(Lease!vars)
<1> SUFFICES ASSUME Inv, [Next]_vars PROVE [Lease!Next]_(Lease!vars)
  OBVIOUS
<1>1. CASE Create
  BY <1>1 DEF Create, Exists
<1>2. CASE Delete
  BY <1>2 DEF Delete, Exists
<1>3. CASE Tick
  BY <1>3 DEF Tick, Exists
<1>4. ASSUME UNCHANGED <<now, row>>
      PROVE  [Lease!Next]_(Lease!vars)
  BY <1>4 DEF Exists
<1>5. ASSUME NEW r \in Runs,
             \/ List(r) \/ Spawn(r) \/ Stop(r) \/ BeatBegin(r) \/ WorkDone(r) \/ WorkCancelled(r)
      PROVE  [Lease!Next]_(Lease!vars)
  BY <1>4, <1>5 DEF List, Spawn, Stop, BeatBegin, WorkDone, WorkCancelled
<1>6. ASSUME NEW r \in Runs, Acquire(r) \/ AcquireFail(r)
      PROVE  [Lease!Next]_(Lease!vars)
  <2>1. runs[r].pump = "acquire" /\ runs[r].flight # NoBeat /\ UNCHANGED now
        /\ (UNCHANGED row \/ (Matches(r) /\ WriteBeat(r)))
    BY <1>6 DEF Acquire, AcquireFail, FailedBeat
  <2> QED
    BY <1>4, <2>1, GrantsLease
<1>7. ASSUME NEW r \in Runs, BeatOk(r) \/ BeatFail(r)
      PROVE  [Lease!Next]_(Lease!vars)
  <2>1. runs[r].pump = "hold" /\ runs[r].flight # NoBeat /\ UNCHANGED now
        /\ (UNCHANGED row \/ (Matches(r) /\ WriteBeat(r)))
    BY <1>7 DEF BeatOk, BeatFail, FailedBeat
  <2> QED
    BY <1>4, <2>1, RenewsLease
<1>8. CASE UNCHANGED vars
  BY <1>4, <1>8 DEF vars
<1> QED
  BY <1>1, <1>2, <1>3, <1>5, <1>6, <1>7, <1>8 DEF Next

\* The heartbeat column implements the lease.
THEOREM Implementation == Spec => ImplementsLease
<1>1. Init => Lease!Init
  BY InitLease
<1>2. Inv /\ [Next]_vars => [Lease!Next]_(Lease!vars)
  BY NextLease
<1> QED
  BY <1>1, <1>2, Invariance, PTL DEF Spec, ImplementsLease, Lease!Spec
================================================================================
