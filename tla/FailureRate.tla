------------------------------ MODULE FailureRate ------------------------------
(***************************************************************************)
(* The leaky-bucket health check of                                        *)
(* common/infrastructure/src/health/checks/failure.rs.  Handles count      *)
(* failures up to a maximum; each check drains Threshold failures for      *)
(* every whole period since the last check that drained anything.  Time    *)
(* is a clock of ticks, Period ticks to a period.                          *)
(*                                                                         *)
(* handle.increment holds the read lock around one atomic fetch_update and *)
(* run_at holds the write lock throughout, so each is a single step.       *)
(***************************************************************************)
EXTENDS Integers

CONSTANTS
  Period,            \* ticks in a period
  Threshold,         \* allowed failures per period
  NumberOfPeriods,   \* the maximum is this many thresholds
  MaxInstant            \* bound of the clock

ASSUME ConstantsAssumption ==
  /\ Period \in Nat \ {0}
  /\ Threshold \in Nat \ {0}
  /\ NumberOfPeriods \in Nat \ {0}
  /\ MaxInstant \in Nat

VARIABLES
  counter,       \* State.counter
  last_check,    \* State.last_check
  instant,           \* Instant::now()
  verdict,       \* the answer of the latest check and when it was given
  lastFailure,   \* history: when the latest failure was recorded
  recent         \* history: failures recorded since last_check was last moved

rateVars == <<counter, last_check, instant, verdict, lastFailure, recent>>

Max == NumberOfPeriods * Threshold

RateTypeOK ==
  /\ counter \in Nat
  /\ last_check \in Nat
  /\ instant \in Nat
  /\ verdict \in [at : Nat, ok : BOOLEAN]
  /\ lastFailure \in Nat
  /\ recent \in Nat

RateInit ==
  /\ counter = 0
  /\ last_check = 0
  /\ instant = 0
  /\ verdict = [at |-> 0, ok |-> TRUE]
  /\ lastFailure = 0
  /\ recent = 0

\* Mutant of Increment: no maximum.
UncappedIncrement ==
  /\ counter' = counter + 1
  /\ lastFailure' = instant
  /\ recent' = IF recent < Threshold THEN recent + 1 ELSE recent
  /\ UNCHANGED <<last_check, instant, verdict>>

Increment ==
  /\ counter' = IF counter < Max THEN counter + 1 ELSE counter
  /\ lastFailure' = instant
  /\ recent' = IF recent < Threshold THEN recent + 1 ELSE recent
  /\ UNCHANGED <<last_check, instant, verdict>>

Elapsed == (instant - last_check) \div Period

\* saturating_sub of the leak
Leaked == IF counter > Elapsed * Threshold THEN counter - Elapsed * Threshold ELSE 0

\* Mutant of RunAt: it compares with > where the code has >=.
LenientRunAt ==
  /\ IF Elapsed > 0
       THEN counter' = Leaked /\ last_check' = instant /\ recent' = 0
       ELSE UNCHANGED <<counter, last_check, recent>>
  /\ verdict' = [at |-> instant, ok |-> counter' <= Threshold]
  /\ UNCHANGED <<instant, lastFailure>>

RunAt ==
  /\ IF Elapsed > 0
       THEN counter' = Leaked /\ last_check' = instant /\ recent' = 0
       ELSE UNCHANGED <<counter, last_check, recent>>
  /\ verdict' = [at |-> instant, ok |-> counter' < Threshold]
  /\ UNCHANGED <<instant, lastFailure>>

Pass ==
  /\ instant < MaxInstant
  /\ instant' = instant + 1
  /\ UNCHANGED <<counter, last_check, verdict, lastFailure, recent>>

RateNext == Increment \/ RunAt \/ Pass

RateSpec == RateInit /\ [][RateNext]_rateVars

-----------------------------------------------------------------------------
\* A burst is never overlooked: once Threshold failures have been recorded since
\* the bucket was last drained, every check fails until it is drained again, also
\* when the counter sits at its maximum (FailureRateHandle::increment, run_at).
BurstReported ==
  [][RunAt /\ verdict'.ok => recent' < Threshold]_rateVars

\* What the code does guarantee about recovery: a check that still fails comes
\* less than 2 * NumberOfPeriods - 1 periods after the latest failure.  run_at
\* moves last_check to now and so forgets the fraction of a period, at most half
\* of the time since the last drain.
RecoversWithinTwice ==
  ~verdict.ok => verdict.at - lastFailure < (2 * NumberOfPeriods - 1) * Period
================================================================================
