---------------------------- MODULE HeartbeatLease ----------------------------
(***************************************************************************)
(* What the heartbeat column promises to the replicas of the importer      *)
(* server: a lease on an importer.  It is granted when there is none or    *)
(* when its holder has not renewed it for 2 * Rate; only its holder renews *)
(* it; deleting the importer ends it.  Heartbeat implements this           *)
(* specification.                                                          *)
(***************************************************************************)
EXTENDS Integers

CONSTANTS Runs, Rate, Nobody

VARIABLES
  now,        \* the clock
  holder,     \* who has the lease, or Nobody
  renewed     \* when it was renewed last, or 0

vars == <<now, holder, renewed>>

Init == now = 0 /\ holder = Nobody /\ renewed = 0

Grant(r) ==
  /\ holder = Nobody \/ now - renewed >= 2 * Rate
  /\ holder' = r
  /\ renewed' \in 0 .. now
  /\ UNCHANGED now

\* The time of a renewal was taken some time before it takes effect.
Renew(r) ==
  /\ holder = r
  /\ renewed' \in renewed .. now
  /\ UNCHANGED <<now, holder>>

End ==
  /\ holder' = Nobody
  /\ renewed' = 0
  /\ UNCHANGED now

Tick ==
  /\ now' = now + 1
  /\ UNCHANGED <<holder, renewed>>

Next ==
  \/ \E r \in Runs : Grant(r) \/ Renew(r)
  \/ End
  \/ Tick

Spec == Init /\ [][Next]_vars
================================================================================
