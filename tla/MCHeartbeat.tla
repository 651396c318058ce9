------------------------------ MODULE MCHeartbeat ------------------------------
EXTENDS Heartbeat, TLC

Symmetry == Permutations(Runs)
================================================================================
