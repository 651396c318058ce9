--------------------------- MODULE MCImporterServer ---------------------------
(***************************************************************************)
(* Instances of ImporterServer.  Replicas are interchangeable, and so are  *)
(* heartbeats: they are only compared for equality, and of those nobody    *)
(* knows it does not matter which one a beat takes.                        *)
(***************************************************************************)
EXTENDS ImporterServer, TLC

Symmetry == Permutations(Replicas) \cup Permutations(Beats)
================================================================================
