--------------------------- MODULE MCUpdateManager ---------------------------
(* Instances of UpdateManager for TLC. *)
EXTENDS UpdateManager, TLC

\* downloads are interchangeable
DownloadSymmetry == Permutations(Downloads)
===============================================================================
