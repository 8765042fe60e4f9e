----------------------------- MODULE MCUsageCache -----------------------------
(* Instances of UsageCache for TLC. *)
EXTENDS UsageCache, TLC

\* Calls are interchangeable.
Symmetry == Permutations(Calls)
=============================================================================
