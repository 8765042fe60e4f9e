---------------------------- MODULE MCHistoryStore ----------------------------
(* Instances of HistoryStore for TLC. *)
EXTENDS HistoryStore, TLC

CONSTANTS k1, k2, r1, r2, r3

\* Two replies to one history, one to another.
Replies == r1 :> k1 @@ r2 :> k1 @@ r3 :> k2

\* Calls are interchangeable, and so are the two replies to one history.
Symmetry == Permutations(Calls) \cup Permutations({r1, r2})

\* Bound: one object is damaged or swept away at a time.
OneLoss == Cardinality(damaged \cup swept) <= 1
=============================================================================
