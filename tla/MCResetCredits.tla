----------------------------- MODULE MCResetCredits -----------------------------
(* Instances of ResetCredits for TLC. *)
EXTENDS ResetCredits, TLC

Symmetry == Permutations(Tabs) \cup Permutations(Credits)
=============================================================================
