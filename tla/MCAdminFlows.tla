----------------------------- MODULE MCAdminFlows -----------------------------
(* An instance of AdminFlows for TLC. *)
EXTENDS AdminFlows
=============================================================================
