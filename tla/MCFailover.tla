------------------------------ MODULE MCFailover ------------------------------
(* Instances of Failover for TLC. *)
EXTENDS Failover, TLC

CONSTANTS onlyKey

\* All turns belong to one session and model.
OneSession == [t \in Turns |-> onlyKey]

=============================================================================
