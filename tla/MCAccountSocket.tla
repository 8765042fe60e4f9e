---------------------------- MODULE MCAccountSocket ----------------------------
(* Instances of AccountSocket for TLC. *)
EXTENDS AccountSocket, TLC

CONSTANTS a, s1, s2, s3

\* A stream that is reused, a create and another frame without stream_id.
Reused == 1 :> s1 @@ 2 :> Untagged @@ 3 :> s1 @@ 4 :> Untagged
\* Every frame on a stream of its own.
Distinct == 1 :> s1 @@ 2 :> s2 @@ 3 :> s3
\* No frame has a stream_id.
Unmarked == 1 :> Untagged @@ 2 :> Untagged @@ 3 :> Untagged

\* The accounts are interchangeable: nothing is lost when the first connection
\* is one of account a.
InitFromA == Init /\ account = a
FairSpecFromA ==
    InitFromA /\ [][Next]_vars /\ WF_vars(Job) /\ WF_vars(Closed)
=============================================================================
