---------------------------- MODULE MCAccountStore ----------------------------
(* Instances of AccountStore for TLC. *)
EXTENDS AccountStore, TLC

CONSTANTS server_proc, cli_proc, c1, c3, a1, a2

\* One call of the server and one CLI command.
OneEach == c1 :> server_proc @@ c3 :> cli_proc

\* Bounds: an account that logs in and is refreshed once, or logs in twice; and
\* one that only other hosts log in to.
TwoAndOne == a1 :> 2 @@ a2 :> 1

\* Bounds: the server only takes tokens, the other process does everything; the
\* second account reaches the file by imports.  A token that the server asks for
\* again was refused or has expired, not both.  At most one grant is lost, revoked
\* or outdated, or one request is on its way without its client.
Failures == Cardinality(UNION {{<<a, r>> : r \in spoiled[a] \cup late[a]} : a \in Accounts})
Bounds ==
    /\ \A c \in Callers : target[c] = a1
    /\ op[c1] = "token"
    /\ imported[c3] # Empty => imported[c3][a2] # Absent
    /\ issued[a1] > 0 => issued[a2] > 0
    /\ spoiled[a2] \cup expired[a2] = {}
    /\ rejected[c1] > 0 => expired[a1] = {}
    /\ Failures <= 1
=============================================================================
