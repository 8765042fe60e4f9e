------------------------------- MODULE Failover -------------------------------
(***************************************************************************)
(* The HTTP turns of one provider: each selects an account through the     *)
(* session bindings, executes on it, and after a confirmed quota rejection *)
(* before any response byte tries the accounts it has not tried yet        *)
(* (quotaFailover of Codex and ChatGPT, the loop of Claude's handler).     *)
(*                                                                         *)
(* `exhausted' are the accounts in a local cooldown; `unusable' those that *)
(* are disabled, removed, out of quota or without the model.               *)
(***************************************************************************)
EXTENDS SessionBindings

VARIABLES
    pc,         \* what each turn does
    attempts,   \* the accounts a turn was executed on, in order
    outcome,    \* what the client received
    checked,    \* the accounts a running selection found usable
    exhausted, unusable,
    lost        \* history: keys whose bound account became exhausted or
                \* unusable since it was bound

turns == <<pc, attempts, outcome>>
pool == <<exhausted, unusable>>
vars == <<bindings, turns, checked, pool, lost>>

Running == {"selecting", "picking", "executing"}
Tried(t) == {attempts[t][i] : i \in 1..Len(attempts[t])}

TypeOK ==
    /\ BindingsTypeOK
    /\ pc \in [Turns -> {"idle", "streaming", "done"} \cup Running]
    /\ attempts \in [Turns -> Seq(Accounts)]
    /\ outcome \in [Turns -> {"none", "served", "rejected", "failed", "refused"}]
    /\ checked \in [Turns -> SUBSET Accounts]
    /\ exhausted \subseteq Accounts /\ unusable \subseteq Accounts
    /\ lost \subseteq Keys

Init ==
    /\ BindingsInit
    /\ pc = [t \in Turns |-> "idle"]
    /\ attempts = [t \in Turns |-> <<>>]
    /\ outcome = [t \in Turns |-> "none"]
    /\ checked = [t \in Turns |-> {}]
    /\ exhausted = {} /\ unusable = {}
    /\ lost = {}

\* Every step: a binding is lost when its account leaves the pool.
Track ==
    lost' = {k \in Keys :
        /\ memory'[k] # Nothing
        /\ \/ memory'[k] \in exhausted' \cup unusable'
           \/ memory'[k] = memory[k] /\ k \in lost}

Goto(t, label) == pc' = [pc EXCEPT ![t] = label]
Answer(t, result) ==
    /\ Goto(t, "done")
    /\ outcome' = [outcome EXCEPT ![t] = result]

-----------------------------------------------------------------------------
(* Selection *)

Start(t) ==
    /\ pc[t] = "idle"
    /\ Select(t)
    /\ Goto(t, "selecting")
    /\ UNCHANGED <<attempts, outcome, checked, pool>>
    /\ Track

ReadBinding(t) ==
    /\ Read(t)
    /\ UNCHANGED <<turns, checked, pool>>
    /\ Track

\* Bug: pick() forgets the accounts this turn was rejected on.
BugUsable(t) == Accounts \ (exhausted \cup unusable)

\* Bug: the bound account needs no check.
BugBound(t) == (Accounts \ (exhausted \cup unusable \cup Tried(t))) \cup {preferred[t]}

\* The accounts that pass the checks of pick().
Usable(t) == Accounts \ (exhausted \cup unusable \cup Tried(t))

\* pick() reads the accounts and their cooldowns; usage and models follow.
Check(t) ==
    /\ pc[t] = "selecting" /\ stage[t] = "choosing"
    /\ checked' = [checked EXCEPT ![t] = Usable(t)]
    /\ Goto(t, "picking")
    /\ UNCHANGED <<bindings, attempts, outcome, pool>>
    /\ Track

\* Bug: the bound account is one of the usable ones.
BugPreferred(t, a) == TRUE

\* The bound account is preferred while it is usable.
Preferred(t, a) == preferred[t] \in checked[t] => a = preferred[t]

\* pick() answers the bound account if it is usable, else any usable one;
\* the pool may have changed since the check.
Pick(t, a) ==
    /\ pc[t] = "picking" /\ stage[t] = "choosing"
    /\ a \in checked[t]
    /\ Preferred(t, a)
    /\ Chosen(t, a)
    /\ UNCHANGED <<turns, checked, pool>>
    /\ Track

Save(t) ==
    /\ Written(t) \/ WriteFails(t)
    /\ UNCHANGED <<turns, checked, pool>>
    /\ Track

\* No account, the bound one cannot be verified, or the record is unreadable:
\* an error of the proxy, or the rejection that led to this selection.
NoAccount(t) ==
    /\ \/ pc[t] = "selecting" /\ ReadFails(t)
       \/ pc[t] = "picking" /\ NotChosen(t)
    /\ Answer(t, IF attempts[t] = <<>> THEN "refused" ELSE "rejected")
    /\ checked' = [checked EXCEPT ![t] = {}]
    /\ UNCHANGED <<attempts, pool>>
    /\ Track

Execute(t) ==
    /\ pc[t] = "picking" /\ stage[t] = "out" /\ selected[t] # Nothing
    /\ attempts' = [attempts EXCEPT ![t] = Append(@, selected[t])]
    /\ checked' = [checked EXCEPT ![t] = {}]
    /\ Goto(t, "executing")
    /\ UNCHANGED <<bindings, outcome, pool>>
    /\ Track

-----------------------------------------------------------------------------
(* The upstream's answer *)

Account(t) == attempts[t][Len(attempts[t])]

\* The response is not a quota rejection: its bytes go to the client.
Accepted(t) ==
    /\ pc[t] = "executing"
    /\ Goto(t, "streaming")
    /\ outcome' = [outcome EXCEPT ![t] = "served"]
    /\ UNCHANGED <<bindings, attempts, checked, pool>>
    /\ Track

\* A network error, a timeout, or the client left.
ExecuteFails(t) ==
    /\ pc[t] = "executing"
    /\ Answer(t, "failed")
    /\ UNCHANGED <<bindings, attempts, checked, pool>>
    /\ Track

Limit(a) == exhausted' = exhausted \cup {a} /\ UNCHANGED unusable

\* A confirmed quota rejection of a self-contained request: try another one.
RejectedRetry(t) ==
    /\ pc[t] = "executing"
    /\ Limit(Account(t))
    /\ Select(t)
    /\ Goto(t, "selecting")
    /\ UNCHANGED <<attempts, outcome, checked>>
    /\ Track

\* The request needs its previous response, or x-should-retry forbids it.
RejectedFinally(t) ==
    /\ pc[t] = "executing"
    /\ Limit(Account(t))
    /\ Answer(t, "rejected")
    /\ UNCHANGED <<bindings, attempts, checked>>
    /\ Track

\* A quota event after the first byte: observed, never replayed.
LateLimit(t) ==
    /\ pc[t] = "streaming"
    /\ Account(t) \notin exhausted
    /\ Limit(Account(t))
    /\ UNCHANGED <<bindings, turns, checked>>
    /\ Track

StreamEnds(t) ==
    /\ pc[t] = "streaming"
    /\ Goto(t, "done")
    /\ UNCHANGED <<bindings, attempts, outcome, checked, pool>>
    /\ Track

-----------------------------------------------------------------------------
(* The pool and the server *)

CooldownEnds(a) ==
    /\ a \in exhausted
    /\ exhausted' = exhausted \ {a}
    /\ UNCHANGED <<bindings, turns, checked, unusable>>
    /\ Track

\* Disabled, removed, out of quota, a model withdrawn; or the reverse.
PoolChanges(a) ==
    /\ unusable' = IF a \in unusable THEN unusable \ {a} ELSE unusable \cup {a}
    /\ UNCHANGED <<bindings, turns, checked, exhausted>>
    /\ Track

\* The server restarts; its turns end with their connections.
Crash ==
    /\ \E t \in Turns : pc[t] # "idle"
    /\ Restart
    /\ pc' = [t \in Turns |-> IF pc[t] = "idle" THEN "idle" ELSE "done"]
    /\ checked' = [t \in Turns |-> {}]
    /\ exhausted' = {}
    /\ UNCHANGED <<attempts, outcome, unusable>>
    /\ Track

Step(t) ==
    \/ ReadBinding(t) \/ Check(t) \/ Save(t) \/ NoAccount(t) \/ Execute(t)
    \/ \E a \in Accounts : Pick(t, a)
    \/ Accepted(t) \/ ExecuteFails(t) \/ RejectedRetry(t) \/ RejectedFinally(t)

Next ==
    \/ \E t \in Turns : Start(t) \/ Step(t) \/ LateLimit(t) \/ StreamEnds(t)
    \/ \E a \in Accounts : CooldownEnds(a) \/ PoolChanges(a)
    \/ Crash

Spec == Init /\ [][Next]_vars

\* File and network operations end: the upstream request has a deadline of
\* ten minutes, the others shorter ones.  The end of a stream is the client's.
FairSpec == Spec /\ \A t \in Turns : WF_vars(Step(t))

-----------------------------------------------------------------------------
(* Properties *)

\* A session keeps its account: a selection moves the binding only if the
\* bound account was exhausted, disabled, removed or lost the model since it
\* was bound, or rejected the selecting turn itself.  Concurrent first turns
\* agree on one account.
BindingKept ==
    [][\A k \in Keys :
        (memory[k] # Nothing /\ memory'[k] \notin {Nothing, memory[k]}) =>
            \/ k \in lost
            \/ \E t \in Turns : KeyOf[t] = k /\ stage[t] = "choosing" /\ memory[k] \in Tried(t)]_vars

\* Each account is tried at most once for a turn, although its cooldown may
\* end while the turn runs.
TriedOnce ==
    \A t \in Turns : \A i, j \in 1..Len(attempts[t]) :
        attempts[t][i] = attempts[t][j] => i = j

\* Every turn gets an answer: failovers end, and no selection waits forever
\* behind another one of its session.
TurnsAnswered ==
    \A t \in Turns : pc[t] \in Running ~> pc[t] \notin Running
=============================================================================
