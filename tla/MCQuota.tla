-------------------------------- MODULE MCQuota --------------------------------
(* Instances of Quota for TLC. *)
EXTENDS Quota, TLC

Symmetry == Permutations(Serving)

\* The accounts that another window than the request's holds up.
HeldUp ==
    {a \in Accounts : \E w \in Foreign : spent[a][w] # 0 \/ w \in Blamed(a)}

\* Bounds: one cooldown for each account, and two unavailable windows of which
\* one binds the request; one account is disabled or held up otherwise.  While
\* it is, the other one is observed and not cooling down.
Few ==
    /\ \A a \in Accounts :
        /\ \A w \in Windows : spent[a][w] # Locked
        /\ \A v, w \in Binding : v = w \/ spent[a][v] = 0 \/ spent[a][w] = 0
        /\ ~Cooling(a, "model") \/ ~Cooling(a, "account")
        /\ usage[a] # Nothing => models[a] # (IF usage[a].current THEN "expired" ELSE "current")
    /\ Cardinality(disabled) + Cardinality(HeldUp) <= 1
    /\ LET held == disabled \cup HeldUp
       IN  held # {} =>
                \A a \in Accounts :
                    /\ usage[a] # Nothing => usage[a].current
                    /\ models[a] # "none"
                    /\ a \notin held => usage[a] # Nothing /\ \A s \in Scopes : ~Cooling(a, s)
=============================================================================
