--------------------------------- MODULE Quota ---------------------------------
(***************************************************************************)
(* What the proxy knows of the quota of a pool of Claude accounts, and the *)
(* reset it advertises when no account can serve a model:                  *)
(* poolQuotaReset() combines usage and model lists that are still cached   *)
(* with those that a rejection saved in its cooldown.                      *)
(*                                                                         *)
(* One model is asked for.  A window is "exhausted until" a time, Locked   *)
(* (a locked_reason, or no number), or free (0).  Quota is only spent: a   *)
(* window ends its exhaustion when its time has come, and until then the   *)
(* time can only be put off.  The providers' clocks are the same.          *)
(***************************************************************************)
EXTENDS Integers, FiniteSets

CONSTANTS
    Accounts,
    Serving,        \* the accounts that have the model
    Shared,         \* the windows of a whole account that bind every request
    Session,        \* the windows of a whole account that a "slow" request crosses
    ModelWindows,   \* the windows of the model
    Foreign,        \* the windows of other models and the budget of slow requests
    MaxTime,        \* bound: the last instant
    Nothing

ASSUME ServingAssumption == Serving \subseteq Accounts
ASSUME TimesAssumption == MaxTime \in Nat /\ Nothing \notin Int

Binding == Shared \cup Session \cup ModelWindows
Windows == Binding \cup Foreign
Locked == MaxTime + 1
Scopes == {"account", "model"}

VARIABLES
    now,
    spent,      \* the upstream: until when each window is exhausted
    usage,      \* usageCache: the windows seen, and whether they are current
    models,     \* modelsCache: "none", "current" or "expired"
    cooldown,   \* cooldown and modelCooldown: the reset, the usage and the models
                \* that the rejection left, and (history) the windows that the
                \* reset is about
    disabled

vars == <<now, spent, usage, models, cooldown, disabled>>

Seen == [Binding -> 0..Locked]
MaybeSeen == Seen \cup {Nothing}
CacheEntry == [current : BOOLEAN, seen : Seen]
Cooldown == [reset : (1..MaxTime) \cup {Nothing}, named : SUBSET Windows,
             seen : MaybeSeen, models : BOOLEAN]

TypeOK ==
    /\ now \in 0..MaxTime
    /\ spent \in [Accounts -> [Windows -> 0..Locked]]
    /\ usage \in [Accounts -> CacheEntry \cup {Nothing}]
    /\ models \in [Accounts -> {"none", "current", "expired"}]
    /\ cooldown \in [Accounts -> [Scopes -> Cooldown \cup {Nothing}]]
    /\ disabled \subseteq Accounts

Init ==
    /\ now = 0
    /\ spent \in [Accounts -> [Windows -> {0}]]
    /\ usage = [a \in Accounts |-> Nothing]
    /\ models = [a \in Accounts |-> "none"]
    /\ cooldown = [a \in Accounts |-> [s \in Scopes |-> Nothing]]
    /\ disabled = {}

-----------------------------------------------------------------------------
(* quota.ts *)

\* quotaWindows(): the windows that bind a request of a mode.
QuotaWindows(mode) ==
    CASE mode = "extended" -> {}
      [] mode = "slow" -> Shared \cup ModelWindows
      [] OTHER -> Binding

HasQuota(seen, mode) == \A w \in QuotaWindows(mode) : seen[w] = 0

\* The latest of some instants, all of which must be known and in the future.
Latest(times) ==
    LET last == {t \in times : \A u \in times : u <= t}
    IN  IF times \subseteq (now + 1)..MaxTime /\ last # {}
        THEN CHOOSE t \in last : TRUE ELSE Nothing

\* quotaReset(): unknown if one of the exhausted windows is.
QuotaReset(seen, mode) == Latest({seen[w] : w \in {v \in QuotaWindows(mode) : seen[v] # 0}})

-----------------------------------------------------------------------------
(* accounts.ts *)

Cooling(a, s) == cooldown[a][s] # Nothing
Cooldowns(a) == {cooldown[a][s] : s \in {x \in Scopes : Cooling(a, x)}}

\* The model list in the cache, or the one a cooldown kept.
CatalogKnown(a) == models[a] = "current" \/ \E c \in Cooldowns(a) : c.models

\* The usage in the cache, or that of the first cooldown that kept one.
Observed(a) ==
    IF usage[a] # Nothing /\ usage[a].current THEN usage[a].seen
    ELSE IF Cooling(a, "account") /\ cooldown[a]["account"].seen # Nothing
    THEN cooldown[a]["account"].seen
    ELSE IF Cooling(a, "model") THEN cooldown[a]["model"].seen
    ELSE Nothing

\* When an account may serve the model again; Nothing if it is unknown, or
\* can serve it now.
AccountReset(a, mode) ==
    LET seen == Observed(a)
        resets == {c.reset : c \in Cooldowns(a)}
        own == IF HasQuota(seen, mode) THEN {} ELSE {QuotaReset(seen, mode)}
    IN  IF seen = Nothing THEN Nothing ELSE Latest(resets \cup own)

Enabled == Accounts \ disabled

\* Bug: an account without a known reset is left out of the estimate.
BugBlocking(a, mode) == ~CatalogKnown(a)

\* An account that may serve the model at any time, for all that is known.
Blocking(a, mode) ==
    \/ ~CatalogKnown(a)
    \/ a \in Serving /\ AccountReset(a, mode) = Nothing

\* poolQuotaReset(): the earliest reset, if every account's is known.
PoolQuotaReset(mode) ==
    LET resets == {AccountReset(a, mode) : a \in Serving \cap Enabled} \ {Nothing}
        earliest == {t \in resets : \A u \in resets : t <= u}
    IN  IF (\E a \in Enabled : Blocking(a, mode)) \/ earliest = {} THEN Nothing
        ELSE CHOOSE t \in earliest : TRUE

\* usage(): cached, or asked from the upstream; the dashboard may force it.
Usage(a) ==
    /\ a \notin disabled
    /\ usage' = [usage EXCEPT ![a] = [current |-> TRUE, seen |-> [w \in Binding |-> spent[a][w]]]]
    /\ UNCHANGED <<now, spent, models, cooldown, disabled>>

\* models(), through selection or the catalog.
Models(a) ==
    /\ a \notin disabled /\ models[a] # "current"
    /\ models' = [models EXCEPT ![a] = "current"]
    /\ UNCHANGED <<now, spent, usage, cooldown, disabled>>

\* exhaustedQuota(): a rejection counts for the whole account by an exhausted
\* window of the account, of other models or of the slow mode, and for the
\* model only by one of the model's.
Rejects(a, s) ==
    \E w \in (IF s = "model" THEN ModelWindows ELSE Windows \ ModelWindows) : spent[a][w] > now

\* responseQuotaReset(): the later one of the two resets that the headers may
\* carry; there may be none, and they may be about other windows than those
\* that bind the request.
ResponseQuotaReset(a, named) == Latest({spent[a][w] : w \in named})

\* limited(): the upstream rejected a request.
Limited(a, s) ==
    /\ Rejects(a, s)
    /\ \E named \in SUBSET {w \in Windows : spent[a][w] \in (now + 1)..MaxTime} :
           cooldown' = [cooldown EXCEPT ![a][s] =
               [reset |-> ResponseQuotaReset(a, named), named |-> named,
                seen |-> IF usage[a] = Nothing THEN Nothing ELSE usage[a].seen,
                models |-> models[a] # "none"]]
    /\ usage' = [usage EXCEPT ![a] = Nothing]
    /\ UNCHANGED <<now, spent, models, disabled>>

\* add(): a new login of the account.
Relogin(a) ==
    /\ disabled' = disabled \ {a}
    /\ usage' = [usage EXCEPT ![a] = Nothing]
    /\ models' = [models EXCEPT ![a] = "none"]
    /\ cooldown' = [cooldown EXCEPT ![a] = [s \in Scopes |-> Nothing]]
    /\ UNCHANGED <<now, spent>>

\* Five minutes after a usage or a model list was cached.
UsageExpires(a) ==
    /\ usage[a] # Nothing /\ usage[a].current
    /\ usage' = [usage EXCEPT ![a].current = FALSE]
    /\ UNCHANGED <<now, spent, models, cooldown, disabled>>

ModelsExpire(a) ==
    /\ models[a] = "current"
    /\ models' = [models EXCEPT ![a] = "expired"]
    /\ UNCHANGED <<now, spent, usage, cooldown, disabled>>

\* The end that retryAt() gave a cooldown, which may be before the reset.
CooldownEnds(a, s) ==
    /\ Cooling(a, s)
    /\ cooldown' = [cooldown EXCEPT ![a][s] = Nothing]
    /\ UNCHANGED <<now, spent, usage, models, disabled>>

\* token(): invalid_grant.
Disable(a) ==
    /\ disabled' = disabled \cup {a}
    /\ UNCHANGED <<now, spent, usage, models, cooldown>>

-----------------------------------------------------------------------------
\* A window of an account is exhausted, or its reset is put off.
Spend(a, w, until) ==
    /\ until > now /\ until > spent[a][w]
    /\ spent' = [spent EXCEPT ![a][w] = until]
    /\ UNCHANGED <<now, usage, models, cooldown, disabled>>

\* Windows whose time has come are free.
Tick ==
    /\ now < MaxTime
    /\ now' = now + 1
    /\ spent' = [a \in Accounts |-> [w \in Windows |->
                    IF spent[a][w] <= now' THEN 0 ELSE spent[a][w]]]
    /\ UNCHANGED <<usage, models, cooldown, disabled>>

Next ==
    \/ \E a \in Accounts : Usage(a) \/ Models(a) \/ Relogin(a) \/ Disable(a)
    \/ \E a \in Accounts : UsageExpires(a) \/ ModelsExpire(a)
    \/ \E a \in Accounts, s \in Scopes : Limited(a, s) \/ CooldownEnds(a, s)
    \/ \E a \in Accounts, w \in Windows, t \in 1..Locked : Spend(a, w, t)
    \/ Tick

Spec == Init /\ [][Next]_vars

-----------------------------------------------------------------------------
\* The windows that the resets of an account's rejections are about.
Blamed(a) == UNION {c.named : c \in Cooldowns(a)}

\* The advertised reset is never later than the upstream's: until then every
\* account of the pool that has the model is held up by an exhausted window,
\* although usage, models and cooldowns were observed at different times.  The
\* window binds the request or is one that the upstream named in a rejection
\* that still counts: the reset of a rejection is kept for the whole account
\* even when it was the slow mode's budget or another model's window.
NeverLate ==
    \A mode \in {"", "slow", "extended"} :
        LET at == PoolQuotaReset(mode)
        IN  at # Nothing =>
                \A a \in Serving \cap Enabled :
                    \E w \in QuotaWindows(mode) \cup Blamed(a) : spent[a][w] >= at
=============================================================================
