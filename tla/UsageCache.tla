------------------------------ MODULE UsageCache ------------------------------
(***************************************************************************)
(* The cached usage of one account, its cooldown, and the calls that use   *)
(* them: selections (pick) and forced reads (status, /codex/usage).        *)
(* Claude caches the promise of a request, with a lifetime counted from    *)
(* its start; Codex caches the value when it arrives.                      *)
(*                                                                         *)
(* The environment is the upstream (`allowed': would it admit a request?)  *)
(* and the clock, which counts coarse ticks.                               *)
(***************************************************************************)
EXTENDS Naturals

CONSTANTS
    Calls,          \* concurrent readers of the usage
    Providers,      \* of "claude" and "codex", the ones to consider
    TTL,            \* ticks a cached usage is used
    Deadline,       \* ticks from the upstream's answer to its arrival, at most
    Wait,           \* ticks from the usage to a call's decision, at most: for
                    \* the models and for the usage of the other accounts
    MaxCooldown,    \* bound: ticks of a cooldown
    Nobody

ASSUME ProvidersKnown == Providers \subseteq {"claude", "codex"}
ASSUME TicksAreNat == TTL \in Nat \ {0} /\ Deadline \in Nat /\ Wait \in Nat
ASSUME CooldownIsNat == MaxCooldown \in Nat \ {0}
ASSUME NobodyOutside == Nobody \notin Calls

VARIABLES
    provider,   \* the account's provider
    allowed,    \* upstream: it admits requests
    steady,     \* history: ticks since `allowed' changed, at most Long
    rejecting,  \* upstream: a confirmed rejection is on its way
    resetting,  \* upstream: a reset was redeemed and its answer is on its way
    cooling,    \* ticks left in limitedUntil / cooldown
    cache,      \* the usageCache entry
    pc, from,   \* what each call does, whose request it awaits
    answer, age,    \* of a call's own request: the upstream's answer, its age
    verdict,    \* what each call learned
    waited,     \* ticks since it learned that
    old,        \* history: events confirmed since a request was answered
    used,       \* history: `old' of the observation a call decides on
    excused     \* history: events that happened while a call was running

upstream == <<allowed, steady, rejecting, resetting>>
readers == <<pc, from, answer, age, verdict, waited, used>>
usageVars == <<provider, upstream, cooling, cache, readers, old, excused>>

Long == TTL + Deadline + Wait
Events == {"limit", "reset"}
NoEntry == [by |-> Nobody, value |-> "none", left |-> 0, old |-> {}]
Entries == [by : Calls \cup {Nobody}, value : {"none", "pending", "allowed", "denied"},
            left : 0..TTL, old : SUBSET Events]

UsageTypeOK ==
    /\ provider \in Providers
    /\ allowed \in BOOLEAN /\ rejecting \in BOOLEAN /\ resetting \in BOOLEAN
    /\ steady \in 0..Long
    /\ cooling \in 0..MaxCooldown
    /\ cache \in Entries
    /\ pc \in [Calls -> {"idle", "waiting", "known"}]
    /\ from \in [Calls -> Calls]
    /\ answer \in [Calls -> {"none", "sent", "allowed", "denied"}]
    /\ age \in [Calls -> 0..Deadline]
    /\ verdict \in [Calls -> {"none", "allowed", "denied", "failed"}]
    /\ waited \in [Calls -> 0..Wait]
    /\ old \in [Calls -> SUBSET Events]
    /\ used \in [Calls -> SUBSET Events]
    /\ excused \in [Calls -> SUBSET Events]

UsageInit ==
    /\ provider \in Providers
    /\ allowed \in BOOLEAN /\ steady = Long
    /\ rejecting = FALSE /\ resetting = FALSE
    /\ cooling = 0
    /\ cache = NoEntry
    /\ pc = [c \in Calls |-> "idle"]
    /\ from = [c \in Calls |-> c]
    /\ answer = [c \in Calls |-> "none"]
    /\ age = [c \in Calls |-> 0]
    /\ verdict = [c \in Calls |-> "none"]
    /\ waited = [c \in Calls |-> 0]
    /\ old = [c \in Calls |-> {}]
    /\ used = [c \in Calls |-> {}]
    /\ excused = [c \in Calls |-> {}]

-----------------------------------------------------------------------------
(* Reading the usage *)

Usable == cache.left > 0
Known(value) == value \in {"allowed", "denied"}

\* A call that begins before a reset is confirmed need not know of it.
Excuse(c) == excused' = [excused EXCEPT ![c] = IF resetting THEN {"reset"} ELSE {}]

\* Bug: a cached usage that is read lives on.
BugCached(c) ==
    /\ pc[c] = "idle"
    /\ Usable /\ Known(cache.value)
    /\ cache' = [cache EXCEPT !.left = TTL]
    /\ pc' = [pc EXCEPT ![c] = "known"]
    /\ verdict' = [verdict EXCEPT ![c] = cache.value]
    /\ used' = [used EXCEPT ![c] = cache.old]
    /\ Excuse(c)
    /\ UNCHANGED <<provider, upstream, cooling, from, answer, age, waited, old>>

\* usage(): the cached usage is used.
Cached(c) ==
    /\ pc[c] = "idle"
    /\ Usable /\ Known(cache.value)
    /\ pc' = [pc EXCEPT ![c] = "known"]
    /\ verdict' = [verdict EXCEPT ![c] = cache.value]
    /\ used' = [used EXCEPT ![c] = cache.old]
    /\ Excuse(c)
    /\ UNCHANGED <<provider, upstream, cooling, cache, from, answer, age, waited, old>>

\* Claude: the request of another call is still running.
Joins(c) ==
    /\ pc[c] = "idle"
    /\ Usable /\ cache.value = "pending"
    /\ pc' = [pc EXCEPT ![c] = "waiting"]
    /\ from' = [from EXCEPT ![c] = cache.by]
    /\ Excuse(c)
    /\ UNCHANGED <<provider, upstream, cooling, cache, answer, age, verdict, waited, used, old>>

\* usage(): a new request; Claude caches its promise at once.
Request(c) ==
    /\ pc[c] = "idle"
    /\ pc' = [pc EXCEPT ![c] = "waiting"]
    /\ answer' = [answer EXCEPT ![c] = "sent"]
    /\ cache' = IF provider = "claude"
                THEN [by |-> c, value |-> "pending", left |-> TTL, old |-> {}]
                ELSE cache
    /\ Excuse(c)
    /\ UNCHANGED <<provider, upstream, cooling, from, age, verdict, waited, used, old>>

ReadUsage(c) == Cached(c) \/ Joins(c) \/ (~Usable /\ Request(c))

\* pick() skips an account in its cooldown; the lists of accounts and the
\* dashboard read the usage of every account.
Pick(c) == cooling = 0 /\ ReadUsage(c)
Status(c) == ReadUsage(c)

\* status(true) and GET /codex/usage ask in any case.
ForcedRead(c) == Request(c)

\* The upstream reads its books.
Observe(c) ==
    /\ answer[c] = "sent"
    /\ answer' = [answer EXCEPT ![c] = IF allowed THEN "allowed" ELSE "denied"]
    /\ UNCHANGED <<provider, upstream, cooling, cache, pc, from, age, verdict, waited, used, old, excused>>

Awaiting(c) == {d \in Calls : pc[d] = "waiting" /\ from[d] = c}

\* Everyone who awaits the request of c goes on.
Settle(c, result) ==
    /\ pc' = [d \in Calls |-> IF d \in Awaiting(c) THEN "known" ELSE pc[d]]
    /\ from' = [d \in Calls |-> IF d \in Awaiting(c) THEN d ELSE from[d]]
    /\ verdict' = [d \in Calls |-> IF d \in Awaiting(c) THEN result ELSE verdict[d]]
    /\ used' = [d \in Calls |-> IF d \in Awaiting(c) THEN old[c] ELSE used[d]]
    /\ answer' = [answer EXCEPT ![c] = "none"]
    /\ age' = [age EXCEPT ![c] = 0]
    /\ old' = [old EXCEPT ![c] = {}]

Owned(c) == cache.by = c /\ cache.value = "pending"

Arrives(c) ==
    /\ Known(answer[c])
    /\ Settle(c, answer[c])
    /\ cache' = IF provider = "codex"
                THEN [by |-> Nobody, value |-> answer[c], left |-> TTL, old |-> old[c]]
                ELSE IF Owned(c)
                THEN [cache EXCEPT !.by = Nobody, !.value = answer[c], !.old = old[c]]
                ELSE cache
    /\ UNCHANGED <<provider, upstream, cooling, waited, excused>>

\* Bug: Claude's cache keeps the rejected promise.
BugEvicted(c) == cache

\* A rejected promise leaves the cache, unless another entry took its place.
Evicted(c) == IF Owned(c) THEN NoEntry ELSE cache

\* An error, a timeout or an answer that does not parse.
Fails(c) ==
    /\ answer[c] # "none"
    /\ Settle(c, "failed")
    /\ cache' = Evicted(c)
    /\ UNCHANGED <<provider, upstream, cooling, waited, excused>>

\* pick() has the models too, and what it needs of the other accounts; the
\* lists of accounts and the dashboard wait for every account likewise.
Decide(c) ==
    /\ pc[c] = "known"
    /\ pc' = [pc EXCEPT ![c] = "idle"]
    /\ verdict' = [verdict EXCEPT ![c] = "none"]
    /\ waited' = [waited EXCEPT ![c] = 0]
    /\ used' = [used EXCEPT ![c] = {}]
    /\ excused' = [excused EXCEPT ![c] = {}]
    /\ UNCHANGED <<provider, upstream, cooling, cache, from, answer, age, old>>

-----------------------------------------------------------------------------
(* Limits, resets and the upstream *)

\* The answers and running calls that event e finds.
Overtaken(e) ==
    /\ old' = [c \in Calls |-> old[c] \cup (IF Known(answer[c]) THEN {e} ELSE {})]
    /\ excused' = [c \in Calls |-> excused[c] \cup (IF pc[c] = "waiting" THEN {e} ELSE {})]

\* A request is executed although the quota is used up.
Reject ==
    /\ ~allowed /\ ~rejecting
    /\ rejecting' = TRUE
    /\ UNCHANGED <<provider, allowed, steady, resetting, cooling, cache, readers, old, excused>>

\* Bug: the cached usage survives the rejection.
BugAfterLimit == IF Known(cache.value) THEN [cache EXCEPT !.old = @ \cup {"limit"}] ELSE cache

\* Nothing cached before a rejection is used after it.
AfterLimit == NoEntry

\* limit() / limited() after a confirmed rejection.
Limit ==
    /\ rejecting
    /\ rejecting' = FALSE
    /\ cooling' \in 1..MaxCooldown
    /\ cache' = AfterLimit
    /\ Overtaken("limit")
    /\ UNCHANGED <<provider, allowed, steady, resetting, readers>>

\* Codex: the usage changes with every request, closed connection and redeemed
\* credit, whatever the result.
InvalidateUsage ==
    /\ provider = "codex" /\ cache # NoEntry
    /\ cache' = NoEntry
    /\ UNCHANGED <<provider, upstream, cooling, readers, old, excused>>

\* The upstream redeems a reset credit of a Codex account.
Redeem ==
    /\ provider = "codex" /\ ~resetting
    /\ resetting' = TRUE
    /\ allowed' = TRUE
    /\ steady' = IF allowed THEN steady ELSE 0
    /\ cache' = IF Known(cache.value) THEN [cache EXCEPT !.old = @ \cup {"reset"}] ELSE cache
    /\ Overtaken("reset")
    /\ UNCHANGED <<provider, rejecting, cooling, readers>>

\* consumeReset() receives the code "reset".
ResetConfirmed ==
    /\ resetting
    /\ resetting' = FALSE
    /\ cache' = NoEntry
    /\ cooling' = 0
    /\ UNCHANGED <<provider, allowed, steady, rejecting, readers, old, excused>>

\* add() and remove() forget what was known of the account.
Forgotten ==
    /\ cache' = NoEntry
    /\ cooling' = 0
    /\ UNCHANGED <<provider, upstream, readers, old, excused>>

\* A window is used up or refills.
QuotaChanges ==
    /\ allowed' = ~allowed
    /\ steady' = 0
    /\ UNCHANGED <<provider, rejecting, resetting, cooling, cache, readers, old, excused>>

\* Time passes, while no answer and no decision is overdue.
TimePasses ==
    /\ \A c \in Calls : Known(answer[c]) => age[c] < Deadline
    /\ \A c \in Calls : pc[c] = "known" => waited[c] < Wait
    /\ age' = [c \in Calls |-> IF Known(answer[c]) THEN age[c] + 1 ELSE age[c]]
    /\ waited' = [c \in Calls |-> IF pc[c] = "known" THEN waited[c] + 1 ELSE waited[c]]
    /\ steady' = IF steady < Long THEN steady + 1 ELSE steady
    /\ cooling' = IF cooling = 0 THEN 0 ELSE cooling - 1
    /\ cache' = IF cache.left > 1 THEN [cache EXCEPT !.left = @ - 1] ELSE NoEntry
    /\ UNCHANGED <<provider, allowed, rejecting, resetting, pc, from, answer, verdict, used, old, excused>>

UsageNext ==
    \/ \E c \in Calls :
        \/ Pick(c) \/ Status(c) \/ ForcedRead(c)
        \/ Observe(c) \/ Arrives(c) \/ Fails(c) \/ Decide(c)
    \/ Reject \/ Limit \/ InvalidateUsage \/ Redeem \/ ResetConfirmed
    \/ Forgotten \/ QuotaChanges \/ TimePasses

UsageSpec == UsageInit /\ [][UsageNext]_usageVars

-----------------------------------------------------------------------------
(* Properties *)

\* A call decides on what the upstream said less than TTL + Deadline + Wait
\* ticks ago: no chain of reads and refills keeps an outdated admission alive.
BoundedStaleness ==
    [][\A c \in Calls :
        (pc[c] = "known" /\ pc'[c] # "known" /\ Known(verdict[c])) =>
            \/ verdict[c] = (IF allowed THEN "allowed" ELSE "denied")
            \/ steady < Long]_usageVars

\* "Recheck usage after the reset. Do not assume a previously exhausted window
\* has refilled" (quota.ts): a Claude selection that begins after a confirmed
\* rejection never relies on an observation made before it.
RecheckedAfterLimit ==
    \A c \in Calls :
        (provider = "claude" /\ "limit" \in used[c]) => "limit" \in excused[c]

\* A failed request is never served from the cache: the next selection asks.
FailureNotCached ==
    cache.value = "pending" => answer[cache.by] # "none"

\* "A confirmed reset clears the local exhaustion cooldown; the next request
\* verifies fresh quota" (docs/CODEX.md).
FreshAfterReset ==
    \A c \in Calls :
        ("reset" \in used[c] /\ verdict[c] = "denied") => "reset" \in excused[c]
=============================================================================
