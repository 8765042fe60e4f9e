----------------------------- MODULE Usage_proofs -----------------------------
(***************************************************************************)
(* What the proxy knows of the usage of its accounts.                      *)
(*                                                                         *)
(* Quota: the reset that poolQuotaReset() advertises is never late, for    *)
(* any pool, any windows and any times.  The inductive invariant says that *)
(* whatever the proxy keeps of an account was true once and, since quota   *)
(* is only spent, can only have become too optimistic.                     *)
(*                                                                         *)
(* UsageCache: a cached usage is used for a bounded time, a failure is not *)
(* cached, and a confirmed rejection is never overruled by what was        *)
(* observed before it, for any number of concurrent reads and any times.   *)
(***************************************************************************)
EXTENDS Quota, UsageCache, TLAPS

-----------------------------------------------------------------------------
(* Types *)

LEMMA SpentTyped ==
    ASSUME TypeOK, NEW a \in Accounts, NEW w \in Windows
    PROVE  spent[a][w] \in Int /\ 0 <= spent[a][w] /\ spent[a][w] <= MaxTime + 1 /\ now \in Int /\ now >= 0
<1>1. spent[a] \in [Windows -> 0..(MaxTime + 1)]
  BY DEF TypeOK, Locked
<1>2. spent[a][w] \in 0..(MaxTime + 1)
  BY <1>1
<1> QED
  BY <1>2, TimesAssumption DEF TypeOK

LEMMA NowTyped == TypeOK => now \in Int /\ now >= 0
BY TimesAssumption DEF TypeOK

LEMMA Ordered ==
    /\ \A x, y, z \in Int : x <= y /\ z >= y => z >= x
    /\ \A x, y \in Int : (x > y => ~(x <= y)) /\ (x <= y => y >= x)
OBVIOUS

LEMMA InitTyped == Init => TypeOK
BY TimesAssumption DEF Init, TypeOK, Seen, CacheEntry, MaybeSeen, Cooldown, Scopes, Locked, Binding

\* Latest() answers one of its instants, and one to come.
LEMMA LatestIsOne ==
    ASSUME TypeOK, NEW times, Latest(times) # Nothing
    PROVE  Latest(times) \in times /\ Latest(times) \in Int /\ Latest(times) > now
<1> DEFINE last == {t \in times : \A u \in times : u <= t}
<1>1. times \subseteq (now + 1)..MaxTime /\ last # {} /\ Latest(times) = CHOOSE t \in last : TRUE
  BY Zenon DEF Latest
<1>2. Latest(times) \in last
  BY <1>1, Zenon
<1>3. Latest(times) \in times
  BY <1>2
<1>4. Latest(times) \in (now + 1)..MaxTime
  BY <1>1, <1>3
<1>5. now \in Int
  BY TimesAssumption DEF TypeOK
<1> QED
  BY <1>3, <1>4, <1>5, TimesAssumption

LEMMA StepTyped == TypeOK /\ [Next]_vars => TypeOK'
<1> SUFFICES ASSUME TypeOK, [Next]_vars PROVE TypeOK'
  OBVIOUS
<1> USE TimesAssumption DEF TypeOK
<1>1. ASSUME NEW a \in Accounts, Usage(a) PROVE TypeOK'
  <2>1. [w \in Binding |-> spent[a][w]] \in Seen
    BY DEF Seen, Windows
  <2> QED
    BY <1>1, <2>1 DEF Usage, CacheEntry
<1>2. ASSUME NEW a \in Accounts, Models(a) PROVE TypeOK'
  BY <1>2 DEF Models
<1>3. ASSUME NEW a \in Accounts, Relogin(a) PROVE TypeOK'
  BY <1>3 DEF Relogin
<1>4. ASSUME NEW a \in Accounts, Disable(a) PROVE TypeOK'
  BY <1>4 DEF Disable
<1>5. ASSUME NEW a \in Accounts, UsageExpires(a) PROVE TypeOK'
  BY <1>5 DEF UsageExpires, CacheEntry
<1>6. ASSUME NEW a \in Accounts, ModelsExpire(a) PROVE TypeOK'
  BY <1>6 DEF ModelsExpire
<1>7. ASSUME NEW a \in Accounts, NEW s \in Scopes, CooldownEnds(a, s) PROVE TypeOK'
  BY <1>7 DEF CooldownEnds
<1>8. ASSUME NEW a \in Accounts, NEW s \in Scopes, Limited(a, s) PROVE TypeOK'
  <2>1. PICK named \in SUBSET Windows :
            cooldown' = [cooldown EXCEPT ![a][s] =
               [reset |-> ResponseQuotaReset(a, named), named |-> named,
                seen |-> IF usage[a] = Nothing THEN Nothing ELSE usage[a].seen,
                models |-> models[a] # "none"]]
    BY <1>8 DEF Limited
  <2>3. ResponseQuotaReset(a, named) \in (1..MaxTime) \cup {Nothing}
    <3>1. PICK reset : reset = ResponseQuotaReset(a, named)
      OBVIOUS
    <3>2. reset # Nothing => reset \in Int /\ reset > now /\ reset \in {spent[a][w] : w \in named}
      BY <3>1, LatestIsOne DEF ResponseQuotaReset
    <3>3. reset # Nothing => reset <= MaxTime
      <4>1. reset # Nothing => {spent[a][w] : w \in named} \subseteq (now + 1)..MaxTime
        BY <3>1, Zenon DEF ResponseQuotaReset, Latest
      <4>2. reset # Nothing => reset \in (now + 1)..MaxTime
        BY <4>1, <3>2
      <4> HIDE DEF TypeOK
      <4> QED
        BY <4>2, NowTyped
    <3>4. now \in Int /\ now >= 0
      BY NowTyped
    <3> HIDE DEF TypeOK
    <3> QED
      BY <3>1, <3>2, <3>3, <3>4
  <2>4. (IF usage[a] = Nothing THEN Nothing ELSE usage[a].seen) \in MaybeSeen
    BY DEF MaybeSeen, CacheEntry
  <2>6. PICK entry \in Cooldown : cooldown' = [cooldown EXCEPT ![a][s] = entry]
    <3>1. PICK reset \in (1..MaxTime) \cup {Nothing} : reset = ResponseQuotaReset(a, named)
      BY <2>3
    <3>2. PICK seen \in MaybeSeen : seen = (IF usage[a] = Nothing THEN Nothing ELSE usage[a].seen)
      BY <2>4
    <3>3. [reset |-> reset, named |-> named, seen |-> seen, models |-> models[a] # "none"] \in Cooldown
      BY Zenon DEF Cooldown
    <3> QED
      BY <2>1, <3>1, <3>2, <3>3
  <2>5. cooldown' \in [Accounts -> [Scopes -> Cooldown \cup {Nothing}]]
    BY <2>6
  <2> QED
    BY <1>8, <2>5 DEF Limited
<1>9. ASSUME NEW a \in Accounts, NEW w \in Windows, NEW t \in 1..Locked, Spend(a, w, t)
      PROVE TypeOK'
  BY <1>9 DEF Spend, Locked
<1>10. CASE Tick
  BY <1>10 DEF Tick, Locked
<1>11. CASE UNCHANGED vars
  BY <1>11 DEF vars
<1> QED
  BY <1>1, <1>2, <1>3, <1>4, <1>5, <1>6, <1>7, <1>8, <1>9, <1>10, <1>11 DEF Next

\* Every variable keeps its type, in particular the cooldowns that limited()
\* fills from headers and caches.
THEOREM QuotaTyped == Spec => []TypeOK
BY InitTyped, StepTyped, PTL DEF Spec

-----------------------------------------------------------------------------
(* What is kept was true once *)

\* A window seen as exhausted is exhausted, at least as long, or its time came.
Once(a, seen) == \A w \in Binding : seen[w] <= now \/ seen[w] <= spent[a][w]

\* The reset of a rejection is that of a window it named, or its time came.
Named(a, named, reset) == reset <= now \/ \E w \in named : reset <= spent[a][w]

UsageTrue(a) == usage[a] # Nothing => Once(a, usage[a].seen)
CooldownTrue(a, s) ==
    Cooling(a, s) =>
        /\ cooldown[a][s].seen # Nothing => Once(a, cooldown[a][s].seen)
        /\ cooldown[a][s].reset # Nothing =>
               Named(a, cooldown[a][s].named, cooldown[a][s].reset)

KeptTrue ==
    /\ \A a \in Accounts : UsageTrue(a)
    /\ \A a \in Accounts : \A s \in Scopes : CooldownTrue(a, s)

LEMMA InitTrue == Init => KeptTrue
BY DEF Init, KeptTrue, UsageTrue, CooldownTrue, Cooling

\* Time and spending only defer the end of an exhaustion or end it in time.
LEMMA Older ==
    ASSUME TypeOK, NEW a \in Accounts, now' >= now, now' \in Nat,
           spent' \in [Accounts -> [Windows -> 0..Locked]],
           \A w \in Windows : spent'[a][w] >= spent[a][w] \/ spent[a][w] <= now'
    PROVE  /\ \A seen \in Seen : Once(a, seen) => Once(a, seen)'
           /\ \A named \in SUBSET Windows, reset \in Int :
                  Named(a, named, reset) => Named(a, named, reset)'
<1> USE TimesAssumption DEF TypeOK, Seen, Locked
<1>1. ASSUME NEW seen \in Seen, Once(a, seen) PROVE Once(a, seen)'
  <2>1. \A w \in Binding : spent[a][w] \in Int /\ spent'[a][w] \in Int /\ seen[w] \in Int
    BY DEF Windows
  <2>2. now \in Int /\ now' \in Int /\ now' >= now
    BY NowTyped
  <2>3. \A w \in Binding : spent'[a][w] >= spent[a][w] \/ spent[a][w] <= now'
    BY DEF Windows
  <2> HIDE DEF TypeOK, Seen, Locked
  <2> QED
    BY <1>1, <2>1, <2>2, <2>3 DEF Once
<1>2. ASSUME NEW named \in SUBSET Windows, NEW reset \in Int, Named(a, named, reset)
      PROVE  Named(a, named, reset)'
  <2>1. CASE reset <= now
    BY <2>1 DEF Named
  <2>2. ASSUME NEW w \in named, reset <= spent[a][w] PROVE Named(a, named, reset)'
    <3>1. spent'[a] \in [Windows -> 0..(MaxTime + 1)]
      OBVIOUS
    <3>2. spent'[a][w] \in 0..(MaxTime + 1)
      BY <3>1
    <3>3. spent[a][w] \in Int
      BY SpentTyped
    <3> HIDE DEF TypeOK, Seen, Locked
    <3>4. reset <= spent'[a][w] \/ reset <= now'
      BY <2>2, <3>2, <3>3
    <3> QED
      BY <3>4 DEF Named
  <2> QED
    BY <1>2, <2>1, <2>2 DEF Named
<1> QED
  BY <1>1, <1>2

\* A step that leaves the books of the upstream alone keeps the truth of what
\* it does not change.
LEMMA StepTrue == TypeOK /\ KeptTrue /\ [Next]_vars => KeptTrue'
<1> SUFFICES ASSUME TypeOK, KeptTrue, [Next]_vars PROVE KeptTrue'
  OBVIOUS
<1>t. TypeOK'
  BY StepTyped
<1>a. ASSUME NEW a \in Accounts, UNCHANGED <<now, spent>>
      PROVE  /\ \A seen : Once(a, seen) => Once(a, seen)'
             /\ \A named, reset : Named(a, named, reset) => Named(a, named, reset)'
  BY <1>a DEF Once, Named
<1>b. ASSUME UNCHANGED <<now, spent>>,
             \A a \in Accounts : usage'[a] = usage[a] \/ UsageTrue(a)',
             \A a \in Accounts, s \in Scopes : cooldown'[a][s] = cooldown[a][s] \/ CooldownTrue(a, s)'
      PROVE  KeptTrue'
  <2>1. ASSUME NEW a \in Accounts PROVE UsageTrue(a)'
    BY <1>a, <1>b DEF KeptTrue, UsageTrue
  <2>2. ASSUME NEW a \in Accounts, NEW s \in Scopes PROVE CooldownTrue(a, s)'
    BY <1>a, <1>b DEF KeptTrue, CooldownTrue, Cooling
  <2> QED
    BY <2>1, <2>2 DEF KeptTrue
<1>1. ASSUME NEW a \in Accounts, Usage(a) PROVE KeptTrue'
  <2>1. UsageTrue(a)'
    <3>1. /\ usage'[a].seen = [w \in Binding |-> spent[a][w]]
          /\ spent' = spent
      BY <1>1 DEF Usage, TypeOK
    <3>2. \A w \in Binding : spent[a][w] \in Int
      BY SpentTyped DEF Windows
    <3> HIDE DEF TypeOK
    <3> QED
      BY <3>1, <3>2 DEF UsageTrue, Once
  <2>2. \A b \in Accounts : usage'[b] = usage[b] \/ UsageTrue(b)'
    BY <1>1, <2>1 DEF Usage, TypeOK
  <2> QED
    BY <1>1, <1>b, <2>2 DEF Usage
<1>2. ASSUME NEW a \in Accounts, Models(a) PROVE KeptTrue'
  BY <1>2, <1>b DEF Models
<1>3. ASSUME NEW a \in Accounts, Relogin(a) PROVE KeptTrue'
  <2>1. \A b \in Accounts : usage'[b] = usage[b] \/ UsageTrue(b)'
    BY <1>3 DEF Relogin, TypeOK, UsageTrue
  <2>2. \A b \in Accounts, s \in Scopes : cooldown'[b][s] = cooldown[b][s] \/ CooldownTrue(b, s)'
    BY <1>3 DEF Relogin, TypeOK, CooldownTrue, Cooling
  <2> QED
    BY <1>3, <1>b, <2>1, <2>2 DEF Relogin
<1>4. ASSUME NEW a \in Accounts, Disable(a) PROVE KeptTrue'
  BY <1>4, <1>b DEF Disable
<1>5. ASSUME NEW a \in Accounts, UsageExpires(a) PROVE KeptTrue'
  <2>1. UsageTrue(a)'
    BY <1>5, <1>a, <1>t DEF UsageExpires, UsageTrue, KeptTrue, TypeOK, CacheEntry
  <2>2. \A b \in Accounts : usage'[b] = usage[b] \/ UsageTrue(b)'
    BY <1>5, <2>1 DEF UsageExpires, TypeOK
  <2> QED
    BY <1>5, <1>b, <2>2 DEF UsageExpires
<1>6. ASSUME NEW a \in Accounts, ModelsExpire(a) PROVE KeptTrue'
  BY <1>6, <1>b DEF ModelsExpire
<1>7. ASSUME NEW a \in Accounts, NEW s \in Scopes, CooldownEnds(a, s) PROVE KeptTrue'
  <2>1. \A b \in Accounts, r \in Scopes : cooldown'[b][r] = cooldown[b][r] \/ CooldownTrue(b, r)'
    BY <1>7 DEF CooldownEnds, TypeOK, CooldownTrue, Cooling
  <2> QED
    BY <1>7, <1>b, <2>1 DEF CooldownEnds
<1>8. ASSUME NEW a \in Accounts, NEW s \in Scopes, Limited(a, s) PROVE KeptTrue'
  <2>0. PICK kept : kept = (IF usage[a] = Nothing THEN Nothing ELSE usage[a].seen)
    OBVIOUS
  <2>1. PICK named \in SUBSET Windows :
            cooldown' = [cooldown EXCEPT ![a][s] =
               [reset |-> ResponseQuotaReset(a, named), named |-> named,
                seen |-> kept, models |-> models[a] # "none"]]
    BY <1>8, <2>0 DEF Limited
  <2>2. PICK reset : reset = ResponseQuotaReset(a, named)
    OBVIOUS
  <2>3. UNCHANGED <<now, spent>>
    BY <1>8 DEF Limited
  <2>4. reset # Nothing => Named(a, named, reset)'
    <3>1. reset # Nothing => reset \in {spent[a][w] : w \in named} /\ reset \in Int
      BY <2>2, LatestIsOne DEF ResponseQuotaReset
    <3>2. reset # Nothing => \E w \in named : reset <= spent[a][w]
      BY <3>1
    <3> QED
      BY <2>3, <3>2 DEF Named
  <2>5. kept # Nothing => Once(a, kept)'
    BY <2>0, <2>3, <1>a DEF KeptTrue, UsageTrue
  <2>6. CooldownTrue(a, s)'
    <3>1. cooldown'[a][s] =
              [reset |-> reset, named |-> named, seen |-> kept, models |-> models[a] # "none"]
      BY <2>1, <2>2 DEF TypeOK
    <3>2. /\ cooldown'[a][s].reset = reset /\ cooldown'[a][s].named = named
          /\ cooldown'[a][s].seen = kept
      BY <3>1
    <3> QED
      BY <2>4, <2>5, <3>2 DEF CooldownTrue
  <2>7. \A b \in Accounts, r \in Scopes : cooldown'[b][r] = cooldown[b][r] \/ CooldownTrue(b, r)'
    BY <2>1, <2>6 DEF TypeOK
  <2>8. \A b \in Accounts : usage'[b] = usage[b] \/ UsageTrue(b)'
    BY <1>8 DEF Limited, TypeOK, UsageTrue
  <2> QED
    BY <2>3, <1>b, <2>7, <2>8
<1>c. ASSUME UNCHANGED <<usage, cooldown>>, now' >= now,
             \A a \in Accounts, w \in Windows : spent'[a][w] >= spent[a][w] \/ spent[a][w] <= now'
      PROVE  KeptTrue'
  <2>1. ASSUME NEW a \in Accounts
        PROVE  /\ \A seen \in Seen : Once(a, seen) => Once(a, seen)'
               /\ \A named \in SUBSET Windows, reset \in Int :
                      Named(a, named, reset) => Named(a, named, reset)'
    <3>1. now' \in Nat /\ spent' \in [Accounts -> [Windows -> 0..Locked]]
      BY <1>t, TimesAssumption DEF TypeOK
    <3> QED
      BY <3>1, <1>c, Older
  <2>2. ASSUME NEW a \in Accounts PROVE UsageTrue(a)'
    BY <1>c, <2>1 DEF KeptTrue, UsageTrue, TypeOK, CacheEntry
  <2>3. ASSUME NEW a \in Accounts, NEW s \in Scopes PROVE CooldownTrue(a, s)'
    <3>1. cooldown[a][s] # Nothing =>
              /\ cooldown[a][s].seen \in MaybeSeen /\ cooldown[a][s].named \in SUBSET Windows
              /\ cooldown[a][s].reset \in (1..MaxTime) \cup {Nothing}
      BY DEF TypeOK, Cooldown
    <3> QED
      BY <1>c, <2>1, <3>1, TimesAssumption DEF KeptTrue, CooldownTrue, Cooling, MaybeSeen
  <2> QED
    BY <2>2, <2>3 DEF KeptTrue
<1>9. ASSUME NEW a \in Accounts, NEW w \in Windows, NEW t \in 1..Locked, Spend(a, w, t)
      PROVE KeptTrue'
  <2>1. now' >= now
    BY <1>9, TimesAssumption DEF Spend, TypeOK
  <2>2. \A b \in Accounts, v \in Windows : spent'[b][v] >= spent[b][v]
    BY <1>9, TimesAssumption DEF Spend, TypeOK, Seen, Locked
  <2> QED
    BY <1>9, <1>c, <2>1, <2>2 DEF Spend
<1>10. CASE Tick
  <2>1. now' >= now
    BY <1>10, TimesAssumption DEF Tick, TypeOK
  <2>2. \A b \in Accounts, v \in Windows : spent'[b][v] >= spent[b][v] \/ spent[b][v] <= now'
    BY <1>10, TimesAssumption DEF Tick, TypeOK, Seen, Locked
  <2> QED
    BY <1>10, <1>c, <2>1, <2>2 DEF Tick
<1>11. CASE UNCHANGED vars
  BY <1>11, <1>b DEF vars
<1> QED
  BY <1>1, <1>2, <1>3, <1>4, <1>5, <1>6, <1>7, <1>8, <1>9, <1>10, <1>11 DEF Next

-----------------------------------------------------------------------------
(* The estimate *)

\* Until the reset of an account, one of its windows is exhausted.
LEMMA AccountReady ==
    ASSUME TypeOK, KeptTrue, NEW a \in Accounts, NEW mode, AccountReset(a, mode) # Nothing
    PROVE  /\ AccountReset(a, mode) \in Int
           /\ \E w \in QuotaWindows(mode) \cup Blamed(a) :
                  spent[a][w] \in Int /\ spent[a][w] >= AccountReset(a, mode)
<1> DEFINE seen == Observed(a)
           resets == {c.reset : c \in Cooldowns(a)}
           own == IF HasQuota(seen, mode) THEN {} ELSE {QuotaReset(seen, mode)}
           exhausted == {seen[w] : w \in {v \in QuotaWindows(mode) : seen[v] # 0}}
<1>0. PICK due : due = AccountReset(a, mode)
  OBVIOUS
<1>1. seen # Nothing /\ due = Latest(resets \cup own)
  BY <1>0, Zenon DEF AccountReset
<1>2. due \in resets \cup own /\ due \in Int /\ due > now
  <2> HIDE DEF resets, own, seen
  <2>1. Latest(resets \cup own) # Nothing
    BY <1>0, <1>1
  <2> QED
    BY <1>1, <2>1, LatestIsOne
<1>5. due \in Int /\ due > now
  BY <1>2
<1>3. CASE due \in resets
  <2>1. PICK s \in Scopes : Cooling(a, s) /\ due = cooldown[a][s].reset
    BY <1>3 DEF Cooldowns
  <2>2. Named(a, cooldown[a][s].named, due)
    BY <2>1, <1>2, TimesAssumption DEF KeptTrue, CooldownTrue
  <2>3. cooldown[a][s].named \subseteq Blamed(a) /\ cooldown[a][s].named \subseteq Windows
    BY <2>1 DEF Blamed, Cooldowns, Cooling, TypeOK, Cooldown
  <2>4. PICK named : named = cooldown[a][s].named
    OBVIOUS
  <2> QED
    <3>1. due <= now \/ \E w \in named : due <= spent[a][w]
      BY <2>2, <2>4 DEF Named
    <3>2. now \in Int /\ \A w \in named : spent[a][w] \in Int
      BY <2>3, <2>4, SpentTyped, NowTyped
    <3>3. PICK w \in named : due <= spent[a][w]
      BY <1>5, <3>1, <3>2
    <3>4. w \in Blamed(a) /\ spent[a][w] >= due
      BY <1>5, <2>3, <2>4, <3>2, <3>3
    <3> QED
      BY <1>0, <1>5, <3>2, <3>4
<1>4. CASE due \in own
  <2>1. QuotaWindows(mode) \subseteq Binding /\ Binding \subseteq Windows
    BY DEF QuotaWindows, Binding, Windows
  <2>2. due = Latest(exhausted)
    BY <1>4 DEF QuotaReset
  <2>3. due \in exhausted
    <3> HIDE DEF exhausted
    <3>1. Latest(exhausted) # Nothing
      BY <1>0, <2>2
    <3> QED
      BY <2>2, <3>1, LatestIsOne
  <2>4. Once(a, seen)
    <3>1. CASE usage[a] # Nothing /\ usage[a].current
      BY <3>1 DEF Observed, KeptTrue, UsageTrue
    <3>2. CASE ~(usage[a] # Nothing /\ usage[a].current) /\ Cooling(a, "account")
               /\ cooldown[a]["account"].seen # Nothing
      BY <3>2 DEF Observed, KeptTrue, CooldownTrue, Scopes
    <3>3. CASE ~(usage[a] # Nothing /\ usage[a].current)
               /\ ~(Cooling(a, "account") /\ cooldown[a]["account"].seen # Nothing)
      <4>1. Cooling(a, "model") /\ seen = cooldown[a]["model"].seen
        BY <1>1, <3>3 DEF Observed
      <4> QED
        BY <1>1, <4>1 DEF KeptTrue, CooldownTrue, Scopes
    <3> QED
      BY <3>1, <3>2, <3>3
  <2>5. PICK w \in QuotaWindows(mode) : due = seen[w]
    BY <2>3
  <2>6. spent[a][w] >= due /\ spent[a][w] \in Int
    <3> HIDE DEF seen
    <3>1. due <= now \/ due <= spent[a][w]
      BY <2>1, <2>4, <2>5 DEF Once
    <3>2. spent[a][w] \in Int /\ now \in Int
      BY <2>1, SpentTyped
    <3> QED
      BY <1>5, <3>1, <3>2
  <2> QED
    BY <1>0, <1>5, <2>6
<1> QED
  BY <1>0, <1>2, <1>3, <1>4

LEMMA EstimateTrue == TypeOK /\ KeptTrue => NeverLate
<1> SUFFICES ASSUME TypeOK, KeptTrue, NEW mode \in {"", "slow", "extended"},
                    PoolQuotaReset(mode) # Nothing, NEW a \in Serving \cap Enabled
             PROVE  \E w \in QuotaWindows(mode) \cup Blamed(a) : spent[a][w] >= PoolQuotaReset(mode)
  BY DEF NeverLate
<1> DEFINE resets == {AccountReset(b, mode) : b \in Serving \cap Enabled} \ {Nothing}
           earliest == {t \in resets : \A u \in resets : t <= u}
<1>0. PICK due : due = PoolQuotaReset(mode)
  OBVIOUS
<1>1. earliest # {} /\ ~Blocking(a, mode) /\ due = CHOOSE t \in earliest : TRUE
  BY <1>0, Zenon DEF PoolQuotaReset
<1>2. due \in earliest
  BY <1>1, Zenon
<1>3. AccountReset(a, mode) \in resets
  BY <1>1 DEF Blocking
<1>4. due <= AccountReset(a, mode) /\ due \in resets
  BY <1>2, <1>3
<1>5. PICK b \in Serving \cap Enabled : due = AccountReset(b, mode) /\ due # Nothing
  BY <1>0, <1>4
<1>6. a \in Accounts /\ b \in Accounts
  BY DEF Enabled
<1>7. AccountReset(a, mode) # Nothing
  BY <1>3
<1>8. PICK w \in QuotaWindows(mode) \cup Blamed(a) :
          spent[a][w] \in Int /\ spent[a][w] >= AccountReset(a, mode)
  BY <1>6, <1>7, AccountReady
<1>9. AccountReset(a, mode) \in Int /\ due \in Int
  BY <1>5, <1>6, <1>7, AccountReady
<1>11. spent[a][w] >= due
  <2>1. due <= AccountReset(a, mode)
    BY <1>4
  <2> QED
    BY <2>1, <1>8, <1>9, Ordered, Zenon
<1> QED
  BY <1>0, <1>11

\* Until the time poolQuotaReset() advertises, every account of the pool that
\* has the model is held up by an exhausted window, one that binds the request
\* or one that a rejection named, whatever the caches, the cooldowns and the
\* headers of past rejections combined.
THEOREM ResetNeverLate == Spec => []NeverLate
<1>1. Init => TypeOK /\ KeptTrue
  BY InitTyped, InitTrue
<1>2. TypeOK /\ KeptTrue /\ [Next]_vars => (TypeOK /\ KeptTrue)'
  BY StepTyped, StepTrue
<1> QED
  BY <1>1, <1>2, EstimateTrue, PTL DEF Spec

-----------------------------------------------------------------------------
(* The usage cache: who waits for what *)

\* A request runs for the call that made it, and that call waits for it.
RequestsOwned ==
    \A c \in Calls :
        /\ answer[c] # "none" => pc[c] = "waiting" /\ from[c] = c
        /\ pc[c] # "waiting" => from[c] = c

\* Only an answer on its way can be overtaken, only what is known rests on one.
NothingKept ==
    \A c \in Calls :
        /\ ~Known(answer[c]) => old[c] = {}
        /\ pc[c] # "known" => used[c] = {}

\* A cached promise is that of a running request (Claude only).
PromiseRuns ==
    cache.value = "pending" =>
        /\ provider = "claude"
        /\ cache.by \in Calls
        /\ answer[cache.by] # "none"

CacheInv ==
    /\ UsageTypeOK
    /\ RequestsOwned /\ NothingKept
    /\ PromiseRuns

LEMMA CacheStarts == UsageInit => CacheInv
<1> SUFFICES ASSUME UsageInit PROVE CacheInv
  OBVIOUS
<1>1. cache \in Entries /\ cache.value = "none"
  BY TicksAreNat DEF UsageInit, NoEntry, Entries
<1>2. UsageTypeOK
  <2>1. /\ steady \in 0..Long /\ cooling \in 0..MaxCooldown
        /\ age \in [Calls -> 0..Deadline] /\ from \in [Calls -> Calls]
        /\ waited \in [Calls -> 0..Wait]
    BY TicksAreNat, CooldownIsNat DEF UsageInit, Long
  <2>2. /\ pc \in [Calls -> {"idle", "waiting", "known"}]
        /\ answer \in [Calls -> {"none", "sent", "allowed", "denied"}]
        /\ verdict \in [Calls -> {"none", "allowed", "denied", "failed"}]
    BY DEF UsageInit
  <2>3. /\ old \in [Calls -> SUBSET Events] /\ used \in [Calls -> SUBSET Events]
        /\ excused \in [Calls -> SUBSET Events]
    BY DEF UsageInit
  <2> QED
    BY <1>1, <2>1, <2>2, <2>3 DEF UsageInit, UsageTypeOK
<1>3. RequestsOwned /\ NothingKept /\ PromiseRuns
  BY <1>1 DEF UsageInit, RequestsOwned, NothingKept, PromiseRuns, Known
<1>4. QED
  BY <1>2, <1>3 DEF CacheInv

LEMMA EntryTyped ==
  ASSUME CacheInv
  PROVE  /\ NoEntry \in Entries /\ NoEntry.value = "none"
         /\ cache.by \in Calls \cup {Nobody} /\ cache.left \in 0..TTL
         /\ cache.value \in {"none", "pending", "allowed", "denied"} /\ cache.old \in SUBSET Events
<1>1. NoEntry \in Entries /\ NoEntry.value = "none"
  BY TicksAreNat DEF Entries, NoEntry
<1>2. cache \in Entries
  BY DEF CacheInv, UsageTypeOK
<1>3. QED
  BY <1>1, <1>2 DEF Entries

\* The answer to c's request or its failure reaches everyone who waits for it.
LEMMA SettleKept ==
  ASSUME CacheInv, NEW c \in Calls, answer[c] # "none",
         NEW result \in {"allowed", "denied", "failed"}, Settle(c, result)
  PROVE  /\ pc' \in [Calls -> {"idle", "waiting", "known"}] /\ from' \in [Calls -> Calls]
         /\ answer' \in [Calls -> {"none", "sent", "allowed", "denied"}]
         /\ age' \in [Calls -> 0..Deadline]
         /\ verdict' \in [Calls -> {"none", "allowed", "denied", "failed"}]
         /\ old' \in [Calls -> SUBSET Events] /\ used' \in [Calls -> SUBSET Events]
         /\ RequestsOwned' /\ NothingKept'
<1>1. /\ UsageTypeOK /\ RequestsOwned /\ NothingKept /\ c \in Awaiting(c) /\ 0 \in 0..Deadline
  BY TicksAreNat DEF CacheInv, RequestsOwned, Awaiting
<1>2. /\ pc' \in [Calls -> {"idle", "waiting", "known"}] /\ from' \in [Calls -> Calls]
      /\ verdict' \in [Calls -> {"none", "allowed", "denied", "failed"}]
      /\ used' \in [Calls -> SUBSET Events]
  BY <1>1 DEF Settle, UsageTypeOK
<1>3. /\ answer' \in [Calls -> {"none", "sent", "allowed", "denied"}]
      /\ age' \in [Calls -> 0..Deadline]
      /\ old' \in [Calls -> SUBSET Events]
  BY <1>1 DEF Settle, UsageTypeOK
<1>4. RequestsOwned'
  <2> SUFFICES ASSUME NEW d \in Calls
               PROVE  /\ answer'[d] # "none" => pc'[d] = "waiting" /\ from'[d] = d
                      /\ pc'[d] # "waiting" => from'[d] = d
    BY DEF RequestsOwned
  <2>1. CASE d \in Awaiting(c)
    <3>1. d # c => answer[d] = "none"
      BY <1>1, <2>1 DEF RequestsOwned, Awaiting
    <3> QED
      BY <1>1, <2>1, <3>1 DEF Settle, UsageTypeOK
  <2>2. CASE d \notin Awaiting(c)
    BY <1>1, <2>2 DEF Settle, UsageTypeOK, RequestsOwned
  <2> QED
    BY <2>1, <2>2
<1>5. NothingKept'
  BY <1>1 DEF Settle, UsageTypeOK, NothingKept, Known
<1>6. QED
  BY <1>2, <1>3, <1>4, <1>5

LEMMA CacheKept == CacheInv /\ [UsageNext]_usageVars => CacheInv'
<1> SUFFICES ASSUME CacheInv, [UsageNext]_usageVars PROVE CacheInv'
  OBVIOUS
<1>1. /\ UsageTypeOK /\ RequestsOwned /\ NothingKept /\ PromiseRuns
      /\ cache \in Entries /\ NoEntry \in Entries /\ NoEntry.value = "none"
      /\ TTL \in Nat /\ Deadline \in Nat /\ TTL >= 1
  BY EntryTyped, TicksAreNat DEF CacheInv, UsageTypeOK
<1>2. CASE UNCHANGED usageVars
  BY <1>1, <1>2 DEF usageVars, upstream, readers, CacheInv, UsageTypeOK, RequestsOwned, NothingKept,
                    PromiseRuns, Known
<1>3. ASSUME NEW c \in Calls, Cached(c)
      PROVE  CacheInv'
  <2>1. UsageTypeOK'
    BY <1>1, <1>3, EntryTyped DEF Cached, Excuse, Known, UsageTypeOK, upstream, Events
  <2>2. RequestsOwned' /\ NothingKept' /\ PromiseRuns'
    BY <1>1, <1>3 DEF Cached, UsageTypeOK, RequestsOwned, NothingKept, PromiseRuns, Known
  <2> QED
    BY <2>1, <2>2 DEF CacheInv
<1>4. ASSUME NEW c \in Calls, Joins(c)
      PROVE  CacheInv'
  <2>1. cache.by \in Calls
    BY <1>1, <1>4 DEF Joins, PromiseRuns
  <2>2. UsageTypeOK'
    BY <1>1, <1>4, <2>1 DEF Joins, Excuse, UsageTypeOK, upstream, Events
  <2>3. RequestsOwned' /\ NothingKept' /\ PromiseRuns'
    BY <1>1, <1>4 DEF Joins, UsageTypeOK, RequestsOwned, NothingKept, PromiseRuns, Known
  <2> QED
    BY <2>2, <2>3 DEF CacheInv
<1>5. ASSUME NEW c \in Calls, Request(c)
      PROVE  CacheInv'
  <2>1. [by |-> c, value |-> "pending", left |-> TTL, old |-> {}] \in Entries
    BY <1>1 DEF Entries
  <2>2. UsageTypeOK'
    BY <1>1, <1>5, <2>1 DEF Request, Excuse, UsageTypeOK, upstream, Events
  <2>3. RequestsOwned' /\ NothingKept'
    BY <1>1, <1>5 DEF Request, UsageTypeOK, RequestsOwned, NothingKept, Known
  <2>4. PromiseRuns'
    BY <1>1, <1>5 DEF Request, UsageTypeOK, PromiseRuns
  <2> QED
    BY <2>2, <2>3, <2>4 DEF CacheInv
<1>6. ASSUME NEW c \in Calls, Observe(c)
      PROVE  CacheInv'
  <2>1. UsageTypeOK'
    BY <1>1, <1>6 DEF Observe, UsageTypeOK, upstream
  <2>2. RequestsOwned' /\ NothingKept' /\ PromiseRuns'
    BY <1>1, <1>6 DEF Observe, UsageTypeOK, RequestsOwned, NothingKept, PromiseRuns, Known
  <2> QED
    BY <2>1, <2>2 DEF CacheInv
<1>7. ASSUME NEW c \in Calls, Arrives(c)
      PROVE  CacheInv'
  <2>1. answer[c] \in {"allowed", "denied", "failed"} /\ answer[c] # "none" /\ Settle(c, answer[c])
    BY <1>7 DEF Arrives, Known
  <2>2. cache' \in Entries
    <3>1. answer[c] \in {"allowed", "denied"} /\ old[c] \in SUBSET Events
      BY <1>1, <1>7 DEF Arrives, Known, UsageTypeOK
    <3>2. [by |-> Nobody, value |-> answer[c], left |-> TTL, old |-> old[c]] \in Entries
      BY <1>1, <3>1 DEF Entries
    <3>3. [cache EXCEPT !.by = Nobody, !.value = answer[c], !.old = old[c]] \in Entries
      BY <1>1, <3>1 DEF Entries
    <3> QED
      BY <1>1, <1>7, <3>2, <3>3 DEF Arrives
  <2>3. UsageTypeOK'
    BY <1>1, <1>7, <2>1, <2>2, SettleKept DEF Arrives, upstream, UsageTypeOK
  <2>4. PromiseRuns'
    <3> SUFFICES ASSUME cache'.value = "pending"
                 PROVE  provider = "claude" /\ cache'.by \in Calls /\ answer'[cache'.by] # "none"
      BY <1>7 DEF PromiseRuns, Arrives
    <3>1. provider # "codex" /\ ~Owned(c) /\ cache' = cache
      BY <1>1, <1>7, <2>1 DEF Arrives, Known, Entries
    <3>2. cache.by # c /\ cache.by \in Calls /\ answer[cache.by] # "none" /\ provider = "claude"
      BY <1>1, <3>1 DEF PromiseRuns, Owned
    <3> QED
      BY <1>1, <2>1, <3>1, <3>2 DEF Settle, UsageTypeOK
  <2> QED
    BY <2>1, <2>3, <2>4, SettleKept DEF CacheInv
<1>8. ASSUME NEW c \in Calls, Fails(c)
      PROVE  CacheInv'
  <2>1. Settle(c, "failed") /\ answer[c] # "none"
    BY <1>8 DEF Fails
  <2>2. cache' \in Entries
    BY <1>1, <1>8 DEF Fails, Evicted
  <2>3. UsageTypeOK'
    BY <1>1, <1>8, <2>1, <2>2, SettleKept DEF Fails, upstream, UsageTypeOK
  <2>4. PromiseRuns'
    <3> SUFFICES ASSUME cache'.value = "pending"
                 PROVE  provider = "claude" /\ cache'.by \in Calls /\ answer'[cache'.by] # "none"
      BY <1>8 DEF PromiseRuns, Fails
    <3>1. ~Owned(c) /\ cache' = cache
      BY <1>1, <1>8 DEF Fails, Evicted
    <3>2. cache.by # c /\ cache.by \in Calls /\ answer[cache.by] # "none" /\ provider = "claude"
      BY <1>1, <3>1 DEF PromiseRuns, Owned
    <3> QED
      BY <1>1, <2>1, <3>1, <3>2 DEF Settle, UsageTypeOK
  <2> QED
    BY <2>1, <2>3, <2>4, SettleKept DEF CacheInv
<1>9. ASSUME NEW c \in Calls, Decide(c)
      PROVE  CacheInv'
  <2>1. UsageTypeOK'
    BY <1>1, <1>9, TicksAreNat DEF Decide, UsageTypeOK, upstream
  <2>2. RequestsOwned' /\ NothingKept' /\ PromiseRuns'
    BY <1>1, <1>9 DEF Decide, UsageTypeOK, RequestsOwned, NothingKept, PromiseRuns, Known
  <2> QED
    BY <2>1, <2>2 DEF CacheInv
<1>10. ASSUME NEW e \in Events, Overtaken(e), UNCHANGED <<provider, readers>>,
              allowed' \in BOOLEAN, rejecting' \in BOOLEAN, resetting' \in BOOLEAN,
              steady' \in 0..Long, cooling' \in 0..MaxCooldown,
              cache' \in Entries, cache'.value = "pending" => cache' = cache
       PROVE  CacheInv'
  <2>1. UsageTypeOK'
    BY <1>1, <1>10 DEF Overtaken, readers, UsageTypeOK
  <2>2. RequestsOwned' /\ NothingKept' /\ PromiseRuns'
    BY <1>1, <1>10 DEF Overtaken, readers, UsageTypeOK, RequestsOwned, NothingKept, PromiseRuns, Known
  <2> QED
    BY <2>1, <2>2 DEF CacheInv
<1>11. CASE Limit
  <2>1. "limit" \in Events /\ cooling' \in 0..MaxCooldown /\ cache' = NoEntry
    BY <1>11, CooldownIsNat DEF Limit, Events, AfterLimit
  <2> QED
    BY <1>1, <1>10, <1>11, <2>1 DEF Limit, UsageTypeOK
<1>12. CASE Redeem
  <2>1. "reset" \in Events /\ steady' \in 0..Long
    BY <1>1, <1>12, TicksAreNat DEF Redeem, Events, UsageTypeOK, Long
  <2>2. cache' \in Entries /\ (cache'.value = "pending" => cache' = cache)
    BY <1>1, <1>12, <2>1 DEF Redeem, Known, Entries
  <2> QED
    BY <1>1, <1>10, <1>12, <2>1, <2>2 DEF Redeem, UsageTypeOK
<1>13. ASSUME UNCHANGED <<provider, pc, from, answer, verdict, used, old, excused>>,
              age' \in [Calls -> 0..Deadline], waited' \in [Calls -> 0..Wait],
              allowed' \in BOOLEAN, rejecting' \in BOOLEAN, resetting' \in BOOLEAN,
              steady' \in 0..Long, cooling' \in 0..MaxCooldown,
              cache' \in Entries,
              cache'.value = "pending" => cache.value = "pending" /\ cache'.by = cache.by
       PROVE  CacheInv'
  <2>1. UsageTypeOK'
    BY <1>1, <1>13 DEF UsageTypeOK
  <2>2. RequestsOwned' /\ NothingKept' /\ PromiseRuns'
    BY <1>1, <1>13 DEF UsageTypeOK, RequestsOwned, NothingKept, PromiseRuns, Known
  <2> QED
    BY <2>1, <2>2 DEF CacheInv
<1>14. CASE Reject \/ InvalidateUsage \/ ResetConfirmed \/ Forgotten \/ QuotaChanges
  <2>1. /\ UNCHANGED <<provider, pc, from, answer, age, verdict, waited, used, old, excused>>
        /\ cache' = cache \/ cache' = NoEntry
    BY <1>14 DEF Reject, InvalidateUsage, ResetConfirmed, Forgotten, QuotaChanges, readers
  <2>2. allowed' \in BOOLEAN /\ rejecting' \in BOOLEAN /\ resetting' \in BOOLEAN
    BY <1>1, <1>14
       DEF Reject, InvalidateUsage, ResetConfirmed, Forgotten, QuotaChanges, upstream, UsageTypeOK
  <2>3. /\ steady' = steady \/ steady' = 0
        /\ cooling' = cooling \/ cooling' = 0
    BY <1>14 DEF Reject, InvalidateUsage, ResetConfirmed, Forgotten, QuotaChanges, upstream
  <2>4. steady' \in 0..Long /\ cooling' \in 0..MaxCooldown
    BY <1>1, <2>3, TicksAreNat, CooldownIsNat DEF UsageTypeOK, Long
  <2> QED
    BY <1>1, <1>13, <2>1, <2>2, <2>4 DEF UsageTypeOK
<1>15. CASE TimePasses
  <2>1. age' \in [Calls -> 0..Deadline] /\ waited' \in [Calls -> 0..Wait]
    BY <1>1, <1>15, TicksAreNat DEF TimePasses, UsageTypeOK
  <2>2. steady' \in 0..Long /\ cooling' \in 0..MaxCooldown
    BY <1>1, <1>15, TicksAreNat, CooldownIsNat DEF TimePasses, UsageTypeOK, Long
  <2>3. /\ cache' \in Entries
        /\ cache'.value = "pending" => cache.value = "pending" /\ cache'.by = cache.by
    BY <1>1, <1>15 DEF TimePasses, Entries
  <2> QED
    BY <1>1, <1>13, <1>15, <2>1, <2>2, <2>3 DEF TimePasses, UsageTypeOK
<1>16. QED
  BY <1>2, <1>3, <1>4, <1>5, <1>6, <1>7, <1>8, <1>9, <1>11, <1>12, <1>14, <1>15
     DEF UsageNext, Pick, Status, ForcedRead, ReadUsage

LEMMA CacheHolds == UsageSpec => []CacheInv
BY CacheStarts, CacheKept, PTL DEF UsageSpec

\* Every variable keeps its type: no lifetime, cooldown or age leaves its bounds.
THEOREM UsageTyped == UsageSpec => []UsageTypeOK
<1>1. CacheInv => UsageTypeOK
  BY DEF CacheInv
<1>2. QED
  BY <1>1, CacheHolds, PTL

\* No failed request is served from the cache: a cached promise is that of a
\* request which still runs, however requests overtake each other (usage() in
\* accounts.ts).
THEOREM UsageFailureNotCached == UsageSpec => []FailureNotCached
<1>1. CacheInv => FailureNotCached
  BY DEF CacheInv, PromiseRuns, FailureNotCached
<1>2. QED
  BY <1>1, CacheHolds, PTL

-----------------------------------------------------------------------------
(* A rejection is not overruled by what was observed before it *)

\* Claude: neither the cache nor the promise in it knows of a limit, and a call
\* that waits for an overtaken answer began before the limit.
LimitKnown ==
    provider = "claude" =>
        /\ "limit" \notin cache.old
        /\ cache.value = "pending" => "limit" \notin old[cache.by]
        /\ \A c \in Calls :
              pc[c] = "waiting" /\ "limit" \in old[from[c]] => "limit" \in excused[c]

LEMMA LimitKept ==
  ASSUME CacheInv, LimitKnown, RecheckedAfterLimit, [UsageNext]_usageVars
  PROVE  LimitKnown' /\ RecheckedAfterLimit'
<1>1. UsageTypeOK /\ RequestsOwned /\ NothingKept /\ PromiseRuns
  BY DEF CacheInv
<1>2. CASE UNCHANGED usageVars
  BY <1>2 DEF usageVars, upstream, readers, LimitKnown, RecheckedAfterLimit
<1>3. provider' = provider
  BY DEF UsageNext, Pick, Status, ForcedRead, ReadUsage, Cached, Joins, Request, Observe, Arrives, Fails,
         Decide, Reject, Limit, InvalidateUsage, Redeem, ResetConfirmed, Forgotten, QuotaChanges, TimePasses,
         usageVars
<1>4. CASE provider # "claude"
  BY <1>3, <1>4 DEF LimitKnown, RecheckedAfterLimit
<1> SUFFICES ASSUME provider = "claude" PROVE LimitKnown' /\ RecheckedAfterLimit'
  BY <1>4
<1>5. ASSUME NEW c \in Calls, Cached(c)
      PROVE  LimitKnown' /\ RecheckedAfterLimit'
  BY <1>1, <1>5 DEF Cached, Excuse, UsageTypeOK, LimitKnown, RecheckedAfterLimit
<1>6. ASSUME NEW c \in Calls, Joins(c)
      PROVE  LimitKnown' /\ RecheckedAfterLimit'
  BY <1>1, <1>6 DEF Joins, Excuse, UsageTypeOK, NothingKept, LimitKnown, RecheckedAfterLimit
<1>7. ASSUME NEW c \in Calls, Request(c)
      PROVE  LimitKnown' /\ RecheckedAfterLimit'
  <2>1. old[c] = {} /\ from[c] = c /\ used[c] = {}
    BY <1>1, <1>7 DEF Request, RequestsOwned, NothingKept, Known
  <2>2. cache' = [by |-> c, value |-> "pending", left |-> TTL, old |-> {}]
    BY <1>7 DEF Request
  <2> QED
    BY <1>1, <1>7, <2>1, <2>2 DEF Request, Excuse, UsageTypeOK, LimitKnown, RecheckedAfterLimit
<1>8. ASSUME NEW c \in Calls, Observe(c)
      PROVE  LimitKnown' /\ RecheckedAfterLimit'
  BY <1>8 DEF Observe, LimitKnown, RecheckedAfterLimit
<1>9. ASSUME NEW c \in Calls, NEW result, answer[c] # "none", Settle(c, result), UNCHANGED <<provider, excused>>,
             "limit" \notin cache'.old,
             cache'.value = "pending" => cache' = cache
      PROVE  LimitKnown' /\ RecheckedAfterLimit'
  <2>1. \A d \in Calls : old'[d] = old[d] \/ old'[d] = {}
    BY <1>1, <1>9 DEF Settle, UsageTypeOK
  <2>2. ASSUME NEW d \in Calls, pc'[d] = "waiting"
        PROVE  pc[d] = "waiting" /\ from'[d] = from[d] /\ from[d] \in Calls
    BY <1>1, <1>9, <2>2 DEF Settle, UsageTypeOK
  <2>3. LimitKnown'
    BY <1>1, <1>9, <2>1, <2>2 DEF LimitKnown, PromiseRuns
  <2>4. RecheckedAfterLimit'
    <3> SUFFICES ASSUME NEW d \in Calls, "limit" \in used'[d] PROVE "limit" \in excused[d]
      BY <1>9 DEF RecheckedAfterLimit
    <3>1. CASE d \in Awaiting(c)
      <4>1. used'[d] = old[c] /\ pc[d] = "waiting" /\ from[d] = c
        BY <1>9, <3>1 DEF Settle, Awaiting
      <4> QED
        BY <4>1 DEF LimitKnown
    <3>2. CASE d \notin Awaiting(c)
      BY <1>9, <3>2 DEF Settle, RecheckedAfterLimit
    <3> QED
      BY <3>1, <3>2
  <2> QED
    BY <2>3, <2>4
<1>10. ASSUME NEW c \in Calls, Arrives(c)
       PROVE  LimitKnown' /\ RecheckedAfterLimit'
  <2>1. Settle(c, answer[c]) /\ answer[c] # "none" /\ answer[c] # "pending"
    BY <1>10 DEF Arrives, Known
  <2>2. CASE Owned(c)
    <3>1. "limit" \notin old[c] /\ cache' = [cache EXCEPT !.by = Nobody, !.value = answer[c], !.old = old[c]]
      BY <1>10, <2>2 DEF Arrives, Owned, LimitKnown
    <3>2. cache'.value = answer[c] /\ cache'.old = old[c]
      BY <3>1, EntryTyped DEF Entries, CacheInv, UsageTypeOK
    <3> QED
      BY <1>9, <1>10, <2>1, <3>1, <3>2 DEF Arrives
  <2>3. CASE ~Owned(c)
    <3>1. cache' = cache
      BY <1>10, <2>3 DEF Arrives
    <3> QED
      BY <1>9, <1>10, <2>1, <3>1 DEF Arrives, LimitKnown
  <2> QED
    BY <2>2, <2>3
<1>11. ASSUME NEW c \in Calls, Fails(c)
       PROVE  LimitKnown' /\ RecheckedAfterLimit'
  <2>1. cache' = cache \/ cache' = NoEntry
    BY <1>11 DEF Fails, Evicted
  <2>2. "limit" \notin cache'.old /\ (cache'.value = "pending" => cache' = cache)
    BY <2>1 DEF NoEntry, LimitKnown
  <2> QED
    BY <1>9, <1>11, <2>2 DEF Fails
<1>12. ASSUME NEW c \in Calls, Decide(c)
       PROVE  LimitKnown' /\ RecheckedAfterLimit'
  BY <1>1, <1>12 DEF Decide, UsageTypeOK, LimitKnown, RecheckedAfterLimit
<1>13. CASE Limit
  <2>1. \A d \in Calls : excused'[d] = excused[d] \cup (IF pc[d] = "waiting" THEN {"limit"} ELSE {})
    BY <1>13 DEF Limit, Overtaken
  <2>2. cache' = NoEntry /\ UNCHANGED readers
    BY <1>13 DEF Limit, AfterLimit
  <2>3. LimitKnown'
    BY <2>1, <2>2 DEF LimitKnown, NoEntry, readers
  <2>4. RecheckedAfterLimit'
    BY <2>1, <2>2 DEF RecheckedAfterLimit, readers
  <2> QED
    BY <2>3, <2>4
<1>14. CASE InvalidateUsage \/ Redeem
  BY <1>14 DEF InvalidateUsage, Redeem
<1>15. ASSUME UNCHANGED <<provider, pc, from, used, old, excused>>, cache' = cache \/ cache' = NoEntry
       PROVE  LimitKnown' /\ RecheckedAfterLimit'
  BY <1>15 DEF LimitKnown, RecheckedAfterLimit, NoEntry
<1>16. CASE Reject \/ ResetConfirmed \/ Forgotten \/ QuotaChanges
  BY <1>15, <1>16 DEF Reject, ResetConfirmed, Forgotten, QuotaChanges, upstream, readers
<1>17. CASE TimePasses
  <2>1. \/ cache' = NoEntry
        \/ cache'.old = cache.old /\ cache'.value = cache.value /\ cache'.by = cache.by
    BY <1>17, EntryTyped DEF TimePasses, Entries, CacheInv, UsageTypeOK
  <2> QED
    BY <1>17, <2>1 DEF TimePasses, LimitKnown, RecheckedAfterLimit, NoEntry
<1>18. QED
  BY <1>2, <1>5, <1>6, <1>7, <1>8, <1>10, <1>11, <1>12, <1>13, <1>14, <1>16, <1>17
     DEF UsageNext, Pick, Status, ForcedRead, ReadUsage

\* A Claude call that begins after a confirmed rejection never relies on an
\* observation made before it: limit() empties the cache, and an answer that it
\* overtakes reaches only the calls that were waiting for it (limited() and
\* usage() in accounts.ts).
THEOREM UsageRechecked == UsageSpec => []RecheckedAfterLimit
<1>1. UsageInit => LimitKnown /\ RecheckedAfterLimit
  BY DEF UsageInit, NoEntry, LimitKnown, RecheckedAfterLimit
<1>2. QED
  BY <1>1, CacheStarts, CacheKept, LimitKept, PTL DEF UsageSpec

-----------------------------------------------------------------------------
(* A decision rests on what was true a bounded time ago *)

Says == IF allowed THEN "allowed" ELSE "denied"

\* An answer is true, or stopped being true while it was on its way; a cached
\* usage, since its lifetime began or while its answer was on its way.
RecentlyTrue ==
    /\ \A c \in Calls : Known(answer[c]) => answer[c] = Says \/ steady <= age[c]
    /\ Known(cache.value) => cache.value = Says \/ steady + cache.left <= TTL + Deadline

LEMMA RecentlyTrueKept ==
  ASSUME CacheInv, RecentlyTrue, [UsageNext]_usageVars
  PROVE  RecentlyTrue'
<1>1. /\ UsageTypeOK /\ RequestsOwned /\ PromiseRuns
      /\ TTL \in Nat /\ Deadline \in Nat /\ TTL >= 1
      /\ steady \in Nat /\ cache.left \in Nat /\ cache.left <= TTL
      /\ \A c \in Calls : age[c] \in Nat /\ age[c] <= Deadline
  BY EntryTyped, TicksAreNat DEF CacheInv, UsageTypeOK
<1>2. ~Known(NoEntry.value) /\ ~Known("pending") /\ ~Known("none") /\ ~Known("sent") /\ Known(Says)
  BY DEF NoEntry, Known, Says
<1>3. ASSUME UNCHANGED <<allowed, steady, answer, age>>, cache' = cache \/ ~Known(cache'.value)
      PROVE  RecentlyTrue'
  BY <1>3 DEF RecentlyTrue, Says, Known
<1>4. ASSUME NEW c \in Calls, UNCHANGED <<allowed, steady, age>>,
             answer' = [answer EXCEPT ![c] = "sent"], cache' = cache \/ ~Known(cache'.value)
      PROVE  RecentlyTrue'
  BY <1>1, <1>2, <1>4 DEF RecentlyTrue, Says, Known, UsageTypeOK
<1>5. CASE UNCHANGED usageVars
  BY <1>3, <1>5 DEF usageVars, upstream, readers
<1>6. ASSUME NEW c \in Calls, Cached(c) \/ Joins(c) \/ Decide(c)
      PROVE  RecentlyTrue'
  BY <1>3, <1>6 DEF Cached, Joins, Decide, upstream
<1>7. ASSUME NEW c \in Calls, Request(c)
      PROVE  RecentlyTrue'
  <2>1. cache' = cache \/ cache'.value = "pending"
    BY <1>7 DEF Request
  <2> QED
    BY <1>2, <1>4, <1>7, <2>1 DEF Request, upstream
<1>8. ASSUME NEW c \in Calls, Observe(c)
      PROVE  RecentlyTrue'
  <2>1. \A d \in Calls : answer'[d] = answer[d] \/ answer'[d] = Says
    BY <1>1, <1>8 DEF Observe, UsageTypeOK, Says
  <2> QED
    BY <1>8, <2>1 DEF Observe, upstream, RecentlyTrue, Says
<1>9. ASSUME NEW c \in Calls, NEW result, Settle(c, result), UNCHANGED <<allowed, steady>>,
             Known(cache'.value) => cache'.value = Says \/ steady + cache'.left <= TTL + Deadline
      PROVE  RecentlyTrue'
  <2>1. \A d \in Calls : (answer'[d] = answer[d] /\ age'[d] = age[d]) \/ answer'[d] = "none"
    BY <1>1, <1>9 DEF Settle, UsageTypeOK
  <2> QED
    BY <1>2, <1>9, <2>1 DEF RecentlyTrue, Says
<1>10. ASSUME NEW c \in Calls, Arrives(c)
       PROVE  RecentlyTrue'
  <2>1. answer[c] = Says \/ steady <= Deadline
    BY <1>1, <1>10 DEF RecentlyTrue, Arrives
  <2>2. \/ cache' = cache
        \/ cache'.value = answer[c] /\ cache'.left \in Nat /\ cache'.left <= TTL
    BY <1>1, <1>10, EntryTyped DEF Arrives, Entries, CacheInv, UsageTypeOK
  <2>3. Known(cache'.value) => cache'.value = Says \/ steady + cache'.left <= TTL + Deadline
    BY <1>1, <2>1, <2>2 DEF RecentlyTrue
  <2> QED
    BY <1>9, <1>10, <2>3 DEF Arrives, upstream
<1>11. ASSUME NEW c \in Calls, Fails(c)
       PROVE  RecentlyTrue'
  <2>1. Known(cache'.value) => cache'.value = Says \/ steady + cache'.left <= TTL + Deadline
    BY <1>2, <1>11 DEF Fails, Evicted, RecentlyTrue
  <2> QED
    BY <1>9, <1>11, <2>1 DEF Fails, upstream
<1>12. CASE Reject \/ Limit \/ InvalidateUsage \/ ResetConfirmed \/ Forgotten
  BY <1>2, <1>3, <1>12 DEF Reject, Limit, InvalidateUsage, ResetConfirmed, Forgotten, AfterLimit, upstream, readers
<1>13. ASSUME UNCHANGED <<answer, age>>, cache'.value = cache.value, cache'.left = cache.left,
              \/ UNCHANGED <<allowed, steady>>
              \/ steady' = 0
       PROVE  RecentlyTrue'
  <2>1. CASE UNCHANGED <<allowed, steady>>
    BY <1>13, <2>1 DEF RecentlyTrue, Says
  <2>2. CASE steady' = 0
    BY <1>1, <1>13, <2>2 DEF RecentlyTrue
  <2> QED
    BY <1>13, <2>1, <2>2
<1>14. CASE Redeem \/ QuotaChanges
  <2>1. UNCHANGED <<answer, age>> /\ (UNCHANGED <<allowed, steady>> \/ steady' = 0)
    BY <1>1, <1>14 DEF Redeem, QuotaChanges, readers, UsageTypeOK
  <2>2. cache'.value = cache.value /\ cache'.left = cache.left
    BY <1>14, EntryTyped DEF Redeem, QuotaChanges, Entries, CacheInv, UsageTypeOK
  <2> QED
    BY <1>13, <2>1, <2>2
<1>15. CASE TimePasses
  <2>1. steady' <= steady + 1 /\ steady' \in Nat /\ UNCHANGED <<allowed, answer>>
    BY <1>1, <1>15 DEF TimePasses
  <2>2. \A c \in Calls : Known(answer[c]) => age'[c] = age[c] + 1
    BY <1>15 DEF TimePasses
  <2>3. \/ ~Known(cache'.value)
        \/ cache'.value = cache.value /\ cache'.left = cache.left - 1
    BY <1>1, <1>2, <1>15, EntryTyped DEF TimePasses, Entries, CacheInv, UsageTypeOK
  <2> QED
    BY <1>1, <2>1, <2>2, <2>3 DEF RecentlyTrue, Says
<1>16. QED
  BY <1>5, <1>6, <1>7, <1>8, <1>10, <1>11, <1>12, <1>14, <1>15
     DEF UsageNext, Pick, Status, ForcedRead, ReadUsage

\* What a call learns is as recent.
LEMMA LearnsRecently ==
  ASSUME CacheInv, RecentlyTrue, [UsageNext]_usageVars, NEW d \in Calls,
         pc[d] # "known", pc'[d] = "known", Known(verdict'[d])
  PROVE  verdict'[d] = Says \/ steady < TTL + Deadline
<1>1. /\ UsageTypeOK /\ TTL \in Nat /\ Deadline \in Nat /\ TTL >= 1
      /\ steady \in Nat /\ cache.left \in Nat
      /\ \A c \in Calls : age[c] \in Nat /\ age[c] <= Deadline
  BY EntryTyped, TicksAreNat DEF CacheInv, UsageTypeOK
<1>2. ASSUME NEW c \in Calls, Cached(c)
      PROVE  verdict'[d] = Says \/ steady < TTL + Deadline
  <2>1. d = c
    BY <1>1, <1>2 DEF Cached, UsageTypeOK
  <2>2. verdict'[d] = cache.value /\ Known(cache.value) /\ cache.left > 0
    BY <1>1, <1>2, <2>1 DEF Cached, Usable, UsageTypeOK
  <2> QED
    BY <1>1, <2>2 DEF RecentlyTrue
<1>3. ASSUME NEW c \in Calls, Joins(c) \/ Request(c) \/ Observe(c) \/ Decide(c)
      PROVE  FALSE
  BY <1>1, <1>3 DEF Joins, Request, Observe, Decide, UsageTypeOK
<1>4. ASSUME NEW c \in Calls, Arrives(c)
      PROVE  verdict'[d] = Says \/ steady < TTL + Deadline
  <2>1. verdict'[d] = answer[c] /\ Known(answer[c])
    BY <1>4 DEF Arrives, Settle
  <2> QED
    BY <1>1, <2>1 DEF RecentlyTrue
<1>5. ASSUME NEW c \in Calls, Fails(c)
      PROVE  FALSE
  <2>1. verdict'[d] = "failed"
    BY <1>5 DEF Fails, Settle
  <2> QED
    BY <2>1 DEF Known
<1>6. ASSUME UNCHANGED pc
      PROVE  FALSE
  BY <1>6
<1>7. CASE Reject \/ Limit \/ InvalidateUsage \/ Redeem \/ ResetConfirmed \/ Forgotten \/ QuotaChanges
           \/ TimePasses \/ UNCHANGED usageVars
  BY <1>6, <1>7 DEF Reject, Limit, InvalidateUsage, Redeem, ResetConfirmed, Forgotten, QuotaChanges,
                    TimePasses, usageVars, readers
<1>8. QED
  BY <1>2, <1>3, <1>4, <1>5, <1>7 DEF UsageNext, Pick, Status, ForcedRead, ReadUsage

\* What a call knows was true less than the time ago that it has waited since.
KnownRecently ==
    \A c \in Calls : pc[c] = "known" /\ Known(verdict[c]) =>
        verdict[c] = Says \/ steady < TTL + Deadline + waited[c]

LEMMA KnownRecentlyKept ==
  ASSUME CacheInv, RecentlyTrue, KnownRecently, [UsageNext]_usageVars
  PROVE  KnownRecently'
<1>1. /\ UsageTypeOK /\ TTL \in Nat /\ Deadline \in Nat /\ Wait \in Nat /\ TTL >= 1
      /\ steady \in Nat /\ \A c \in Calls : waited[c] \in Nat
  BY TicksAreNat DEF CacheInv, UsageTypeOK, Long
<1> SUFFICES ASSUME NEW d \in Calls, pc'[d] = "known", Known(verdict'[d])
             PROVE  verdict'[d] = Says' \/ steady' < TTL + Deadline + waited'[d]
  BY DEF KnownRecently
<1>2. ASSUME UNCHANGED <<allowed, steady>>, waited'[d] = waited[d],
             pc[d] = "known" => verdict'[d] = verdict[d]
      PROVE  verdict'[d] = Says' \/ steady' < TTL + Deadline + waited'[d]
  <2>1. CASE pc[d] = "known"
    BY <1>2, <2>1 DEF KnownRecently, Says
  <2>2. CASE pc[d] # "known"
    <3>1. verdict'[d] = Says \/ steady < TTL + Deadline
      BY <2>2, LearnsRecently
    <3> QED
      BY <1>1, <1>2, <3>1 DEF Says
  <2> QED
    BY <2>1, <2>2
<1>3. ASSUME NEW c \in Calls, Cached(c) \/ Joins(c) \/ Request(c) \/ Observe(c)
      PROVE  verdict'[d] = Says' \/ steady' < TTL + Deadline + waited'[d]
  <2>1. UNCHANGED <<allowed, steady, waited>>
    BY <1>3 DEF Cached, Joins, Request, Observe, upstream
  <2>2. pc[d] = "known" => verdict'[d] = verdict[d]
    BY <1>1, <1>3 DEF Cached, Joins, Request, Observe, UsageTypeOK
  <2> QED
    BY <1>2, <2>1, <2>2
<1>4. ASSUME NEW c \in Calls, Arrives(c) \/ Fails(c)
      PROVE  verdict'[d] = Says' \/ steady' < TTL + Deadline + waited'[d]
  <2>1. UNCHANGED <<allowed, steady, waited>>
    BY <1>4 DEF Arrives, Fails, upstream
  <2>2. pc[d] = "known" => verdict'[d] = verdict[d]
    BY <1>4 DEF Arrives, Fails, Settle, Awaiting
  <2> QED
    BY <1>2, <2>1, <2>2
<1>5. ASSUME NEW c \in Calls, Decide(c)
      PROVE  verdict'[d] = Says' \/ steady' < TTL + Deadline + waited'[d]
  <2>1. d # c
    BY <1>1, <1>5 DEF Decide, UsageTypeOK
  <2>2. UNCHANGED <<allowed, steady>> /\ waited'[d] = waited[d] /\ verdict'[d] = verdict[d]
    BY <1>1, <1>5, <2>1 DEF Decide, upstream, UsageTypeOK
  <2> QED
    BY <1>2, <2>2
<1>6. CASE Reject \/ Limit \/ InvalidateUsage \/ ResetConfirmed \/ Forgotten \/ UNCHANGED usageVars
  BY <1>2, <1>6 DEF Reject, Limit, InvalidateUsage, ResetConfirmed, Forgotten, upstream, readers, usageVars
<1>7. CASE Redeem \/ QuotaChanges
  <2>1. UNCHANGED <<allowed, steady>> \/ steady' = 0
    BY <1>1, <1>7 DEF Redeem, QuotaChanges, UsageTypeOK
  <2>2. UNCHANGED readers
    BY <1>7 DEF Redeem, QuotaChanges
  <2>3. CASE UNCHANGED <<allowed, steady>>
    BY <1>2, <2>2, <2>3 DEF readers
  <2>4. CASE steady' = 0
    BY <1>1, <2>2, <2>4 DEF readers
  <2> QED
    BY <2>1, <2>3, <2>4
<1>8. CASE TimePasses
  <2>1. steady' <= steady + 1 /\ steady' \in Nat /\ UNCHANGED <<allowed, pc, verdict>>
    BY <1>1, <1>8 DEF TimePasses
  <2>2. waited'[d] = waited[d] + 1
    BY <1>8, <2>1 DEF TimePasses
  <2>3. verdict[d] = Says \/ steady < TTL + Deadline + waited[d]
    BY <2>1 DEF KnownRecently
  <2> QED
    BY <1>1, <2>1, <2>2, <2>3 DEF Says
<1>9. QED
  BY <1>3, <1>4, <1>5, <1>6, <1>7, <1>8 DEF UsageNext, Pick, Status, ForcedRead, ReadUsage

\* A call decides on what the upstream said less than TTL + Deadline + Wait ticks
\* ago: no chain of reads, forced requests and late answers keeps an outdated
\* admission alive (usage() and pick() in codex/accounts.ts and accounts.ts).
THEOREM UsageBoundedStaleness == UsageSpec => BoundedStaleness
<1>1. UsageInit => RecentlyTrue /\ KnownRecently
  BY DEF UsageInit, NoEntry, RecentlyTrue, KnownRecently, Known
<1>2. CacheInv /\ KnownRecently /\ [UsageNext]_usageVars =>
        [\A c \in Calls :
            (pc[c] = "known" /\ pc'[c] # "known" /\ Known(verdict[c])) =>
                \/ verdict[c] = (IF allowed THEN "allowed" ELSE "denied")
                \/ steady < Long]_usageVars
  <2> SUFFICES ASSUME CacheInv, KnownRecently, NEW c \in Calls, pc[c] = "known", Known(verdict[c])
               PROVE  verdict[c] = Says \/ steady < Long
    BY DEF Says
  <2>1. /\ TTL \in Nat /\ Deadline \in Nat /\ Wait \in Nat /\ steady \in Nat
        /\ waited[c] \in Nat /\ waited[c] <= Wait
    BY TicksAreNat DEF CacheInv, UsageTypeOK, Long
  <2> QED
    BY <2>1 DEF KnownRecently, Long
<1>3. QED
  BY <1>1, <1>2, CacheStarts, CacheKept, RecentlyTrueKept, KnownRecentlyKept, PTL
     DEF UsageSpec, BoundedStaleness
=============================================================================
