-------------------------- MODULE ResetCredits_proofs --------------------------
(***************************************************************************)
(* Redeeming reset credits, for any number of tabs and credits.  The heart *)
(* of the invariant is Pending: a request that the upstream may still      *)
(* process carries the id that its tab has in sessionStorage, so a tab     *)
(* without an id has nothing outstanding.                                  *)
(***************************************************************************)
EXTENDS ResetCredits, TLAPS

\* An id nobody has drawn was never sent.
Fresh(c, i) == owner[i] = Nothing => <<c, i>> \notin posts /\ results[<<c, i>>] = Nothing

\* A tab keeps only ids that it has drawn.
Kept(t, c) == storage[t][c] # Nothing => owner[storage[t][c]] = t

\* The id of the running request is the kept one.
Waiting(t) ==
    page[t] = "applying" =>
        chosen[t] \in Credits /\ awaited[t] \in Ids /\ storage[t][chosen[t]] = awaited[t]

\* A request that may still have an effect carries the kept id.
Pending(c, i) == <<c, i>> \in posts => storage[owner[i]][c] = i \/ results[<<c, i>>] # Nothing

\* The upstream's answers agree with its books.
Answered(c, i) ==
    /\ results[<<c, i>>] = "reset" <=> redeemed[c] = i
    /\ results[<<c, i>>] \in {"already_redeemed", "no_credit"} =>
           redeemed[c] # Nothing /\ owner[redeemed[c]] # owner[i]

\* A tab that redeemed a credit still keeps its id, or was told and offers the
\* credit no more.
Told(c) ==
    redeemed[c] # Nothing =>
        LET t == owner[redeemed[c]]
        IN  \/ storage[t][c] = redeemed[c]
            \/ storage[t][c] = Nothing /\ (page[t] = "reported" \/ c \notin options[t])

Reported(t) ==
    chosen[t] # Nothing =>
        /\ report[t] = "reset" => redeemed[chosen[t]] # Nothing /\ owner[redeemed[chosen[t]]] = t
        /\ report[t] \in {"already_redeemed", "no_credit"} =>
               redeemed[chosen[t]] # Nothing /\ owner[redeemed[chosen[t]]] # t

Inv ==
    /\ TypeOK
    /\ \A c \in Credits, i \in Ids : Fresh(c, i) /\ Pending(c, i) /\ Answered(c, i)
    /\ \A t \in Tabs, c \in Credits : Kept(t, c)
    /\ \A t \in Tabs : Waiting(t) /\ Reported(t)
    /\ \A c \in Credits : Told(c)

LEMMA InitInv == Init => Inv
<1> SUFFICES ASSUME Init PROVE Inv
  OBVIOUS
<1>1. TypeOK
  BY DEF Init, TypeOK
<1>2. ASSUME NEW c \in Credits, NEW i \in Ids PROVE Fresh(c, i) /\ Pending(c, i) /\ Answered(c, i)
  <2>1. results[<<c, i>>] = Nothing /\ redeemed[c] = Nothing /\ posts = {}
    BY DEF Init
  <2>2. Nothing \notin Codes /\ Nothing # i
    BY MaxIdsAssumption, NothingAssumption DEF Ids
  <2>3. Fresh(c, i) /\ Pending(c, i)
    BY <2>1 DEF Fresh, Pending
  <2>4. Answered(c, i)
    BY <2>1, <2>2 DEF Answered, Codes
  <2> QED
    BY <2>3, <2>4
<1>3. \A t \in Tabs, c \in Credits : Kept(t, c)
  BY DEF Init, Kept
<1>4. \A t \in Tabs : Waiting(t) /\ Reported(t)
  BY DEF Init, Waiting, Reported
<1>5. \A c \in Credits : Told(c)
  BY DEF Init, Told
<1> QED
  BY <1>1, <1>2, <1>3, <1>4, <1>5 DEF Inv

-----------------------------------------------------------------------------
(* The steps that leave the requests and the upstream alone *)

LEMMA PageStep ==
    ASSUME Inv, TypeOK', UNCHANGED <<storage, posts, owner, upstream>>,
           \A t \in Tabs : Waiting(t)' /\ Reported(t)',
           \A t \in Tabs : \/ UNCHANGED <<page[t], options[t]>>
                           \/ page[t] # "reported" /\ options'[t] \subseteq options[t]
                           \/ options'[t] \cap {c \in Credits : redeemed[c] # Nothing} = {}
    PROVE  Inv'
<1>1. ASSUME NEW c \in Credits, NEW i \in Ids PROVE (Fresh(c, i) /\ Pending(c, i) /\ Answered(c, i))'
  BY DEF Inv, Fresh, Pending, Answered, upstream
<1>2. ASSUME NEW t \in Tabs, NEW c \in Credits PROVE Kept(t, c)'
  BY DEF Inv, Kept
<1>3. ASSUME NEW c \in Credits PROVE Told(c)'
  <2>1. SUFFICES ASSUME redeemed[c] # Nothing PROVE Told(c)'
    BY DEF Told, upstream
  <2>2. redeemed[c] \in Ids
    BY <2>1 DEF Inv, TypeOK
  <2>3. results[<<c, redeemed[c]>>] = "reset"
    BY <2>2 DEF Inv, Answered
  <2>4. owner[redeemed[c]] \in Tabs
    BY <2>2, <2>3, NothingAssumption DEF Inv, Fresh, TypeOK, Codes
  <2> QED
    BY <2>1, <2>4 DEF Inv, Told, upstream
<1> QED
  BY <1>1, <1>2, <1>3 DEF Inv

-----------------------------------------------------------------------------
(* The steps that draw, send and drop an id *)

LEMMA ClickInv ==
    ASSUME Inv, NEW t \in Tabs, NEW c \in Credits, Click(t, c) PROVE Inv'
<1> USE NothingAssumption, MaxIdsAssumption
<1>0. PICK id : id = IF storage[t][c] # Nothing THEN storage[t][c] ELSE NewId
  OBVIOUS
<1>1. /\ id \in Ids /\ owner[id] \in {t, Nothing}
      /\ storage[t][c] # Nothing => id = storage[t][c] /\ owner[id] = t
      /\ storage[t][c] = Nothing => owner[id] = Nothing
  <2>1. CASE storage[t][c] # Nothing
    <3>1. Kept(t, c)
      BY DEF Inv
    <3>0. storage \in [Tabs -> [Credits -> Ids \cup {Nothing}]]
      BY DEF Inv, TypeOK
    <3>2. storage[t][c] \in Ids \cup {Nothing}
      BY <3>0
    <3>3. id = storage[t][c] /\ owner[storage[t][c]] = t
      BY <1>0, <2>1, <3>1 DEF Kept
    <3> QED
      BY <2>1, <3>2, <3>3
  <2>2. CASE storage[t][c] = Nothing
    <3>1. Unused # {} /\ id = NewId
      BY <1>0, <2>2 DEF Click
    <3>2. id \in Unused
      BY <3>1, Zenon DEF NewId
    <3> QED
      BY <2>2, <3>2 DEF Unused
  <2> QED
    BY <2>1, <2>2
<1>2. /\ page[t] = "loaded" /\ c \in options[t]
      /\ page' = [page EXCEPT ![t] = "applying"]
      /\ storage' = [storage EXCEPT ![t][c] = id]
      /\ owner' = [owner EXCEPT ![id] = t]
      /\ chosen' = [chosen EXCEPT ![t] = c]
      /\ report' = [report EXCEPT ![t] = ""]
      /\ awaited' = [awaited EXCEPT ![t] = id]
      /\ posts' = posts \cup {<<c, id>>}
      /\ UNCHANGED <<options, redeemed, results>>
  BY <1>0 DEF Click, Show, upstream
<1>3. TypeOK'
  BY <1>1, <1>2 DEF Inv, TypeOK
<1>4. \A i \in Ids : owner[i] # Nothing => owner'[i] = owner[i]
  BY <1>1, <1>2 DEF Inv, TypeOK
<1>5. ASSUME NEW d \in Credits, NEW i \in Ids PROVE Fresh(d, i)'
  BY <1>1, <1>2 DEF Inv, TypeOK, Fresh
<1>6. ASSUME NEW d \in Credits, NEW i \in Ids PROVE Pending(d, i)'
  <2>1. CASE d = c /\ i = id
    BY <1>1, <1>2, <2>1 DEF Inv, TypeOK, Pending
  <2>2. CASE ~(d = c /\ i = id)
    <3>1. <<d, i>> \in posts' => <<d, i>> \in posts
      BY <1>2, <2>2
    <3>2. <<d, i>> \in posts => owner'[i] = owner[i] /\ owner[i] \in Tabs
      BY <1>4 DEF Inv, Fresh, TypeOK
    <3>3. Pending(d, i)
      BY DEF Inv
    <3>4. CASE owner[i] = t /\ d = c
      <4>1. <<d, i>> \in posts => (storage[t][c] = i => id = i)
        BY <1>1, MaxIdsAssumption DEF Ids
      <4>2. <<d, i>> \in posts => results[<<d, i>>] # Nothing
        BY <2>2, <3>3, <3>4, <4>1 DEF Pending
      <4> QED
        BY <1>2, <3>1, <4>2 DEF Pending
    <3>5. CASE ~(owner[i] = t /\ d = c)
      <4>1. <<d, i>> \in posts => storage'[owner[i]][d] = storage[owner[i]][d]
        <5>1. storage \in [Tabs -> [Credits -> Ids \cup {Nothing}]]
          BY DEF Inv, TypeOK
        <5> QED
          BY <1>2, <3>2, <3>5, <5>1
      <4> QED
        BY <1>2, <3>1, <3>2, <3>3, <4>1 DEF Pending
    <3> QED
      BY <3>4, <3>5
  <2> QED
    BY <2>1, <2>2
<1>7. \A d \in Credits : redeemed[d] # Nothing => redeemed[d] \in Ids /\ owner[redeemed[d]] \in Tabs
  <2> SUFFICES ASSUME NEW d \in Credits, redeemed[d] # Nothing
               PROVE  redeemed[d] \in Ids /\ owner[redeemed[d]] \in Tabs
    OBVIOUS
  <2>1. redeemed[d] \in Ids
    BY DEF Inv, TypeOK
  <2>2. results[<<d, redeemed[d]>>] = "reset"
    BY <2>1 DEF Inv, Answered
  <2> QED
    BY <2>1, <2>2 DEF Inv, Fresh, TypeOK, Codes
<1>8. ASSUME NEW d \in Credits, NEW i \in Ids PROVE Answered(d, i)'
  <2>1. results[<<d, i>>] # Nothing => owner'[i] = owner[i]
    BY <1>4 DEF Inv, Fresh
  <2>2. redeemed[d] # Nothing => owner'[redeemed[d]] = owner[redeemed[d]]
    BY <1>4, <1>7
  <2>3. Answered(d, i)
    BY DEF Inv
  <2>4. (results[<<d, i>>] = "reset" <=> redeemed[d] = i)'
    BY <1>2, <2>3 DEF Answered
  <2>5. ASSUME results[<<d, i>>] \in {"already_redeemed", "no_credit"}
        PROVE  redeemed[d] # Nothing /\ owner'[redeemed[d]] # owner'[i]
    <3>1. results[<<d, i>>] # Nothing
      BY <2>5 DEF Codes
    <3> QED
      BY <2>1, <2>2, <2>3, <2>5, <3>1 DEF Answered
  <2> QED
    BY <1>2, <2>4, <2>5 DEF Answered
<1>9. ASSUME NEW u \in Tabs, NEW d \in Credits PROVE Kept(u, d)'
  <2>1. Kept(u, d) /\ storage \in [Tabs -> [Credits -> Ids \cup {Nothing}]] /\ owner \in [Ids -> Tabs \cup {Nothing}]
    BY DEF Inv, TypeOK
  <2>2. CASE u = t /\ d = c
    <3>1. storage'[u][d] = id /\ owner'[id] = t
      BY <1>1, <1>2, <2>1, <2>2
    <3> QED
      BY <2>2, <3>1 DEF Kept
  <2>3. CASE ~(u = t /\ d = c)
    <3>1. storage'[u][d] = storage[u][d]
      <4>1. CASE u # t
        BY <1>2, <2>1, <4>1
      <4>2. CASE u = t /\ d # c
        BY <1>2, <2>1, <4>2
      <4> QED
        BY <2>3, <4>1, <4>2
    <3>3. storage[u][d] \in Ids \cup {Nothing}
      BY <2>1
    <3>2. storage[u][d] # Nothing => owner[storage[u][d]] = u /\ u # Nothing
      BY <2>1 DEF Kept
    <3> QED
      BY <1>4, <3>1, <3>2, <3>3 DEF Kept
  <2> QED
    BY <2>2, <2>3
<1>10. ASSUME NEW u \in Tabs PROVE Waiting(u)'
  BY <1>1, <1>2 DEF Inv, Waiting, TypeOK
<1>11. ASSUME NEW u \in Tabs PROVE Reported(u)'
  <2>1. CASE u = t
    BY <1>2, <2>1 DEF Reported, Inv, TypeOK
  <2>2. CASE u # t
    <3>1. chosen'[u] = chosen[u] /\ report'[u] = report[u] /\ chosen[u] \in Credits \cup {Nothing}
      BY <1>2, <2>2 DEF Inv, TypeOK
    <3>2. chosen[u] # Nothing /\ redeemed[chosen[u]] # Nothing =>
              owner'[redeemed[chosen[u]]] = owner[redeemed[chosen[u]]]
      BY <1>4, <1>7, <3>1
    <3> QED
      BY <1>2, <3>1, <3>2 DEF Inv, Reported
  <2> QED
    BY <2>1, <2>2
<1>12. ASSUME NEW d \in Credits PROVE Told(d)'
  <2> SUFFICES ASSUME redeemed[d] # Nothing PROVE Told(d)'
    BY <1>2 DEF Told
  <2>1. PICK u \in Tabs : u = owner[redeemed[d]] /\ owner'[redeemed[d]] = u
    BY <1>4, <1>7
  <2>2. \/ storage[u][d] = redeemed[d]
        \/ storage[u][d] = Nothing /\ (page[u] = "reported" \/ d \notin options[u])
    BY <2>1 DEF Inv, Told
  <2>3. CASE u = t /\ d = c
    BY <1>1, <1>2, <2>1, <2>2, <2>3 DEF Inv, TypeOK, Told
  <2>4. CASE ~(u = t /\ d = c)
    <3>1. storage'[u][d] = storage[u][d]
      BY <1>2, <2>4 DEF Inv, TypeOK
    <3>2. page[u] = "reported" => page'[u] = "reported"
      BY <1>2 DEF Inv, TypeOK
    <3> QED
      BY <1>2, <2>1, <2>2, <3>1, <3>2 DEF Told
  <2> QED
    BY <2>3, <2>4
<1> QED
  BY <1>3, <1>5, <1>6, <1>8, <1>9, <1>10, <1>11, <1>12 DEF Inv

LEMMA ResultInv ==
    ASSUME Inv, NEW t \in Tabs, Result(t) PROVE Inv'
<1> USE NothingAssumption, MaxIdsAssumption
<1>0. PICK c \in Credits, id \in Ids : c = chosen[t] /\ id = awaited[t] /\ storage[t][c] = id
  BY DEF Result, Inv, Waiting
<1>1. /\ results[<<c, id>>] # Nothing /\ page[t] = "applying" /\ owner[id] = t
      /\ page' = [page EXCEPT ![t] = "reported"]
      /\ storage' = [storage EXCEPT ![t][c] = Nothing]
      /\ report' = [report EXCEPT ![t] = results[<<c, id>>]]
      /\ awaited' = [awaited EXCEPT ![t] = Nothing]
      /\ UNCHANGED <<options, chosen, posts, owner, redeemed, results>>
  <2>1. Kept(t, c) /\ id # Nothing
    BY DEF Inv, Ids
  <2> QED
    BY <1>0, <2>1 DEF Result, Show, upstream, Kept
<1>2. TypeOK'
  BY <1>1 DEF Inv, TypeOK
<1>3. ASSUME NEW d \in Credits, NEW i \in Ids PROVE Fresh(d, i)' /\ Answered(d, i)'
  BY <1>1 DEF Inv, Fresh, Answered
<1>4. ASSUME NEW d \in Credits, NEW i \in Ids PROVE Pending(d, i)'
  <2>1. CASE d = c /\ owner[i] = t
    BY <1>0, <1>1, <2>1 DEF Inv, Pending
  <2>2. CASE ~(d = c /\ owner[i] = t)
    <3>1. <<d, i>> \in posts => owner[i] \in Tabs
      BY DEF Inv, Fresh, TypeOK
    <3> QED
      BY <1>1, <2>2, <3>1 DEF Inv, Pending, TypeOK
  <2> QED
    BY <2>1, <2>2
<1>5. ASSUME NEW u \in Tabs, NEW d \in Credits PROVE Kept(u, d)'
  BY <1>1 DEF Inv, Kept, TypeOK
<1>6. ASSUME NEW u \in Tabs PROVE Waiting(u)'
  BY <1>1 DEF Inv, Waiting, TypeOK
<1>7. ASSUME NEW u \in Tabs PROVE Reported(u)'
  <2>1. CASE u = t
    <3>1. chosen'[u] = c /\ report'[u] = results[<<c, id>>]
      BY <1>0, <1>1, <2>1 DEF Inv, TypeOK
    <3>2. Answered(c, id)
      BY DEF Inv
    <3>3. results[<<c, id>>] = "reset" => redeemed[c] # Nothing /\ owner[redeemed[c]] = t
      BY <1>1, <3>2 DEF Answered, Ids
    <3>4. results[<<c, id>>] \in {"already_redeemed", "no_credit"} =>
               redeemed[c] # Nothing /\ owner[redeemed[c]] # t
      BY <1>1, <3>2 DEF Answered
    <3> QED
      BY <1>1, <2>1, <3>1, <3>3, <3>4 DEF Reported
  <2>2. CASE u # t
    BY <1>1, <2>2 DEF Inv, Reported, TypeOK
  <2> QED
    BY <2>1, <2>2
<1>8. ASSUME NEW d \in Credits PROVE Told(d)'
  <2> SUFFICES ASSUME redeemed[d] # Nothing PROVE Told(d)'
    BY <1>1 DEF Told
  <2>0. redeemed[d] \in Ids /\ owner[redeemed[d]] \in Tabs
    <3>1. redeemed[d] \in Ids
      BY DEF Inv, TypeOK
    <3>2. results[<<d, redeemed[d]>>] = "reset"
      BY <3>1 DEF Inv, Answered
    <3> QED
      BY <3>1, <3>2 DEF Inv, Fresh, TypeOK, Codes
  <2>1. PICK u \in Tabs : u = owner[redeemed[d]]
    BY <2>0
  <2>2. \/ storage[u][d] = redeemed[d]
        \/ storage[u][d] = Nothing /\ (page[u] = "reported" \/ d \notin options[u])
    BY <2>1 DEF Inv, Told
  <2>3. CASE u = t
    BY <1>1, <2>1, <2>2, <2>3 DEF Inv, TypeOK, Told
  <2>4. CASE u # t
    BY <1>1, <2>1, <2>2, <2>4 DEF Inv, TypeOK, Told
  <2> QED
    BY <2>3, <2>4
<1> QED
  BY <1>2, <1>3, <1>4, <1>5, <1>6, <1>7, <1>8 DEF Inv

LEMMA UpstreamInv ==
    ASSUME Inv, NEW c \in Credits, NEW id \in Ids, Process(c, id) \/ Lost(c, id) PROVE Inv'
<1> USE NothingAssumption, MaxIdsAssumption
<1>1. <<c, id>> \in posts /\ posts' \subseteq posts /\ UNCHANGED <<browser, owner>>
  BY DEF Process, Lost
<1>2. owner[id] \in Tabs
  BY <1>1 DEF Inv, Fresh, TypeOK
<1>3. ASSUME UNCHANGED upstream PROVE Inv'
  <2>1. TypeOK'
    BY <1>1, <1>3 DEF upstream, browser, Inv, TypeOK
  <2>2. ASSUME NEW d \in Credits, NEW i \in Ids PROVE Fresh(d, i)' /\ Pending(d, i)'
    BY <1>1, <1>3 DEF upstream, browser, Inv, Fresh, Pending
  <2>3. ASSUME NEW d \in Credits, NEW i \in Ids PROVE Answered(d, i)'
    BY <1>1, <1>3 DEF upstream, Inv, Answered
  <2>4. ASSUME NEW t \in Tabs PROVE Waiting(t)' /\ \A d \in Credits : Kept(t, d)'
    BY <1>1 DEF browser, Inv, Waiting, Kept
  <2>5. ASSUME NEW t \in Tabs PROVE Reported(t)'
    BY <1>1, <1>3 DEF upstream, browser, Inv, Reported
  <2>6. ASSUME NEW d \in Credits PROVE Told(d)'
    BY <1>1, <1>3 DEF upstream, browser, Inv, Told
  <2> QED
    BY <2>1, <2>2, <2>3, <2>4, <2>5, <2>6 DEF Inv
<1>4. ASSUME results[<<c, id>>] = Nothing, NEW code \in Codes,
             results' = [results EXCEPT ![<<c, id>>] = code],
             \/ code = "reset" /\ redeemed[c] = Nothing /\ redeemed' = [redeemed EXCEPT ![c] = id]
             \/ code = "nothing_to_reset" /\ UNCHANGED redeemed
             \/ /\ code \in {"no_credit", "already_redeemed"}
                /\ redeemed[c] # Nothing /\ UNCHANGED redeemed
      PROVE  Inv'
  <2>1. TypeOK'
    BY <1>1, <1>4 DEF Inv, TypeOK, browser
  <2>2. \A d \in Credits : redeemed[d] # Nothing => redeemed'[d] = redeemed[d]
    BY <1>4 DEF Inv, TypeOK
  <2>3. storage[owner[id]][c] = id
    BY <1>1, <1>4 DEF Inv, Pending
  <2>4. \A d \in Credits, i \in Ids : <<d, i>> # <<c, id>> => results'[<<d, i>>] = results[<<d, i>>]
    BY <1>4 DEF Inv, TypeOK
  <2>5. results'[<<c, id>>] = code
    BY <1>4 DEF Inv, TypeOK
  <2>6. ASSUME NEW d \in Credits, NEW i \in Ids PROVE Fresh(d, i)'
    BY <1>1, <1>2, <2>4 DEF Inv, Fresh
  <2>7. ASSUME NEW d \in Credits, NEW i \in Ids PROVE Pending(d, i)'
    BY <1>1, <2>4, <2>5 DEF Inv, Pending, browser, Codes
  <2>8. code \in {"no_credit", "already_redeemed"} => owner[redeemed[c]] # owner[id]
    <3> SUFFICES ASSUME redeemed[c] # Nothing, owner[redeemed[c]] = owner[id] PROVE FALSE
      BY <1>4
    <3>1. redeemed[c] = id
      BY <2>3 DEF Inv, Told, Ids
    <3> QED
      BY <1>4, <3>1 DEF Inv, Answered, Codes
  <2>9. ASSUME NEW d \in Credits, NEW i \in Ids PROVE Answered(d, i)'
    <3>1. CASE d = c /\ i = id
      <4>1. code = "reset" <=> redeemed'[c] = id
        <5>1. redeemed[c] # id
          BY <1>4 DEF Inv, Answered, Codes
        <5> QED
          BY <1>4, <5>1 DEF Inv, TypeOK
      <4> QED
        BY <1>1, <1>4, <2>2, <2>5, <2>8, <3>1, <4>1 DEF Answered
    <3>2. CASE ~(d = c /\ i = id)
      <4>1. results'[<<d, i>>] = results[<<d, i>>]
        BY <2>4, <3>2
      <4>2. results[<<d, i>>] = "reset" <=> redeemed[d] = i
        BY DEF Inv, Answered
      <4>3. redeemed'[d] = i <=> redeemed[d] = i
        <5>1. CASE d # c
          BY <1>4, <5>1 DEF Inv, TypeOK
        <5>2. CASE d = c /\ code # "reset"
          BY <1>4, <5>2
        <5>3. CASE d = c /\ code = "reset"
          <6>1. redeemed'[d] = id /\ redeemed[d] = Nothing
            BY <1>4, <5>3 DEF Inv, TypeOK
          <6> QED
            BY <3>2, <5>3, <6>1 DEF Ids
        <5> QED
          BY <5>1, <5>2, <5>3
      <4> QED
        <5>1. Answered(d, i)
          BY DEF Inv
        <5> QED
          BY <1>1, <2>2, <4>1, <4>2, <4>3, <5>1 DEF Answered
    <3> QED
      BY <3>1, <3>2
  <2>10. ASSUME NEW u \in Tabs PROVE Waiting(u)' /\ \A d \in Credits : Kept(u, d)'
    BY <1>1 DEF Inv, Waiting, Kept, browser
  <2>11. ASSUME NEW u \in Tabs PROVE Reported(u)'
    <3>1. Reported(u) /\ chosen[u] \in Credits \cup {Nothing}
      BY DEF Inv, TypeOK
    <3>2. chosen' = chosen /\ report' = report /\ owner' = owner
      BY <1>1 DEF browser
    <3>3. chosen[u] # Nothing /\ redeemed[chosen[u]] # Nothing => redeemed'[chosen[u]] = redeemed[chosen[u]]
      BY <2>2, <3>1
    <3> QED
      BY <3>1, <3>2, <3>3 DEF Reported
  <2>12. ASSUME NEW d \in Credits PROVE Told(d)'
    <3>1. CASE redeemed'[d] = redeemed[d]
      BY <1>1, <3>1 DEF Inv, Told, browser
    <3>2. CASE redeemed'[d] # redeemed[d]
      BY <1>1, <1>4, <2>3, <3>2 DEF Told, browser, Inv, TypeOK
    <3> QED
      BY <3>1, <3>2
  <2> QED
    BY <2>1, <2>6, <2>7, <2>9, <2>10, <2>11, <2>12 DEF Inv
<1> QED
  BY <1>3, <1>4 DEF Process, Lost, upstream, Codes

LEMMA StepInv == Inv /\ [Next]_vars => Inv'
<1> SUFFICES ASSUME Inv, [Next]_vars PROVE Inv'
  OBVIOUS
<1>1. ASSUME NEW t \in Tabs, Open(t) PROVE Inv'
  <2>1. TypeOK'
    BY <1>1 DEF Open, Show, Available, Inv, TypeOK, upstream
  <2>2. \A u \in Tabs : Waiting(u)' /\ Reported(u)'
    BY <1>1 DEF Open, Show, Inv, TypeOK, Waiting, Reported, upstream
  <2>3. \A u \in Tabs : \/ UNCHANGED <<page[u], options[u]>>
                        \/ options'[u] \cap {c \in Credits : redeemed[c] # Nothing} = {}
    BY <1>1 DEF Open, Show, Available, Inv, TypeOK
  <2> QED
    BY <1>1, <2>1, <2>2, <2>3, PageStep DEF Open
<1>2. ASSUME NEW t \in Tabs, Loaded(t) PROVE Inv'
  <2>1. TypeOK'
    BY <1>2 DEF Loaded, Show, Inv, TypeOK, upstream
  <2>2. \A u \in Tabs : Waiting(u)' /\ Reported(u)'
    BY <1>2 DEF Loaded, Show, Inv, TypeOK, Waiting, Reported, upstream
  <2>3. \A u \in Tabs : \/ UNCHANGED <<page[u], options[u]>>
                        \/ page[u] # "reported" /\ options'[u] \subseteq options[u]
    BY <1>2 DEF Loaded, Show, Inv, TypeOK
  <2> QED
    BY <1>2, <2>1, <2>2, <2>3, PageStep DEF Loaded
<1>3. ASSUME NEW t \in Tabs, LoadFails(t) PROVE Inv'
  <2>1. TypeOK'
    BY <1>3 DEF LoadFails, Show, Inv, TypeOK, upstream
  <2>2. \A u \in Tabs : Waiting(u)' /\ Reported(u)'
    BY <1>3 DEF LoadFails, Show, Inv, TypeOK, Waiting, Reported, upstream
  <2>3. \A u \in Tabs : \/ UNCHANGED <<page[u], options[u]>>
                        \/ page[u] # "reported" /\ options'[u] \subseteq options[u]
    BY <1>3 DEF LoadFails, Show, Inv, TypeOK
  <2> QED
    BY <1>3, <2>1, <2>2, <2>3, PageStep DEF LoadFails
<1>4. ASSUME NEW t \in Tabs, Fails(t) PROVE Inv'
  <2>1. TypeOK'
    BY <1>4 DEF Fails, AfterFailure, Show, Inv, TypeOK, upstream
  <2>2. \A u \in Tabs : Waiting(u)' /\ Reported(u)'
    BY <1>4 DEF Fails, AfterFailure, Show, Inv, TypeOK, Waiting, Reported, upstream
  <2>3. \A u \in Tabs : \/ UNCHANGED <<page[u], options[u]>>
                        \/ page[u] # "reported" /\ options'[u] \subseteq options[u]
    BY <1>4 DEF Fails, Show, Inv, TypeOK
  <2> QED
    BY <1>4, <2>1, <2>2, <2>3, PageStep DEF Fails, AfterFailure
<1>5. ASSUME NEW t \in Tabs, Reload(t) PROVE Inv'
  <2>1. TypeOK'
    BY <1>5 DEF Reload, Show, Inv, TypeOK, upstream
  <2>2. \A u \in Tabs : Waiting(u)' /\ Reported(u)'
    BY <1>5 DEF Reload, Show, Inv, TypeOK, Waiting, Reported, upstream
  <2>3. \A u \in Tabs : \/ UNCHANGED <<page[u], options[u]>>
                        \/ options'[u] \cap {c \in Credits : redeemed[c] # Nothing} = {}
    BY <1>5 DEF Reload, Show, Inv, TypeOK
  <2> QED
    BY <1>5, <2>1, <2>2, <2>3, PageStep DEF Reload
<1>6. ASSUME NEW t \in Tabs, NEW c \in Credits, Click(t, c) PROVE Inv'
  BY <1>6, ClickInv
<1>7. ASSUME NEW t \in Tabs, Result(t) PROVE Inv'
  BY <1>7, ResultInv
<1>8. ASSUME NEW c \in Credits, NEW i \in Ids, Process(c, i) \/ Lost(c, i) PROVE Inv'
  BY <1>8, UpstreamInv
<1>9. CASE UNCHANGED vars
  <2>1. TypeOK'
    BY <1>9 DEF vars, browser, upstream, Inv, TypeOK
  <2>2. \A t \in Tabs : Waiting(t)' /\ Reported(t)'
    BY <1>9 DEF vars, browser, upstream, Inv, Waiting, Reported
  <2> QED
    BY <1>9, <2>1, <2>2, PageStep DEF vars, browser
<1> QED
  BY <1>1, <1>2, <1>3, <1>4, <1>5, <1>6, <1>7, <1>8, <1>9 DEF Next

\* Every variable of the pages, the requests and the upstream keeps its type.
THEOREM CreditsTyped == Spec => []TypeOK
<1>1. Inv => TypeOK
  BY DEF Inv
<1> QED
  BY <1>1, InitInv, StepInv, PTL DEF Spec

\* What a page says of a credit is true of the click it answers, however many
\* requests, answers and reloads were lost or repeated before.
THEOREM ReportsTrue == Spec => []ReportTrue
<1>1. Inv => ReportTrue
  BY DEF Inv, Reported, ReportTrue
<1> QED
  BY <1>1, InitInv, StepInv, PTL DEF Spec

\* A tab draws a new id for a credit only when none of the requests it sent for
\* this credit can still redeem it.
THEOREM KeysSettled == Spec => OneIdAtATime
<1> DEFINE Settled ==
        \A t \in Tabs, c \in Credits :
            storage'[t][c] \notin {Nothing, storage[t][c]} =>
                \A i \in Ids : owner[i] = t /\ <<c, i>> \in posts => results[<<c, i>>] # Nothing
<1>1. Inv /\ [Next]_vars => Settled
  <2> SUFFICES ASSUME Inv, [Next]_vars, NEW t \in Tabs, NEW c \in Credits,
                      storage'[t][c] \notin {Nothing, storage[t][c]},
                      NEW i \in Ids, owner[i] = t, <<c, i>> \in posts, results[<<c, i>>] = Nothing
               PROVE  FALSE
    OBVIOUS
  <2>1. storage[t][c] = i
    BY DEF Inv, Pending
  <2>2. storage' # storage
    OBVIOUS
  <2>3. CASE \E u \in Tabs, d \in Credits : Click(u, d)
    <3>1. PICK u \in Tabs, d \in Credits : Click(u, d)
      BY <2>3
    <3>2. storage \in [Tabs -> [Credits -> Ids \cup {Nothing}]]
      BY DEF Inv, TypeOK
    <3>3. CASE u = t /\ d = c
      <4>1. storage' = [storage EXCEPT ![t][c] = i]
        <5>1. Click(t, c) /\ storage[t][c] # Nothing
          BY <2>1, <3>1, <3>3, MaxIdsAssumption, NothingAssumption DEF Ids
        <5>2. storage' = [storage EXCEPT ![t][c] = storage[t][c]]
          BY <5>1, Zenon DEF Click
        <5> QED
          BY <2>1, <5>2
      <4>2. storage'[t][c] = i
        BY <3>2, <4>1
      <4> QED
        BY <2>1, <4>2
    <3>4. CASE ~(u = t /\ d = c)
      <4>1. PICK id : storage' = [storage EXCEPT ![u][d] = id]
        BY <3>1 DEF Click
      <4> QED
        BY <3>2, <3>4, <4>1
    <3> QED
      BY <3>3, <3>4
  <2>4. CASE \E u \in Tabs : Result(u)
    <3>1. PICK u \in Tabs : storage' = [storage EXCEPT ![u][chosen[u]] = Nothing]
      BY <2>4 DEF Result
    <3>2. storage \in [Tabs -> [Credits -> Ids \cup {Nothing}]]
      BY DEF Inv, TypeOK
    <3> QED
      BY <3>1, <3>2
  <2> QED
    BY <2>2, <2>3, <2>4 DEF Next, vars, browser, Open, Loaded, LoadFails, Fails, AfterFailure, Reload, Process, Lost
<1>2. Settled => [Settled]_vars
  OBVIOUS
<1> QED
  BY <1>1, InitInv, StepInv, PTL DEF Spec, OneIdAtATime
=============================================================================
