----------------------------- MODULE ResetCredits -----------------------------
(***************************************************************************)
(* Redeeming the reset credits of one Codex account: the dashboard pages   *)
(* (one per browser tab), the admin routes, and the upstream.  A request   *)
(* whose answer is lost may be processed before, after, or never; the page *)
(* keeps its redeem_request_id in sessionStorage until it knows the result.*)
(*                                                                         *)
(* The upstream is external: a credit is redeemed once, and what it        *)
(* answers to a redeem_request_id for a credit is always the same.         *)
(***************************************************************************)
EXTENDS Naturals, FiniteSets

CONSTANTS
    Tabs,
    Credits,
    MaxIds,     \* bound: the UUIDs the tabs may draw
    Nothing

Ids == 1..MaxIds
Codes == {"reset", "nothing_to_reset", "no_credit", "already_redeemed"}

ASSUME MaxIdsAssumption == MaxIds \in Nat
ASSUME NothingAssumption == Nothing \notin Nat \cup Tabs \cup Credits \cup Codes

VARIABLES
    storage,    \* sessionStorage of a tab: "codex-reset:<account>:<credit>"
    page,       \* a tab's page: "closed", "loading", "loaded", "applying", "reported"
    options,    \* the credits its list offers
    chosen,     \* the credit it applies, or reports on
    report,     \* what its output says
    posts,      \* consume requests upstream has not processed: credit and id
    awaited,    \* the id of the request a page still waits for
    owner,      \* the tab that drew an id
    redeemed,   \* upstream: the id that redeemed each credit
    results     \* upstream: its answers, by credit and id

browser == <<storage, page, options, chosen, report, awaited>>
upstream == <<redeemed, results>>
vars == <<browser, posts, owner, upstream>>

TypeOK ==
    /\ storage \in [Tabs -> [Credits -> Ids \cup {Nothing}]]
    /\ page \in [Tabs -> {"closed", "loading", "loaded", "applying", "reported"}]
    /\ options \in [Tabs -> SUBSET Credits]
    /\ chosen \in [Tabs -> Credits \cup {Nothing}]
    /\ report \in [Tabs -> Codes \cup {"", "error"}]
    /\ awaited \in [Tabs -> Ids \cup {Nothing}]
    /\ posts \subseteq Credits \X Ids
    /\ owner \in [Ids -> Tabs \cup {Nothing}]
    /\ redeemed \in [Credits -> Ids \cup {Nothing}]
    /\ results \in [Credits \X Ids -> Codes \cup {Nothing}]

Init ==
    /\ storage = [t \in Tabs |-> [c \in Credits |-> Nothing]]
    /\ page = [t \in Tabs |-> "closed"]
    /\ options = [t \in Tabs |-> {}]
    /\ chosen = [t \in Tabs |-> Nothing]
    /\ report = [t \in Tabs |-> ""]
    /\ awaited = [t \in Tabs |-> Nothing]
    /\ posts = {}
    /\ owner = [i \in Ids |-> Nothing]
    /\ redeemed = [c \in Credits |-> Nothing]
    /\ results = [r \in Credits \X Ids |-> Nothing]

-----------------------------------------------------------------------------
(* The page *)

Show(t, label) == page' = [page EXCEPT ![t] = label]

Available == {c \in Credits : redeemed[c] = Nothing}

\* toggle: the list is requested once.
Open(t) ==
    /\ page[t] = "closed"
    /\ Show(t, "loading")
    /\ options' = [options EXCEPT ![t] = Available]
    /\ UNCHANGED <<storage, chosen, report, awaited, posts, owner, upstream>>

\* The answer lists the credits that were available at some time since then.
Loaded(t) ==
    /\ page[t] = "loading"
    /\ Show(t, "loaded")
    /\ \E listed \in SUBSET options[t] :
           Available \subseteq listed /\ options' = [options EXCEPT ![t] = listed]
    /\ UNCHANGED <<storage, chosen, report, awaited, posts, owner, upstream>>

\* The request failed: the list can be opened again.
LoadFails(t) ==
    /\ page[t] = "loading"
    /\ Show(t, "closed")
    /\ options' = [options EXCEPT ![t] = {}]
    /\ UNCHANGED <<storage, chosen, report, awaited, posts, owner, upstream>>

Unused == {i \in Ids : owner[i] = Nothing}
NewId == CHOOSE i \in Unused : TRUE

\* click: the id of an attempt whose outcome is unknown, or a new one, is stored
\* before the request is sent.
Click(t, c) ==
    LET known == storage[t][c]
        id == IF known # Nothing THEN known ELSE NewId
    IN  /\ page[t] = "loaded" /\ c \in options[t]
        /\ known # Nothing \/ Unused # {}
        /\ Show(t, "applying")
        /\ storage' = [storage EXCEPT ![t][c] = id]
        /\ owner' = [owner EXCEPT ![id] = t]
        /\ chosen' = [chosen EXCEPT ![t] = c]
        /\ report' = [report EXCEPT ![t] = ""]
        /\ awaited' = [awaited EXCEPT ![t] = id]
        /\ posts' = posts \cup {<<c, id>>}
        /\ UNCHANGED <<options, upstream>>

\* Bug: the id is forgotten as soon as the request has ended.
BugAfterFailure(t) == [storage EXCEPT ![t][chosen[t]] = Nothing]

\* A failure of unknown outcome keeps the id.
AfterFailure(t) == storage

\* The result arrives: it is reported, the id is dropped, the button stays
\* disabled until the page reloads.
Result(t) ==
    LET result == results[<<chosen[t], awaited[t]>>]
    IN  /\ page[t] = "applying" /\ result # Nothing
        /\ Show(t, "reported")
        /\ storage' = [storage EXCEPT ![t][chosen[t]] = Nothing]
        /\ report' = [report EXCEPT ![t] = result]
        /\ awaited' = [awaited EXCEPT ![t] = Nothing]
        /\ UNCHANGED <<options, chosen, posts, owner, upstream>>

\* A timeout, a lost answer, an error of the proxy, an unknown code: the
\* button works again.
Fails(t) ==
    /\ page[t] = "applying"
    /\ Show(t, "loaded")
    /\ storage' = AfterFailure(t)
    /\ report' = [report EXCEPT ![t] = "error"]
    /\ awaited' = [awaited EXCEPT ![t] = Nothing]
    /\ UNCHANGED <<options, chosen, posts, owner, upstream>>

\* location.reload(), by the page's timers or the user: only sessionStorage
\* survives; a request that runs goes on.
Reload(t) ==
    /\ page[t] # "closed"
    /\ Show(t, "closed")
    /\ options' = [options EXCEPT ![t] = {}]
    /\ chosen' = [chosen EXCEPT ![t] = Nothing]
    /\ report' = [report EXCEPT ![t] = ""]
    /\ awaited' = [awaited EXCEPT ![t] = Nothing]
    /\ UNCHANGED <<storage, posts, owner, upstream>>

-----------------------------------------------------------------------------
(* Proxy and upstream *)

\* A request reaches the upstream: Accounts.consumeReset().  It stays in
\* posts when the proxy sends it a second time, after a 401.
Process(c, id) ==
    /\ <<c, id>> \in posts
    /\ posts' \in {posts, posts \ {<<c, id>>}}
    /\ IF results[<<c, id>>] # Nothing THEN UNCHANGED upstream
       ELSE \/ /\ redeemed[c] = Nothing
               /\ redeemed' = [redeemed EXCEPT ![c] = id]
               /\ results' = [results EXCEPT ![<<c, id>>] = "reset"]
            \/ /\ redeemed[c] = Nothing
               /\ results' = [results EXCEPT ![<<c, id>>] = "nothing_to_reset"]
               /\ UNCHANGED redeemed
            \/ /\ redeemed[c] # Nothing
               /\ \E code \in {"no_credit", "already_redeemed"} :
                      results' = [results EXCEPT ![<<c, id>>] = code]
               /\ UNCHANGED redeemed
    /\ UNCHANGED <<browser, owner>>

\* A request that never reaches the upstream.
Lost(c, id) ==
    /\ <<c, id>> \in posts
    /\ posts' = posts \ {<<c, id>>}
    /\ UNCHANGED <<browser, owner, upstream>>

Next ==
    \/ \E t \in Tabs : Open(t) \/ Loaded(t) \/ LoadFails(t) \/ Result(t) \/ Fails(t) \/ Reload(t)
    \/ \E t \in Tabs, c \in Credits : Click(t, c)
    \/ \E c \in Credits, id \in Ids : Process(c, id) \/ Lost(c, id)

Spec == Init /\ [][Next]_vars

-----------------------------------------------------------------------------
(* Properties *)

\* "Keep the idempotency key after an ambiguous failure, including across page
\* reloads": when a tab draws an id for a credit, no request that it sent for
\* this credit with another id can still redeem it.
OneIdAtATime ==
    [][\A t \in Tabs, c \in Credits :
        storage'[t][c] \notin {Nothing, storage[t][c]} =>
            \A i \in Ids : owner[i] = t /\ <<c, i>> \in posts => results[<<c, i>>] # Nothing]_vars

\* What the page reports is the truth about the user's own click: it never
\* says that somebody else has redeemed a credit that this tab redeemed
\* without having been told so, and "reset" only if this tab redeemed it.
ReportTrue ==
    \A t \in Tabs :
        LET by == redeemed[chosen[t]]
        IN  chosen[t] # Nothing =>
            /\ report[t] = "reset" => owner[by] = t
            /\ report[t] \in {"already_redeemed", "no_credit"} => owner[by] # t
=============================================================================
