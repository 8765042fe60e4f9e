# Specifications of oauthproxy

oauthproxy serves Claude, Codex and ChatGPT requests with OAuth accounts it
stores on disk. It refreshes rotating tokens, picks an account with quota for
each session, and moves a request to another account after a confirmed quota
rejection. These TLA+ modules model the parts of `src/src` where the order of
asynchronous steps decides whether that works.

## The system

| Component | State | Operations | What makes it hard |
|---|---|---|---|
| Account stores (`store.ts`, `codex/store.ts`, `chatgpt/store.ts`) | one JSON file per provider, a lock directory | `read`, `update` | several processes (server and CLI), crash with the lock held, whole-file rewrite, a deadline for the lock wait |
| Token lifecycle (`token`, `authorized`, `startRefresh`, `add`, `remove` of the three `Accounts`) | the records: access, refresh token, disabled | refresh, retry after 401, disable after `invalid_grant` | the refresh token rotates: using it twice kills it |
| `AccountSocket` and `NativeRelay` | the current upstream, a promise chain of frames and replays, pending requests, `started`, `attempted` | `send`, `receive`, `replace`, `close` | events arrive between the awaits of a job; a rejection may be hidden and replayed; the client may leave in a handshake |
| `SessionBindings` | a map and one record file per (session, model); the tail of each promise chain | `select` | concurrent first turns, failed writes, restarts |
| HTTP failover (`quotaFailover`, the loop in `proxy.ts`) | the accounts already tried | choose, execute, retry | cooldowns that end meanwhile, a selection that fails after a rejection |
| Selection (`choose`, `pick`, `limit` of the three `Accounts`) | cooldowns, usage and model caches | filter, prefer the bound account, mark as limited | caches filled before a limit or a reset and stored after it |
| Conversation history (`history-store.ts`, `history.ts`) | an LRU of 1024 entries, object and reference files | `get`, `put` | a crash between object and reference |
| SSE streams (`responses-events.ts`, `message-stream.ts`, `bootstrap`) | a text buffer | observe events, end of stream | chunk boundaries, oversized events |
| Admin and logins (`admin.ts`, `oauth.ts`, ...) | one-use codes, login flows with a deadline | start, complete, GET, expiry | a code used twice, a flow that expires in use |
| Reset credits (`dashboard-resets.ts`, `admin.ts`, `consumeReset`) | idempotency keys in sessionStorage | list, click, report, reload | a request of unknown outcome is repeated, or not |
| Statistics (`stats.ts`) | counters | start, done | one request counted twice |
| Request shaping, signing, dashboard pages, CLI parsing | none | pure functions | not concurrent |

The parts meet as follows. An HTTP turn (`proxy.ts`, `codex/sse.ts`,
`chatgpt/proxy.ts`) asks `choose`, which runs `pick` inside
`SessionBindings.select`; `pick` and the execution use `token()` and so the
account store. After a rejection the turn calls `limit` and chooses again.
Each attempt is counted by `Stats.http()`, which wraps its body; on its way to
the client the body passes `bootstrap`, `observeEvents` or `relayMessage`. A
WebSocket (`upgrade`) chooses without a session; its `AccountSocket` chooses
again when its account is exhausted, and the observer of each upstream
connection calls `limit` and `AccountSocket.limited`. All of this runs on one
event loop per process; only the account stores are shared by processes.

What is hard is always the same: a value read before an `await` and used after
it, a step that fails or a process that dies between two others, an answer that
comes late, and waiting that must end. `PROJECT.json` lists these hazards at
their lines, with the properties that cover them; those without a property say
what is missing.

## The modules

`Vault` and `AccountStore` are one provider's accounts file, `AccountSocket` is
one client WebSocket, `Failover` composes the HTTP turns with `SessionBindings`,
`Responses` composes `EventStream` and `MessageStream` with `Stats`, and
`UsageCache`, `Quota`, `HistoryStore`, `AdminFlows` and `ResetCredits` stand
alone. An `MC...` module gives the constants of a module values; a `.cfg` is one
run. Operators named `Bug...` are mistakes the code does not make; nothing uses
them, they are there to see that each property can fail.

### Vault and AccountStore

`Vault` promises what readers of the file see: one account changes at a time, by
a login, a removal, a refresh of an enabled account to newer tokens, or its
disabling; or an import (`chatgpt accounts import`) replaces or adds the accounts
of another file at once and keeps the others. `AccountStore` is how the code gets there. `file` is the parsed JSON,
`lock` the lock directory with its owner, and a call goes through

    idle -> read -> lock -> load -> refresh -> commit -> unlock -> done

where `read` is `token()`'s look outside the lock, `load` reads and changes the
data under the lock, `refresh` awaits the OAuth server, and `commit` writes and
renames. `Read` and `LoadToken` hold the two freshness checks. `CallThrows` is a
read or a `mkdir` that fails, `UnlockFails` the `rm` in `finally`, which leaves the
directory although its owner lives. `BeginImport` takes any file of `Copies`:
records that this or another host (`LoginElsewhere`) stored before, older or
disabled ones too, but not the tokens of a login that a running `add()` alone has;
`Merged` is the import's change. The environment
is the OAuth server: it numbers the tokens of an account, accepts the ones in
`grants`, and rotates them; a request whose client timed out stays in `late` and
may still be processed. `Crash` ends a process with all its calls and leaves an
`Orphan` lock. `spoiled` is a history variable: refresh tokens lost by a crash,
a lost answer, a failed write, a failed local check or a revocation, and those that
were dead when an import brought them.
A `rename` is atomic; a power failure of the accounts file is not modelled.

### AccountSocket

`queue` is the promise chain: the frames of the client and the replays of
rejected frames, each a job with the awaits of `replace()` (choose, connect) as
`phase`. Events of the current upstream (`Output`, `Finish`, `RejectHidden`,
`RejectDelivered`, ...) run between them. `requests`, `started` and `attempted`
are the fields of the code's `Pending`; `live` is what the upstream really works
on, which the code can only guess for events without a `stream_id`. `wire`,
`seen` and `hidden` record what was forwarded and what the client knows.
A job that is ready is a microtask and normally precedes the next event callback;
with `Batched` TRUE it may also come after it, when the runtime delivers several
messages in one tick. The passing run allows both; the runs that refute a claim
do without it. `Refuse` is `relay.send()` closing the client instead of sending: the
upstream is not open, its buffer is full or the frame cannot be transformed.
`SendThrows` and `SendFails` are the two halves of the job's `catch`, which awaits
the error's text, and `IdleReject` a quota event about no frame in progress.
Frames are numbers; what the transformation makes of a frame, billing and headers
are left out, and the byte limits are a `Close` or an `Overflow` at any time.

### SessionBindings and Failover

`SessionBindings` is `select()`: `pending`, the tail of each key's promise chain,
reading the record, the choice, writing it, and the failures of both. `Failover` adds what `choose`
does inside it: `Check` is one step that takes the snapshot `checked` of the
accounts that are usable and not tried by this turn (the code asks all of them
concurrently); the pool may change before `Pick` uses the snapshot.
`Usable` is what `pick` filters; `Pick` takes the bound account if it is
`Preferred`, a failed check of it is an error, and
`Execute`, `RejectedRetry`, `LateLimit` are the turn. `exhausted` is the local
cooldown, `unusable` what an account may be otherwise. Abstractions: a turn
without a session skips the bindings and is not modelled; Claude's preference for
the account of a continued conversation only chooses among usable accounts and is
part of `Pick`'s choice; which of 429 and 503 a failed selection gives is one
outcome. Whether the first bytes are a rejection is the choice between
`RejectedRetry` and `Accepted` here; how they are read is `EventStream`.

### UsageCache

One account's `usageCache` entry, its cooldown and two readers. The providers
differ, and the model has both: Claude puts the *promise* of a request into the
cache when it starts (lifetime from the start, others join it, a rejected
promise removes its own entry), Codex stores the *value* when it arrives.
A read that has its usage (`known`) waits up to `Wait` ticks for `models()` and for
the other accounts before `Decide` (the `Promise.all` of `pick`).
`Limit`, `InvalidateUsage`, `ResetConfirmed` and `Forgotten` (a login or a
removal) are the invalidations. `old`, `used` and `excused` are histories that say which
observation a call decided on and what was confirmed since it was made.

### Quota

What the proxy knows of several Claude accounts and the reset that
`poolQuotaReset` advertises with a 429. `spent` is the upstream's truth; `usage`,
`models` and `cooldown` are the caches and what a rejection keeps of them, each
observed at another time. `HasQuota`, `QuotaReset` and `QuotaWindows` are
`quota.ts`, `AccountReset`, `Blocking` and `PoolQuotaReset` the estimate. A window
is exhausted until an instant, `Locked`, or free; percentages are that far
abstracted. Assumed of the upstream: quota is only spent until its window's
time comes, and the clocks agree.

`Rejects` is the scope of a rejection (`exhaustedQuota`) and `ResponseQuotaReset`
the later of the two resets its headers may carry. `Foreign` are the windows that
bind no request for the model but that a rejection may be about: the budget of the
slow mode, other models' windows. The code keeps such a reset for the whole account,
so that the estimate for a request may be later than every window that binds it.
`NeverLate` claims what is left, in each of the three modes: until the advertised
reset each account is held up by a window that binds the request or by one that
the upstream named (`named`, a history) in a rejection whose cooldown still lasts.

### HistoryStore

`memory` is the LRU, a map in the order of use that `Remember` changes as
`Map.delete` and `Map.set` do; `objects` and `refs` are the files. A record's address is the
record; a key stands for the hash of session, account and history. Each
`atomicWrite` is two steps, the rename and the directory sync; `kept` and
`leaves` are what a power failure may leave. `MakeDirectories` is the `mkdir` of
`objects/` and `refs/`, whose own entries nothing syncs: a power failure may take
either of them with all its files, and `directory` says which exist. What is lost
with `objects/` is `swept`, and a store that lost a directory promises nothing about
what it had (`saved`); this much the code does not give, and the properties do not
claim it. A crash alone loses no renamed file.
The temporary file and its own sync belong to the rename step: a torn object is
never visible. `Damage` is an object that no longer matches its address.

### AdminFlows

The map of flows, the `/complete` requests (Claude and ChatGPT: the flow goes
*before* the exchange) and the background job of Codex' device login, with the
15-minute deadline and the timer that forgets a flow 5 minutes later. Time is in
coarse ticks. A request whose body `body()` refuses changes nothing and is left
out. The code needs that an exchange (20 s) and Codex's `add()` (a lock
wait of 45 s at most) fit into these 5 minutes; that is the assumption `GraceSuffices`.

### Stats, EventStream, MessageStream and Responses

`Stats` is `http()`: an attempt is started, and `done()` is called by whichever of
abort, end, failure and cancellation comes first. The two modules that extend it
say who reads the body.

`EventStream` is a Codex or ChatGPT turn: `bootstrap` reads chunks until it can
tell a rejection, `quotaFailover` keeps or cancels the response (the
cancellation may fail, `CancelFails`), and
`observeEvents` watches what the client pulls. A body is a sequence of symbols,
`q` for a data line with a quota error, `o` for any other, `c` for a comment and
`n` for a line end. An answer without a body is counted at once (`AnswerEmpty`), and
so is an error, whose body passes (`Raw`), observed if it is an event stream
(`AnswerError`); chunks end anywhere, between the two line ends too. `Split`
is the code's splitting of the buffered text, a fold that `Feed`s one symbol at a
time, and `Limit` the 256 000 characters of an event. In `bootstrap` the same number limits the bytes that are buffered.

`MessageStream` is a streaming Claude SDK turn: the call, repeated with another
account after a rejection (`MessageRejected`); then `feedSDK` reads an event, has the
accumulator accept a `message_stop` (which stores the identifiers), and writes the
event, which waits for the client; its `finally` aborts the upstream of an
incomplete message. The accumulator's order rules and the SDK's parser are the
choice between `ReadEvent` and `EventRejected`. `StreamsAssumption` says that an
upstream sends no error event after `message_stop`; if it did, `complete` would
be TRUE and the upstream not aborted.

`Responses` is a turn of either provider; `Claude(step)` and `Codex(step)` leave
the variables of the other kind unchanged.

### ResetCredits

The browser tabs of one Codex account's card and the upstream. `storage` is each
tab's `sessionStorage`, which alone survives `Reload`. A click posts
`<<credit, id>>` with the kept or a new UUID; `posts` are the requests that may
still reach the upstream, once, twice (the proxy repeats it after a 401) or
never, and after the page has given up. External: the upstream redeems a credit
once and answers the same to the same id; that is what the idempotency key is for.

## The runs

| Run | Instance | Shows |
|---|---|---|
| `store` | 2 calls in 2 processes, an account with 2 tokens, an account that imports bring (390 thousand states) | rotation is serialized and justified, a live grant is never disabled, a 401 retry progresses, whole-file rewrites implement `Vault`, every call ends |
| `socket_turns` | 4 frames (one stream reused, two untagged, one no create, one not self-contained), 2 accounts, 3 connections | no leaked connection, no duplicate, no reordering, hidden rejections resolved, frames forwarded |
| `socket_replaced` | 3 self-contained creates, 3 accounts | finding 1 |
| `socket_seen` | 3 self-contained creates without `stream_id`, 2 accounts | finding 2 |
| `failover` | 2 turns of one session, 2 accounts (250 thousand states) | one selection per session at a time, durable bindings, a session stays on its account, no account tried twice, every turn answered |
| `usage_reads` | 2 readers, both providers, 3 ticks of cache, 2 of transit, 1 of waiting for the rest (1.4 million states) | quota used is at most that old; Claude rechecks after a rejection; a failed request is not cached |
| `usage_reset` | the same, Codex | finding 3 |
| `quota` | 2 accounts with the model, a session window, a window of the model and a slow budget, 2 instants (510 thousand states) | the advertised reset of the pool is never late |
| `history_durable` | 2 calls, 3 records of 2 keys, memory for 1 (2.1 million states) | references resolve and saved records are found through crashes and power failures |
| `responses` | 2 attempts, bodies of one to three events in chunks of one to four symbols, `Limit` 3; messages with heartbeats and errors anywhere | bytes arrive intact, a retry is unseen, quota events are found, identifiers are stored first, upstreams are released, each attempt is counted once and in the end |
| `reset_credits` | 2 tabs, 2 credits, 3 UUIDs (670 thousand states) | one outstanding key per tab and credit, and true reports |
| `admin_logins` | a pasted and a device flow, 2 requests | codes are exchanged once, completed means stored, outcomes stay readable, logins end |

The type invariants of all modules are theorems; two of them are checked by runs
as well.

Why the bounds are enough: every race here is between two actors and a third
event. Two calls suffice for a lost race at the lock, and a second token for its
consequence; three frames are one that runs, one that is rejected and
one in between; a memory for one record evicts at every turn. Two processes with
a call each include the server racing itself, since the lock treats a process
like any other. In `failover` two turns select four times in all, so a chain tail
is removed while the other turn is queued; more turns are a matter of the proofs.
`store` keeps the tasks apart (`CONSTRAINT Bounds`): the server takes tokens, the
other process does everything; the second account never expires, has one token and
comes by imports, so that an import changes one account or both beside a login, a
refresh or a disabling; no token expires beside a retry of the server; and one grant
is spoiled or late at a time.
`quota` explores at most one cooldown and one spent window that binds of an account
at a time, no locked one, and one account that is disabled or held up by a foreign
window, while the other one is observed and not cooling down (`CONSTRAINT Few`); `history_durable` one damaged or swept object at a time
(`OneLoss`). In `socket_turns` the first connection is account `a`'s, since accounts
are interchangeable there. The theorems have none of these bounds.
In `responses` an event of five symbols is oversized,
spans two or three chunks, and its last line alone would be a quota error; one of
two is at the limit with the line ends around it, and one follows three line ends.
The theorems have no bound on bodies, chunks or `Limit`.
`MaxIssued`, `MaxConns`, `NumFrames`, `MaxCooldown`, `MaxAttempts`, `MaxChunk`,
`MaxIds` and `MaxTime` are the only caps in guards.

Symmetry is used for calls, tabs, credits and accounts in runs of
safety only. `CHECK_DEADLOCK FALSE` stands where the system stops: a socket that
has ended, turns that are all answered, a response that is over, a page whose
UUIDs are drawn, the last instant.

### Fairness

No fairness is assumed of clients, operators, upstream quota or crashes.
`AccountStore`: a call that runs goes on (OAuth requests time out, the lock wait
has a deadline; nobody has to remove an orphan lock). `AccountSocket`: the jobs
of the chain settle (the handshake has 20 s, selection uses requests with
timeouts) and a closed socket raises its event. `Failover`: a turn goes on (the
upstream request ends within ten minutes). `AdminFlows`: time passes, timers
fire, a device login goes on. `Responses`: calls, stores and an upstream that
breaks off settle, and the `AbortSignal.timeout` of a turn fires in the end; no
client is assumed to read, so `EveryAttemptCounted` covers one that stalls.

## Findings

1. `OnlyExhaustedReplaced` (`account-socket.ts:112`): a replay that waited
   behind another job's replacement swaps out the healthy account that job
   connected, and ends its generation. `docs/SESSIONS.md` allows replacement after
   confirmed exhaustion only.
2. `NothingSeenReplayed` (`account-socket.ts:101`): an event without a `stream_id` is
   attributed to the only pending request. Of three untagged creates the second
   takes the pending entry of the first, the end of the first removes it, and the
   third is registered as unstarted while the second still runs
   (`account-socket.ts:87`). The second's rejection is then taken for the third's
   and hidden; output of the third reaches the client while the replay waits for an
   account, and the third is generated again. `docs/SESSIONS.md` says that
   concurrent generations and partially delivered responses are not replayed.
3. `FreshAfterReset` (`codex/accounts.ts:102`): a usage answer from before a
   redeemed reset is cached after it, and the account is refused for 30 s more
   although `docs/CODEX.md` says that the next request verifies fresh quota.

Remarks, without a run:

- `put()` syncs the files and the directories it renames in, but not the entries of
  `objects/` and `refs/` themselves (`history-store.ts:66`): on a store that it has
  just created, a power failure may lose what was stored without a warning.
- `poolQuotaReset` may advertise the reset of a slow budget or of another model's
  window (see `Quota`).
- `response.incomplete` is not among the terminal events
  (`account-socket.ts:126`): a request that ends with it stays pending, and the
  next rejection on that socket is delivered where it could have been replayed.
- `observeEvents` drops the rest of an oversized event up to the next separator
  (`responses-events.ts:14`). When the text it has dropped ends between the two
  line ends of the separator, the next event is taken for that rest and is not
  observed; `ObservedExactly` therefore asks nothing of an event that follows an
  oversized one. An event within two characters of the limit may be lost the same
  way, since up to two line ends of its separators are measured with it (the proof
  of `QuotaObserved` found this, in an earlier form of the property).

## The proofs

The theorems hold for every set of accounts, calls, processes, keys, records,
flows, requests, turns, tabs, credits, windows, bodies and chunks. They assume
only the `ASSUME`s of the modules: sentinels
differ from real values, each call belongs to a process, bounds are natural
numbers, bodies are texts of the four symbols, `Limit` is positive, the grace of a flow exceeds the time of an exchange and an `add()`, no
error event follows a `message_stop`.

`AccountStore_proofs`: `IInv` strengthens `TypeOK` and `MutualExclusion` by what
a call knows in each phase. `RefreshPhase` and `CommitPhase` say that the draft
of the lock holder is the current file except for its own account (no one else
writes, because no one else holds the lock); `LoginPhase`, `StoredKnown` and
`DraftKnown` bound the numbers of the tokens in the file and in calls by those
issued, so that a renewal is a newer token. `TypeCorrect`, `Exclusion` and
`NothingLost` follow; `Refinement` maps each action to a step of `Vault` or a
stutter, with `vault <- file`, the pending logins as `offered` and the files of
pending imports as `announced`. `ImportSound` and `ImportDistinct` say that an
import brings only tokens that were issued, none of them twice.

About refreshes, `GInv` says that a stored or drafted grant is accepted, spoiled
or superseded by the lock holder's unsaved one, and that no two logins share a
grant; `GrantsStayLive` and `DisabledForCause` follow. `RInv` relates a refresh to
the check that justified it (`RefreshJustified`, `RetryProgresses`).

`AccountSocket_proofs` has three invariants, each resting on those before it.
`TInv`: types, and a job that awaits a handshake has its account and the current
connection alone open (`SocketTyped`, `SocketOneUpstream`). `Turns`: the frames
waiting on the chain are the last ones sent, in order, and whatever is replayed,
pending or in progress was forwarded before (`SocketInOrder`). `Tried`: where a
create was forwarded is in `attempted`, which `replace()` excludes
(`SocketAtMostOnce`); it does not matter whose rejection caused the replay.
The safety half of
`HiddenIsResolved` is `SocketHiddenHasReplay`: while the client is open, a rejection
kept from it always has a job that will replay its request or deliver it.

`HistoryStore_proofs`: what a power failure may leave (`leaves`) refers to kept
objects because a `put()` reaches its reference only with its object kept, also
when another `put()` syncs the same directory first, unless the power failure
took `objects/` (`References`); a saved
key always has its reference, because the renamed one is never removed
(`Saved`). The memory plays no part in this. It is a map (`MapLike`): removing a key's
entry and appending a record leaves one entry per key, `Cap` at most
(`HistoryTyped`). `FInv` adds what a `get()` has in hand at each of its steps, so
that a saved conversation is found in memory or behind its reference (`SavedFound`).

`AdminFlows_proofs`: a flow that still accepts or awaits a code has none
exchanged (`Unexchanged`), so the code is exchanged once (`CodesOnce`);
completion follows the store (`ReportsTrue`); a running login is younger than its
deadline plus its own exchange time (`InTime`), so the timer has not fired
(`OutcomesReadable`).

`Failover_proofs`: `select()` has no queue, only promises that each wait for the
one before. `Queued` says that they implement one all the same: for each key
there is a sequence of the selections under way, each `after` its predecessor,
the map's tail its last (`Chain`). Only its head reads, chooses and writes, so
what it has read stays true (`Staged`), which gives `SelectionExclusive` and
`BindingDurable`. `Turn` relates a turn to its selection: what it checked or
selected was not tried (`TriedOnce`), and a bound account that failed the check
is lost (`Gone`, `BindingKept`).

`Usage_proofs`, on `Quota`: whatever is kept was true once and can only have become too
optimistic (`KeptTrue`): an exhaustion seen at some time still lasts, at least as
long, or its time has come. So a reset that lies in the future is that of a
window that is exhausted at least until then, which binds the request or was named
(`Blamed`), and the maximum over an account and
the minimum over the pool keep that.

On `UsageCache`, `CacheInv` says that a cached promise is that of a request still
under way (`UsageFailureNotCached`); that is what `Owned` is for, since requests
overtake each other. `LimitKnown`: after a limit neither the cache nor the promise
in it is from before it, and who waits for an older answer began before
(`UsageRechecked`). `RecentlyTrue` is the bound of `UsageBoundedStaleness`: the
time since an answer stopped being true and the lifetime it has left in the cache
add up to `TTL + Deadline` at most, and the wait for the decision adds `Wait`
(`KnownRecently`).

`Responses_proofs`: each step is one operation of `Stats` or leaves the counters
alone (`StepCounts`); running attempts are finitely many and leave `active` when
they enter an outcome (`Counting`). `MessageInv` says what `feedSDK` has accepted
and shown where it stands (`Accepted`) and how both streams end (`Ending`). Of the bytes, `BytesInv` says
that the chunks still buffered are adjacent pieces of the body: it has a function
`cut` from their indices to positions in the body, which a `pull()` shifts and a
read extends (`CodexBytesIntact`).

The other properties of a Codex turn compare what was read in pieces with `Split`
of the whole, so they need inductions over texts. The library's induction theorems
cannot be used, but its `WFMin` can: a set of numbers that is not empty has a least
one (`Least`), so a set of texts that has the empty one, and with each text the one
longer by a symbol, is `Text` (`TextInduction`). By it, `Split` is typed, feeds
the last symbol to what it made of those before (`SplitAppend`), and may go on from
the unfinished text alone (`SplitConcat`).

`RetryInv` is what `quotaFailover()` knows of its attempt: the text that
`bootstrap` keeps is all it has read, without a frame (`Unfinished`), so what the
next chunk decides is what the body's first data event says (`ChunkDecides`,
`RetriesUnseen`).

`ObservedInv` compares the text and the flag of `observeEvents` with what follows
the last event of all delivered bytes (`Follows`). They are the same (`Exact`), the
beginning of an oversized event was dropped (`Dropping`), or all of it was dropped
up to the second line end of its separator, and then the observer has one line end
more than there is (`Ahead`), or one less (`Behind`). Each symbol keeps that, and
keeps the count between the events that must be and those that may be counted
(`Bounds`, `SymbolStep`); a chunk is an induction over its symbols (`AllPassed`),
after which its oversized rest is dropped (`ObserveStep`, `QuotaObserved`).

`ResetCredits_proofs`: a request that may still have an effect carries the id
its tab keeps (`Pending`), so a tab without an id has nothing outstanding.
`Told` says that the tab whose request redeemed a credit keeps that id until it is told;
with `Answered`, the upstream's books, reports are true.

Only model-checked: liveness (`CallsEnd`, `HiddenIsResolved`, `SentIsForwarded`,
`TurnsAnswered`, `EveryAttemptCounted`, `LoginsEnd`), which is beyond the prover.
Every invariant and every action property that a passing run checks is a theorem.

## Not modelled

- Request validation, headers, signing, prompts and cache marks, schemas: they
  keep no state and no order.
- The attempts of a WebSocket in `Stats`: its `close` event calls the same
  `done()`.
- The dashboard's buttons for login, deletion and models, which send one request
  each, and its rendering.
- The pagination of the model list and the profile cache: reads of one account
  without a decision that outlives them.
- `cli.ts` beyond its calls of the stores, and the callback listeners of its
  logins, which serve one login and then exit.

Next in line: the attempts of a WebSocket in `Stats`, and `socket_turns` with
frames that wait behind a slow upstream.
