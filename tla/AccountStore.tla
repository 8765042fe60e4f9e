----------------------------- MODULE AccountStore -----------------------------
(***************************************************************************)
(* One accounts file (accounts.json, codex-accounts.json or                *)
(* chatgpt-accounts.json), its directory lock, and every call that reads   *)
(* or rewrites it: token() with its 401 retry and the CLI's forced         *)
(* refresh, add() after a login, remove(), and the import of the accounts  *)
(* of another host's file.  Callers are asynchronous calls of the server   *)
(* and of CLI processes; a process crash ends all its calls and leaves the *)
(* lock directory behind.  An account is the same account on every host (a *)
(* client id keeps the id of its first login).                             *)
(*                                                                         *)
(* The OAuth server is the environment: `grants' are the refresh tokens it *)
(* still accepts, numbered per account in the order it issued them.        *)
(***************************************************************************)
EXTENDS Integers, FiniteSets

CONSTANTS
    Accounts,       \* account ids
    Callers,        \* concurrent store calls, over all processes
    Processes,      \* the server and the CLI invocations
    ProcessOf,      \* [Callers -> Processes]
    Absent,         \* no record in the file / no result
    Free, Orphan,   \* lock directory missing / left behind by its owner
    MaxIssued       \* bound: tokens the OAuth server issues for an account

ASSUME SentinelsOutside ==
    /\ Free \notin Callers
    /\ Orphan \notin Callers
    /\ Free # Orphan
    /\ Absent \notin [access : Nat, refresh : Nat, disabled : BOOLEAN]
ASSUME ProcessesOwnCallers == ProcessOf \in [Callers -> Processes]
ASSUME BoundIsNat == MaxIssued \in [Accounts -> Nat]

NoToken == 0        \* tokens are numbered from 1
Record  == [access : Nat, refresh : Nat, disabled : BOOLEAN]
Files   == [Accounts -> Record \cup {Absent}]
Empty   == [a \in Accounts |-> Absent]

VARIABLES
    file,       \* the parsed accounts file
    lock,       \* the lock directory's owner
    pc, op, target,     \* what each call does, for which account
    rejected,   \* the access token the upstream refused, NoToken for none
    imported,   \* the accounts in the file that an import has read
    tokens,     \* add(): the login's tokens; token(): what it returns
    draft,      \* the data read under the lock and about to be written
    issued,     \* OAuth server: tokens issued so far, per account
    grants,     \* OAuth server: refresh tokens it accepts, per account
    late,       \* refresh requests a client gave up on, still on their way
    expired,    \* access tokens inside the 60 s expiry margin
    spoiled     \* history: refresh tokens lost by a failure, revoked, or stored by
                \* an import when they were no longer accepted

server == <<issued, grants, late, expired, spoiled>>
call   == <<op, target, rejected, imported>>
vars   == <<file, lock, pc, op, target, rejected, imported, tokens, draft,
            issued, grants, late, expired, spoiled>>

Critical == {"load", "refresh", "commit", "unlock"}

TypeOK ==
    /\ file \in Files
    /\ lock \in Callers \cup {Free, Orphan}
    /\ pc \in [Callers -> {"idle", "read", "lock", "done"} \cup Critical]
    /\ op \in [Callers -> {"token", "add", "remove", "import"}]
    /\ target \in [Callers -> Accounts]
    /\ rejected \in [Callers -> Nat]
    /\ imported \in [Callers -> Files]
    /\ tokens \in [Callers -> Record \cup {Absent}]
    /\ draft \in [Callers -> Files]
    /\ issued \in [Accounts -> Nat]
    /\ grants \in [Accounts -> SUBSET Nat]
    /\ late \in [Accounts -> SUBSET Nat]
    /\ expired \in [Accounts -> SUBSET Nat]
    /\ spoiled \in [Accounts -> SUBSET Nat]

Init ==
    /\ file = Empty
    /\ lock = Free
    /\ pc = [c \in Callers |-> "idle"]
    /\ op = [c \in Callers |-> "token"]
    /\ target \in [Callers -> Accounts]
    /\ rejected = [c \in Callers |-> NoToken]
    /\ imported = [c \in Callers |-> Empty]
    /\ tokens = [c \in Callers |-> Absent]
    /\ draft = [c \in Callers |-> Empty]
    /\ issued = [a \in Accounts |-> 0]
    /\ grants = [a \in Accounts |-> {}]
    /\ late = [a \in Accounts |-> {}]
    /\ expired = [a \in Accounts |-> {}]
    /\ spoiled = [a \in Accounts |-> {}]

-----------------------------------------------------------------------------
(* Callers start calls *)

Begin(c, a, kind, refused, held, at) ==
    /\ pc[c] = "idle"
    /\ pc' = [pc EXCEPT ![c] = at]
    /\ op' = [op EXCEPT ![c] = kind]
    /\ target' = [target EXCEPT ![c] = a]
    /\ rejected' = [rejected EXCEPT ![c] = refused]
    /\ tokens' = [tokens EXCEPT ![c] = held]
    /\ UNCHANGED <<file, lock, imported, draft>>

\* A request, or the 30 s refresh timer, asks for a usable token.
BeginToken(c, a) ==
    Begin(c, a, "token", NoToken, Absent, "read") /\ UNCHANGED server

\* The CLI's refresh command declares the stored access token rejected.
BeginForce(c, a) ==
    /\ file[a] # Absent
    /\ Begin(c, a, "token", file[a].access, Absent, "read")
    /\ UNCHANGED server

BeginRemove(c, a) ==
    Begin(c, a, "remove", NoToken, Absent, "lock") /\ UNCHANGED server

\* A login obtained new tokens (imported Claude tokens may lack a refresh
\* token); add() now stores them.
BeginAdd(c, a, refreshable) ==
    LET n == issued[a] + 1
        new == [access |-> n, disabled |-> FALSE,
                refresh |-> IF refreshable THEN n ELSE NoToken]
    IN  /\ n <= MaxIssued[a]
        /\ Begin(c, a, "add", NoToken, new, "lock")
        /\ issued' = [issued EXCEPT ![a] = n]
        /\ grants' = [grants EXCEPT ![a] = @ \cup (IF refreshable THEN {n} ELSE {})]
        /\ UNCHANGED <<late, expired, spoiled>>

\* The refresh tokens that only a running add() holds.
Held(a) == {tokens[c].refresh : c \in {d \in Callers : op[d] = "add" /\ target[d] = a
                                                      /\ tokens[d] # Absent}}

\* What the file of another host, or an older copy of this one, may say of an
\* account: tokens that were issued before.  A disabled one is dead.
Copies(a) ==
    {Absent} \cup
    {r \in [access : 1..issued[a], refresh : 1..issued[a], disabled : BOOLEAN] :
        /\ r.refresh <= r.access /\ r.refresh \notin Held(a)
        /\ r.disabled => r.refresh \notin grants[a]}

\* chatgpt accounts import: the file has been read.
BeginImport(c, copy) ==
    /\ pc[c] = "idle"
    /\ copy # Empty /\ \A a \in Accounts : copy[a] \in Copies(a)
    /\ pc' = [pc EXCEPT ![c] = "lock"]
    /\ op' = [op EXCEPT ![c] = "import"]
    /\ imported' = [imported EXCEPT ![c] = copy]
    /\ UNCHANGED <<file, lock, target, rejected, tokens, draft, server>>

-----------------------------------------------------------------------------
(* token() and update() step by step *)

Goto(c, label) == pc' = [pc EXCEPT ![c] = label]
Return(c, result) == tokens' = [tokens EXCEPT ![c] = result]

Frozen(r) == [r EXCEPT !.disabled = TRUE]
Usable(r) == r # Absent /\ ~r.disabled
\* Bug: the token the upstream refused counts as fresh.
BugFresh(c, a, r) == r.access \notin expired[a]
Fresh(c, a, r) == r.access \notin expired[a] /\ r.access # rejected[c]

\* The read outside the lock: fail, answer at once, or go for the lock.
Read(c) ==
    LET r == file[target[c]]
    IN  /\ pc[c] = "read"
        /\ \/ /\ ~Usable(r)
              /\ Goto(c, "done") /\ Return(c, Absent)
           \/ /\ Usable(r) /\ Fresh(c, target[c], r)
              /\ Goto(c, "done") /\ Return(c, r)
           \/ /\ Usable(r) /\ ~Fresh(c, target[c], r)
              /\ Goto(c, "lock") /\ Return(c, Absent)
        /\ UNCHANGED <<file, lock, call, draft, server>>

\* Bug: mkdir with { recursive: true } succeeds on an existing directory.
BugAcquire(c) ==
    /\ pc[c] = "lock"
    /\ lock' = c
    /\ Goto(c, "load")
    /\ UNCHANGED <<file, call, tokens, draft, server>>

Acquire(c) ==
    /\ pc[c] = "lock"
    /\ lock = Free
    /\ lock' = c
    /\ Goto(c, "load")
    /\ UNCHANGED <<file, call, tokens, draft, server>>

\* Bug: no deadline.
BugNoDeadline(c) == FALSE /\ UNCHANGED vars

\* Reading the file without the lock fails, or mkdir fails otherwise than by an
\* existing directory.
CallThrows(c) ==
    /\ pc[c] \in {"read", "lock"}
    /\ Goto(c, "done") /\ Return(c, Absent)
    /\ UNCHANGED <<file, lock, call, draft, server>>

\* The deadline passed while the directory existed.
LockTimeout(c) ==
    /\ pc[c] = "lock"
    /\ lock # Free
    /\ Goto(c, "done") /\ Return(c, Absent)
    /\ UNCHANGED <<file, lock, call, draft, server>>

\* Bug: no second freshness check under the lock.
BugLoadNoRecheck(c) ==
    LET r == file[target[c]]
    IN  /\ op[c] = "token"
        /\ draft' = [draft EXCEPT ![c] = file]
        /\ IF Usable(r) /\ r.refresh # NoToken THEN Goto(c, "refresh") ELSE Goto(c, "commit")
        /\ Return(c, Absent)

\* Read the file again under the lock and run the change up to its first
\* await.  An error result is committed like any other (the file is
\* rewritten unchanged).
LoadToken(c) ==
    LET r == file[target[c]]
    IN  /\ op[c] = "token"
        /\ draft' = [draft EXCEPT ![c] = file]
        /\ \/ /\ ~Usable(r)
              /\ Goto(c, "commit") /\ Return(c, Absent)
           \/ /\ Usable(r) /\ Fresh(c, target[c], r)
              /\ Goto(c, "commit") /\ Return(c, r)
           \/ /\ Usable(r) /\ ~Fresh(c, target[c], r) /\ r.refresh = NoToken
              /\ Goto(c, "commit") /\ Return(c, Absent)
           \/ /\ Usable(r) /\ ~Fresh(c, target[c], r) /\ r.refresh # NoToken
              /\ Goto(c, "refresh") /\ Return(c, Absent)

\* Bug: the imported file replaces the accounts file.
BugLoadChange(c) ==
    /\ op[c] # "token"
    /\ draft' = [draft EXCEPT ![c] =
                    IF op[c] = "import" THEN imported[c]
                    ELSE [file EXCEPT ![target[c]] = IF op[c] = "add" THEN tokens[c] ELSE Absent]]
    /\ Goto(c, "commit")
    /\ UNCHANGED tokens

\* A file with the accounts of a copy replaced or added.
Merged(copy, old) == [a \in Accounts |-> IF copy[a] = Absent THEN old[a] ELSE copy[a]]

LoadChange(c) ==
    /\ op[c] # "token"
    /\ draft' = [draft EXCEPT ![c] =
                    CASE op[c] = "add" -> [file EXCEPT ![target[c]] = tokens[c]]
                      [] op[c] = "remove" -> [file EXCEPT ![target[c]] = Absent]
                      [] op[c] = "import" -> Merged(imported[c], file)]
    /\ Goto(c, "commit")
    /\ UNCHANGED tokens

Load(c) ==
    /\ pc[c] = "load"
    /\ LoadToken(c) \/ LoadChange(c)
    /\ UNCHANGED <<file, lock, call, server>>

Granted(c) == draft[c][target[c]].refresh

\* The OAuth server answers a refresh of account a with grant r by a new
\* access token and the refresh token `next'.
Grant(a, r, next) ==
    /\ issued[a] < MaxIssued[a]
    /\ issued' = [issued EXCEPT ![a] = @ + 1]
    /\ grants' = [grants EXCEPT ![a] = (@ \ {r}) \cup {next}]

NextToken(a) == issued[a] + 1

\* The refreshed record of account a.
Renewal(a, refresh) ==
    [access |-> NextToken(a), refresh |-> refresh, disabled |-> FALSE]

\* Bug: the previous refresh token wins over the one in the response.
BugRefreshOk(c) ==
    LET a == target[c]
        new == Renewal(a, Granted(c))
    IN  /\ pc[c] = "refresh"
        /\ Granted(c) \in grants[a]
        /\ Grant(a, Granted(c), NextToken(a))
        /\ draft' = [draft EXCEPT ![c][a] = new]
        /\ Return(c, new)
        /\ Goto(c, "commit")
        /\ UNCHANGED <<file, lock, call, late, expired, spoiled>>

\* The refresh succeeds; a response without refresh_token keeps the old one.
RefreshOk(c) ==
    LET a == target[c]
    IN  /\ pc[c] = "refresh"
        /\ Granted(c) \in grants[a]
        /\ \E refresh \in {Granted(c), NextToken(a)} :
              /\ Grant(a, Granted(c), refresh)
              /\ draft' = [draft EXCEPT ![c][a] = Renewal(a, refresh)]
              /\ Return(c, Renewal(a, refresh))
        /\ Goto(c, "commit")
        /\ UNCHANGED <<file, lock, call, late, expired, spoiled>>

\* invalid_grant: the account is disabled and the flag is committed.
RefreshRejected(c) ==
    /\ pc[c] = "refresh"
    /\ Granted(c) \notin grants[target[c]]
    /\ draft' = [draft EXCEPT ![c][target[c]] = Frozen(@)]
    /\ Goto(c, "commit")
    /\ UNCHANGED <<file, lock, call, tokens, server>>

\* Bug: every failed refresh disables the account.
BugRefreshFails(c) ==
    /\ pc[c] = "refresh"
    /\ draft' = [draft EXCEPT ![c][target[c]] = Frozen(@)]
    /\ Goto(c, "commit")
    /\ UNCHANGED <<file, lock, call, tokens, server>>

\* A timeout, a network error, a 5xx or an account hold: nothing is changed,
\* but the OAuth server may still process the request later (AuthLate).
RefreshFails(c) ==
    /\ pc[c] = "refresh"
    /\ late' = [late EXCEPT ![target[c]] = @ \cup {Granted(c)}]
    /\ Goto(c, "commit")
    /\ UNCHANGED <<file, lock, call, tokens, draft, issued, grants, expired, spoiled>>

\* The server rotated but the answer fails a local check (schema, changed
\* identity, lost scope): the new refresh token is thrown away.
RefreshDiscarded(c) ==
    LET a == target[c]
    IN  /\ pc[c] = "refresh"
        /\ Granted(c) \in grants[a]
        /\ Grant(a, Granted(c), NextToken(a))
        /\ spoiled' = [spoiled EXCEPT ![a] = @ \cup {Granted(c)}]
        /\ Goto(c, "commit")
        /\ UNCHANGED <<file, lock, call, tokens, draft, late, expired>>

\* The refresh tokens of an import that the OAuth server no longer accepts.
Stale(c, a) ==
    IF op[c] = "import" /\ imported[c][a] # Absent
    THEN {imported[c][a].refresh} \ grants[a] ELSE {}

\* Validate, write the temporary file and rename it over the accounts file.
Commit(c) ==
    /\ pc[c] = "commit"
    /\ file' = draft[c]
    /\ Goto(c, "unlock")
    /\ spoiled' = [a \in Accounts |-> spoiled[a] \cup Stale(c, a)]
    /\ UNCHANGED <<lock, call, tokens, draft, issued, grants, late, expired>>

\* The rotated refresh token exists only in c's memory.
Unsaved(c) ==
    /\ pc[c] = "commit" /\ op[c] = "token"
    /\ draft[c][target[c]] # file[target[c]]
    /\ draft[c][target[c]].refresh # file[target[c]].refresh

\* Reading, validating, writing or renaming throws: straight to `finally'.
UpdateThrows(c) ==
    /\ pc[c] \in {"load", "commit"}
    /\ Goto(c, "unlock") /\ Return(c, Absent)
    /\ spoiled' = [spoiled EXCEPT ![target[c]] =
                      @ \cup (IF Unsaved(c) THEN {file[target[c]].refresh} ELSE {})]
    /\ UNCHANGED <<file, lock, call, draft, issued, grants, late, expired>>

Unlock(c) ==
    /\ pc[c] = "unlock"
    /\ lock' = Free
    /\ Goto(c, "done")
    /\ draft' = [draft EXCEPT ![c] = Empty]
    /\ UNCHANGED <<file, call, tokens, server>>

\* rm fails in `finally': the call throws and the directory stays.
UnlockFails(c) ==
    /\ pc[c] = "unlock"
    /\ lock' = Orphan
    /\ Goto(c, "done") /\ Return(c, Absent)
    /\ draft' = [draft EXCEPT ![c] = Empty]
    /\ UNCHANGED <<file, call, server>>

\* The upstream answers 401: one more token() that names the refused token.
Unauthorized(c) ==
    /\ pc[c] = "done" /\ op[c] = "token" /\ rejected[c] = NoToken
    /\ tokens[c] # Absent /\ tokens[c].refresh # NoToken
    /\ rejected' = [rejected EXCEPT ![c] = tokens[c].access]
    /\ Goto(c, "read") /\ Return(c, Absent)
    /\ UNCHANGED <<file, lock, op, target, imported, draft, server>>

Finish(c) ==
    /\ pc[c] = "done"
    /\ Goto(c, "idle") /\ Return(c, Absent)
    /\ op' = [op EXCEPT ![c] = "token"]
    /\ rejected' = [rejected EXCEPT ![c] = NoToken]
    /\ imported' = [imported EXCEPT ![c] = Empty]
    /\ UNCHANGED <<file, lock, target, draft, server>>

-----------------------------------------------------------------------------
(* Crashes, the operator, and the OAuth server *)

Calls(p) == {c \in Callers : ProcessOf[c] = p}

Crash(p) ==
    LET dead == Calls(p)
    IN  /\ pc' = [c \in Callers |-> IF c \in dead THEN "idle" ELSE pc[c]]
        /\ op' = [c \in Callers |-> IF c \in dead THEN "token" ELSE op[c]]
        /\ rejected' = [c \in Callers |-> IF c \in dead THEN NoToken ELSE rejected[c]]
        /\ imported' = [c \in Callers |-> IF c \in dead THEN Empty ELSE imported[c]]
        /\ tokens' = [c \in Callers |-> IF c \in dead THEN Absent ELSE tokens[c]]
        /\ draft' = [c \in Callers |-> IF c \in dead THEN Empty ELSE draft[c]]
        /\ lock' = IF lock \in dead THEN Orphan ELSE lock
        /\ spoiled' = [a \in Accounts |-> spoiled[a] \cup
              {file[a].refresh : c \in {d \in dead : target[d] = a /\ Unsaved(d)}}]
        /\ late' = [a \in Accounts |-> late[a] \cup
              {Granted(c) : c \in {d \in dead : target[d] = a /\ pc[d] = "refresh"}}]
        /\ \E c \in dead : pc[c] # "idle"
        /\ UNCHANGED <<file, target, issued, grants, expired>>

\* "If its owner crashed, remove the empty lock directory."
RemoveOrphanLock ==
    /\ lock = Orphan
    /\ lock' = Free
    /\ UNCHANGED <<file, pc, call, tokens, draft, server>>

\* A request whose client gave up is processed after all: nobody receives
\* the rotated token.
AuthLate(a, r) ==
    /\ r \in late[a]
    /\ late' = [late EXCEPT ![a] = @ \ {r}]
    /\ r \in grants[a]
    /\ Grant(a, r, NextToken(a))
    /\ spoiled' = [spoiled EXCEPT ![a] = @ \cup {r}]
    /\ UNCHANGED <<file, lock, pc, call, tokens, draft, expired>>

\* The account signs in on another host, whose file may be imported.
LoginElsewhere(a) ==
    /\ issued[a] < MaxIssued[a]
    /\ issued' = [issued EXCEPT ![a] = NextToken(a)]
    /\ grants' = [grants EXCEPT ![a] = @ \cup {NextToken(a)}]
    /\ UNCHANGED <<file, lock, pc, call, tokens, draft, late, expired, spoiled>>

AuthRevoke(a, r) ==
    /\ r \in grants[a]
    /\ grants' = [grants EXCEPT ![a] = @ \ {r}]
    /\ spoiled' = [spoiled EXCEPT ![a] = @ \cup {r}]
    /\ UNCHANGED <<file, lock, pc, call, tokens, draft, issued, late, expired>>

\* Time passes: a stored access token enters the 60 s margin.
Expire(a) ==
    /\ file[a] # Absent
    /\ file[a].access \notin expired[a]
    /\ expired' = [expired EXCEPT ![a] = @ \cup {file[a].access}]
    /\ UNCHANGED <<file, lock, pc, call, tokens, draft, issued, grants, late, spoiled>>

-----------------------------------------------------------------------------
Start(c) ==
    \/ \E a \in Accounts :
        \/ BeginToken(c, a)
        \/ BeginForce(c, a)
        \/ BeginRemove(c, a)
        \/ \E refreshable \in BOOLEAN : BeginAdd(c, a, refreshable)
    \/ \E copy \in [Accounts -> UNION {Copies(a) : a \in Accounts}] : BeginImport(c, copy)

Step(c) ==
    \/ Read(c) \/ Acquire(c) \/ LockTimeout(c) \/ Load(c)
    \/ RefreshOk(c) \/ RefreshRejected(c) \/ RefreshFails(c) \/ RefreshDiscarded(c)
    \/ Commit(c) \/ UpdateThrows(c) \/ Unlock(c)

\* Failures that nothing makes happen.
Fails(c) == CallThrows(c) \/ UnlockFails(c)

Environment ==
    \/ \E p \in Processes : Crash(p)
    \/ RemoveOrphanLock
    \/ \E a \in Accounts :
          \/ Expire(a) \/ LoginElsewhere(a)
          \/ \E r \in grants[a] : AuthRevoke(a, r)
          \/ \E r \in late[a] : AuthLate(a, r)

\* The logins whose tokens add() has yet to store.
Offered ==
    [a \in Accounts |->
        {tokens[c] : c \in {d \in Callers : /\ op[d] = "add" /\ target[d] = a
                                          /\ pc[d] \in {"lock", "load", "commit"}}}]

\* The files whose accounts an import has yet to store.
Announced ==
    {imported[c] : c \in {d \in Callers : /\ op[d] = "import"
                                         /\ pc[d] \in {"lock", "load", "commit"}}}

Next ==
    \/ \E c \in Callers : Start(c) \/ Step(c) \/ Fails(c) \/ Unauthorized(c) \/ Finish(c)
    \/ Environment

Spec == Init /\ [][Next]_vars

\* A running call keeps going: the network calls have timeouts and waiting
\* for the lock has a deadline.  Nobody has to remove an orphan lock.
FairSpec == Spec /\ \A c \in Callers : WF_vars(Step(c))

-----------------------------------------------------------------------------
(* Properties *)

\* Only the owner of the lock directory is between mkdir and rm of update(),
\* whichever process it runs in (store.ts, "A directory lock also serializes
\* a CLI login with a running server's refresh").
MutualExclusion == \A c \in Callers : pc[c] \in Critical => lock = c

\* What update() is about to write differs from the file only in the call's
\* own accounts: a whole-file rewrite never undoes another call's change.
Own(c) == IF op[c] = "import" THEN {a \in Accounts : imported[c][a] # Absent} ELSE {target[c]}

NoLostUpdate ==
    \A c \in Callers : pc[c] \in {"refresh", "commit"} =>
        \A a \in Accounts \ Own(c) : draft[c][a] = file[a]

\* Every stored refresh token of an enabled account is one the OAuth server
\* accepts, or its successor is in the hands of the lock holder, or a crash,
\* a lost answer, a failed write, a revocation or an outdated import spoiled
\* it.  Two refreshes that raced with the same token would break this.
StoredGrantLive ==
    \A a \in Accounts :
        (Usable(file[a]) /\ file[a].refresh # NoToken) =>
            \/ file[a].refresh \in grants[a] \cup spoiled[a]
            \/ \E c \in Callers : target[c] = a /\ Unsaved(c)

\* An account is disabled only after its grant really died; concurrent
\* refreshes alone never force a new login (accounts.ts, "Refresh-token
\* rotation must be atomic across requests and CLI/server processes").
DisabledOnlyIfSpoiled ==
    \A a \in Accounts :
        (file[a] # Absent /\ file[a].disabled) => file[a].refresh \in spoiled[a]

\* token() never hands back the access token its caller just saw refused.
RetryGetsNewToken ==
    \A c \in Callers :
        (pc[c] = "done" /\ op[c] = "token" /\ tokens[c] # Absent) =>
            tokens[c].access # rejected[c]

\* A refresh is sent only for a stored token that is about to expire or that
\* the caller saw refused, and stays justified until it is answered: calls
\* that queued behind a refresh reuse its result (the re-check under the lock).
NoRedundantRefresh ==
    \A c \in Callers : pc[c] = "refresh" =>
        /\ Usable(file[target[c]])
        /\ ~Fresh(c, target[c], file[target[c]])

\* Readers of the file see it change one account at a time and only by a
\* login, a removal, a refresh of an enabled account or its disabling, or by
\* an import, which changes the accounts of its file at once and no others:
\* the abstract specification of the file.
Abstract == INSTANCE Vault WITH vault <- file, offered <- Offered, announced <- Announced
ImplementsVault == Abstract!Spec

\* Every call ends, even behind a lock that a crashed process left and that
\* nobody removes.
CallsEnd ==
    \A c \in Callers : pc[c] \notin {"idle", "done"} ~> pc[c] \in {"idle", "done"}

=============================================================================
