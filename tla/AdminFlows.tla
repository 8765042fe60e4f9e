------------------------------ MODULE AdminFlows ------------------------------
(***************************************************************************)
(* The login flows of the administration API.  Claude's and ChatGPT's end  *)
(* with a one-use code that the operator pastes into /complete; Codex'     *)
(* device login runs in the background and is read with GET.  Time is      *)
(* counted in coarse ticks.                                                *)
(***************************************************************************)
EXTENDS Naturals

CONSTANTS
    Flows,      \* the flows that are ever started
    Device,     \* those of Codex
    Requests,   \* concurrent /complete requests
    Life,       \* ticks until a flow expires and a device login is aborted
    Grace,      \* ticks that an expired flow stays readable
    Patience    \* ticks that an exchange and the following add() take, at most

ASSUME DeviceFlows == Device \subseteq Flows
ASSUME TicksAreNat == Life \in Nat \ {0} /\ Grace \in Nat /\ Patience \in Nat
ASSUME GraceSuffices == Patience < Grace

VARIABLES
    flows,      \* the flows that AdminApi.flows holds
    started,    \* flows that were ever started
    status,     \* of a flow
    age,        \* ticks since a flow was started, up to Life + Grace
    job,        \* what finishDeviceLogin() does for a flow
    busy,       \* ticks since a device login began to exchange its code
    pc,         \* per request
    asks,       \* the flow of a request
    exchanges,  \* history: exchanges sent to the OAuth server, per flow
    stored      \* history: flows whose account was stored

table == <<flows, started, status>>
clock == <<age, busy>>
requests == <<pc, asks>>
vars == <<table, clock, job, requests, exchanges, stored>>

Pasted == Flows \ Device
Answers == {"ok", "bad request", "not found", "gone", "failed"}
TwoOrMore == 2

TypeOK ==
    /\ flows \subseteq started /\ started \subseteq Flows
    /\ status \in [Flows -> {"pending", "completed", "failed"}]
    /\ age \in [Flows -> 0..(Life + Grace)]
    /\ busy \in [Flows -> 0..Patience]
    /\ job \in [Flows -> {"none", "poll", "sleep", "exchange", "add"}]
    /\ pc \in [Requests -> {"idle", "exchange", "add"} \cup Answers]
    /\ asks \in [Requests -> Flows]
    /\ exchanges \in [Flows -> 0..TwoOrMore]
    /\ stored \subseteq Flows

Init ==
    /\ flows = {} /\ started = {} /\ stored = {}
    /\ status = [f \in Flows |-> "pending"]
    /\ age = [f \in Flows |-> 0]
    /\ busy = [f \in Flows |-> 0]
    /\ job = [f \in Flows |-> "none"]
    /\ pc = [r \in Requests |-> "idle"]
    /\ asks \in [Requests -> Flows]
    /\ exchanges = [f \in Flows |-> 0]

-----------------------------------------------------------------------------
Expired(f) == age[f] >= Life

\* POST .../oauth/start; a device login goes on in the background.
Start(f) ==
    /\ f \notin started
    /\ started' = started \cup {f}
    /\ flows' = flows \cup {f}
    /\ job' = [job EXCEPT ![f] = IF f \in Device THEN "poll" ELSE "none"]
    /\ UNCHANGED <<status, clock, requests, exchanges, stored>>

\* Bug: the timer forgets a flow as soon as it expires.
BugForget(f) ==
    /\ f \in flows /\ Expired(f)
    /\ flows' = flows \ {f}
    /\ UNCHANGED <<started, status, clock, job, requests, exchanges, stored>>

\* The timer of save().
Forget(f) ==
    /\ f \in flows /\ age[f] = Life + Grace
    /\ flows' = flows \ {f}
    /\ UNCHANGED <<started, status, clock, job, requests, exchanges, stored>>

Exchange(f) ==
    exchanges' = [exchanges EXCEPT ![f] = IF @ < TwoOrMore THEN @ + 1 ELSE @]

-----------------------------------------------------------------------------
(* POST .../oauth/complete *)

Answer(r, a) == pc' = [pc EXCEPT ![r] = a]

Ask(r, f) == pc[r] = "idle" /\ asks' = [asks EXCEPT ![r] = f]

NotFound(r, f) ==
    /\ Ask(r, f)
    /\ f \notin flows \cap Pasted
    /\ Answer(r, "not found")
    /\ UNCHANGED <<table, clock, job, exchanges, stored>>

Gone(r, f) ==
    /\ Ask(r, f)
    /\ f \in flows \cap Pasted /\ Expired(f)
    /\ flows' = flows \ {f}
    /\ Answer(r, "gone")
    /\ UNCHANGED <<started, status, clock, job, exchanges, stored>>

\* The code or its state does not match: the operator may paste again.
BadCode(r, f) ==
    /\ Ask(r, f)
    /\ f \in flows \cap Pasted /\ ~Expired(f)
    /\ Answer(r, "bad request")
    /\ UNCHANGED <<table, clock, job, exchanges, stored>>

\* Bug: the flow is forgotten when the login is complete.
BugAccept(r, f) ==
    /\ Ask(r, f)
    /\ f \in flows \cap Pasted /\ ~Expired(f)
    /\ Answer(r, "exchange") /\ Exchange(f)
    /\ UNCHANGED <<table, clock, job, stored>>

\* "Authorization codes are one-use, even if the exchange outcome is ambiguous."
Accept(r, f) ==
    /\ Ask(r, f)
    /\ f \in flows \cap Pasted /\ ~Expired(f)
    /\ flows' = flows \ {f}
    /\ Answer(r, "exchange") /\ Exchange(f)
    /\ UNCHANGED <<started, status, clock, job, stored>>

\* The tokens arrived and passed the checks of identity and scope.
Exchanged(r) ==
    /\ pc[r] = "exchange"
    /\ Answer(r, "add")
    /\ UNCHANGED <<table, clock, job, asks, exchanges, stored>>

\* add() has stored the account.
Added(r) ==
    /\ pc[r] = "add"
    /\ stored' = stored \cup {asks[r]}
    /\ Answer(r, "ok")
    /\ UNCHANGED <<table, clock, job, asks, exchanges>>

\* The exchange, a check (400) or add() (502) fails; what the server did is
\* unknown.
CompleteFails(r) ==
    /\ pc[r] \in {"exchange", "add"}
    /\ \E a \in {"bad request", "failed"} : Answer(r, a)
    /\ UNCHANGED <<table, clock, job, asks, exchanges, stored>>

Respond(r) ==
    /\ pc[r] \in Answers
    /\ Answer(r, "idle")
    /\ UNCHANGED <<table, clock, job, asks, exchanges, stored>>

-----------------------------------------------------------------------------
(* finishDeviceLogin() *)

Goto(f, label) == job' = [job EXCEPT ![f] = label]

\* 403 or 404: the user has not approved yet.
Pending(f) ==
    /\ job[f] = "poll"
    /\ Goto(f, "sleep")
    /\ UNCHANGED <<table, clock, requests, exchanges, stored>>

\* Bug: the deadline is checked by the pending requests only.
BugWake(f) ==
    /\ job[f] = "sleep"
    /\ Goto(f, "poll")
    /\ UNCHANGED <<table, clock, requests, exchanges, stored>>

Wake(f) ==
    /\ job[f] = "sleep" /\ ~Expired(f)
    /\ Goto(f, "poll")
    /\ UNCHANGED <<table, clock, requests, exchanges, stored>>

Approved(f) ==
    /\ job[f] = "poll"
    /\ Goto(f, "exchange") /\ Exchange(f)
    /\ UNCHANGED <<table, clock, requests, stored>>

\* Bug: the login is reported before its account is stored.
BugDeviceExchanged(f) ==
    /\ job[f] = "exchange"
    /\ Goto(f, "add")
    /\ status' = [status EXCEPT ![f] = "completed"]
    /\ UNCHANGED <<flows, started, clock, requests, exchanges, stored>>

DeviceExchanged(f) ==
    /\ job[f] = "exchange"
    /\ Goto(f, "add")
    /\ UNCHANGED <<table, clock, requests, exchanges, stored>>

DeviceAdded(f) ==
    /\ job[f] = "add"
    /\ stored' = stored \cup {f}
    /\ status' = [status EXCEPT ![f] = "completed"]
    /\ Goto(f, "none")
    /\ UNCHANGED <<flows, started, clock, requests, exchanges>>

\* Bug: a failed exchange starts the polling again.
BugDeviceFails(f) ==
    /\ \/ job[f] \in {"poll", "exchange", "add"}
       \/ job[f] = "sleep" /\ Expired(f)
    /\ IF job[f] = "exchange"
       THEN Goto(f, "poll") /\ UNCHANGED status
       ELSE Goto(f, "none") /\ status' = [status EXCEPT ![f] = "failed"]
    /\ UNCHANGED <<flows, started, clock, requests, exchanges, stored>>

\* Bug: a login that ends with its deadline gets a status of its own.
BugDeadline(f) ==
    /\ \/ job[f] \in {"poll", "exchange", "add"}
       \/ job[f] = "sleep" /\ Expired(f)
    /\ Goto(f, "none")
    /\ status' = [status EXCEPT ![f] = IF Expired(f) THEN "expired" ELSE "failed"]
    /\ UNCHANGED <<flows, started, clock, requests, exchanges, stored>>

\* Any other answer, a failed exchange or add(), or the deadline.
DeviceFails(f) ==
    /\ \/ job[f] \in {"poll", "exchange", "add"}
       \/ job[f] = "sleep" /\ Expired(f)
    /\ Goto(f, "none")
    /\ status' = [status EXCEPT ![f] = "failed"]
    /\ UNCHANGED <<flows, started, clock, requests, exchanges, stored>>

-----------------------------------------------------------------------------
(* Time and crashes *)

Exchanging(f) == job[f] \in {"exchange", "add"}

\* Time passes, while no step is overdue: a poll ends with the deadline, and
\* the exchange and add() have their own, which may end later.
Tick ==
    /\ \A f \in started :
        /\ Exchanging(f) => busy[f] < Patience
        /\ job[f] \in {"poll", "sleep"} => ~Expired(f)
    /\ age' = [f \in Flows |->
                IF f \in started /\ age[f] < Life + Grace THEN age[f] + 1 ELSE age[f]]
    /\ busy' = [f \in Flows |-> IF Exchanging(f) THEN busy[f] + 1 ELSE 0]
    /\ UNCHANGED <<table, job, requests, exchanges, stored>>

\* Flows are "in memory": a new process knows none of them.
Restart ==
    /\ flows' = {}
    /\ job' = [f \in Flows |-> "none"]
    /\ pc' = [r \in Requests |-> "idle"]
    /\ UNCHANGED <<started, status, clock, asks, exchanges, stored>>

DeviceStep(f) ==
    \/ Pending(f) \/ Wake(f) \/ Approved(f)
    \/ DeviceExchanged(f) \/ DeviceAdded(f) \/ DeviceFails(f)

Next ==
    \/ \E f \in Flows : Start(f) \/ Forget(f) \/ DeviceStep(f)
    \/ \E r \in Requests :
        \/ \E f \in Flows : NotFound(r, f) \/ Gone(r, f) \/ BadCode(r, f) \/ Accept(r, f)
        \/ Exchanged(r) \/ Added(r) \/ CompleteFails(r) \/ Respond(r)
    \/ Tick \/ Restart

Spec == Init /\ [][Next]_vars

\* Requests and sleeps have timeouts, timers fire, and time passes.
FairSpec ==
    /\ Spec
    /\ \A f \in Flows : WF_vars(DeviceStep(f)) /\ WF_vars(Forget(f))
    /\ WF_vars(Tick)

-----------------------------------------------------------------------------
(* Properties *)

\* "Authorization codes are one-use, even if the exchange outcome is
\* ambiguous", "A failed one-time code exchange must never restart polling or
\* be replayed": whatever is submitted twice, fails or restarts, the code of a
\* flow is exchanged once.
OneUse == \A f \in Flows : exchanges[f] <= 1

\* What GET answers of a flow.
Report(f) == IF f \notin flows THEN "not found"
             ELSE IF status[f] = "pending" /\ Expired(f) THEN "expired" ELSE status[f]

\* The operator is told of a completed login only when its account is stored.
CompletedIsStored ==
    /\ \A f \in Device : Report(f) = "completed" => f \in stored
    /\ \A r \in Requests : pc[r] = "ok" => asks[r] \in stored

\* "Poll GET /admin/oauth/<flow-id> until completed or failed": a device login
\* that is aborted at its deadline or ends after it is still reported.
OutcomeReadable == \A f \in Device : job[f] # "none" => f \in flows

\* Every login ends and no flow stays in the memory for good.
LoginsEnd ==
    \A f \in Flows :
        /\ job[f] # "none" ~> job[f] = "none"
        /\ f \in flows ~> f \notin flows
=============================================================================
