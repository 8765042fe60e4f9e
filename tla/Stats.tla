--------------------------------- MODULE Stats ---------------------------------
(***************************************************************************)
(* The counters of the dashboard, and Stats.http(), the layer around each  *)
(* HTTP attempt that counts it.  An attempt's closure done() is called by  *)
(* whatever ends it first: the abort of the request's signal, the end of   *)
(* the body, its failure, or its cancellation by the reader; the later     *)
(* calls must not count.  `row' is the sum of the rows of one provider.    *)
(* Reading the body is left to the modules that extend this one.           *)
(***************************************************************************)
EXTENDS Integers, FiniteSets, Sequences

CONSTANT MaxAttempts  \* accounts a turn may try

ASSUME MaxAttemptsAssumption == MaxAttempts \in Nat \ {0}

VARIABLES
    row,        \* total, active, completed, errors, cancelled
    running,    \* the attempts whose closure has not been called
    attempt,    \* the number of the current attempt
    http,       \* the current attempt, as the reader of http()'s result sees it
    signal      \* the client's connection and the ten minutes of a turn

stats == <<row, running, attempt, http, signal>>

Outcomes == {"completed", "errors", "cancelled"}
Attempts == 1..MaxAttempts

StatsTypeOK ==
    /\ row \in [{"total", "active"} \cup Outcomes -> Nat]
    /\ running \subseteq Attempts
    /\ attempt \in 0..MaxAttempts
    /\ http \in {"idle", "calling", "open", "answered", "ended", "failed", "cancelled"}
    /\ signal \in {"live", "aborted"}

StatsInit ==
    /\ row = [field \in {"total", "active"} \cup Outcomes |-> 0]
    /\ running = {}
    /\ attempt = 0
    /\ http = "idle"
    /\ signal = "live"

\* The row after its field `outcome' has counted attempt a.
Counted(a, outcome) ==
    [row EXCEPT !.active = @ - 1, ![outcome] = @ + 1]

\* Bug: done() without its flag.
BugDone(a, outcome) ==
    /\ row' = Counted(a, outcome)
    /\ running' = running \ {a}

\* done(): only its first call counts.
Done(a, outcome) ==
    IF a \in running
    THEN /\ row' = Counted(a, outcome)
         /\ running' = running \ {a}
    ELSE UNCHANGED <<row, running>>

Failure == IF signal = "aborted" THEN "cancelled" ELSE "errors"

\* start() of the next attempt; a signal that was aborted before is thrown.
HttpStart ==
    /\ attempt < MaxAttempts
    /\ attempt' = attempt + 1
    /\ IF signal = "aborted"
       THEN /\ row' = [row EXCEPT !.total = @ + 1, !.cancelled = @ + 1]
            /\ http' = "failed"
            /\ UNCHANGED running
       ELSE /\ row' = [row EXCEPT !.total = @ + 1, !.active = @ + 1]
            /\ running' = running \cup {attempt'}
            /\ http' = "calling"
    /\ UNCHANGED signal

\* A response with a body, which http() wraps.
HttpOpens ==
    /\ http = "calling"
    /\ http' = "open"
    /\ UNCHANGED <<row, running, attempt, signal>>

\* An error, or no body: counted at once.
HttpAnswers(outcome) ==
    /\ http = "calling"
    /\ http' = "answered"
    /\ Done(attempt, outcome)
    /\ UNCHANGED <<attempt, signal>>

\* call() throws, or the reader finds the body broken.
HttpFails ==
    /\ http \in {"calling", "open"}
    /\ http' = "failed"
    /\ Done(attempt, Failure)
    /\ UNCHANGED <<attempt, signal>>

\* The reader finds the end of the body.
HttpEnds ==
    /\ http = "open"
    /\ http' = "ended"
    /\ Done(attempt, "completed")
    /\ UNCHANGED <<attempt, signal>>

\* The reader cancels the body; a body that is over ignores it.
HttpCancel ==
    /\ http' = IF http = "open" THEN "cancelled" ELSE http
    /\ IF http = "open" THEN Done(attempt, "cancelled") ELSE UNCHANGED <<row, running>>
    /\ UNCHANGED <<attempt, signal>>

\* Bug: http() does not listen to its signal.
BugOnAbort == UNCHANGED <<row, running>>

\* The abort listener of the attempt, if it is still registered.
OnAbort == Done(attempt, "cancelled")

\* The client disconnects, or the ten minutes are over.
Abort ==
    /\ signal = "live" /\ attempt > 0
    /\ signal' = "aborted"
    /\ OnAbort
    /\ UNCHANGED <<attempt, http>>

-----------------------------------------------------------------------------
\* Every attempt is counted once, whichever of abort, cancel, end and failure
\* come together: it is active until its closure is called, and then stands in
\* exactly one of the outcomes.
CountedOnce ==
    /\ row.active = Cardinality(running)
    /\ row.total = attempt
    /\ row.total = row.active + row.completed + row.errors + row.cancelled

\* No attempt stays active for ever, also when its client neither reads its
\* response nor leaves.
EveryAttemptCounted ==
    \A a \in Attempts : a \in running ~> a \notin running
=============================================================================
